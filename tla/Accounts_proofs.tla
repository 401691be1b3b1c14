--------------------------- MODULE Accounts_proofs ---------------------------
(***************************************************************************)
(* Theorems about Accounts, for every set of accounts, roles, permissions, *)
(* vendors and passwords, and any number of tokens.                        *)
(***************************************************************************)
EXTENDS Accounts, TLAPS

USE AccountAssumption
------------------------------------------------------------------------------
(* The invariant.                                                          *)

Account ==
  [known : BOOLEAN, active : BOOLEAN, roles : SUBSET Roles, password : Passwords,
   access : [Partners -> {"NONE", "OFF", "ON"}], version : Nat \ {0}]

\* The role of the configured account keeps every permission.
AdminRoleKept ==
  roles[AdminRole].known /\ roles[AdminRole].active /\ roles[AdminRole].permissions = Permissions

\* No account is active, and none has a role, that is still to be created.
NothingUnknown ==
  \A u \in Users : /\ users[u].active => users[u].known
                   /\ \A r \in users[u].roles : roles[r].known

AccountInv == AccountTypeOK /\ VersionsIssued /\ AdminRoleKept /\ NothingUnknown

\* What a step leaves to an account: its version never falls, and unless it is
\* counted up the account is not activated and keeps its rights (but for the
\* restart's gift).
Unrevoked(u) ==
  /\ users'[u].version >= users[u].version
  /\ users[u].known /\ users'[u].version = users[u].version =>
       /\ users'[u].active => users[u].active
       /\ \/ Context(u)' = Context(u)
          \/ u = Admin /\ Context(Admin)' = [Context(Admin) EXCEPT !.permissions = Permissions]

\* The version of an account is counted up or kept, everything else is kept.
LEMMA RevokedType ==
  ASSUME NEW accounts \in [Users -> Account], NEW U
  PROVE  /\ Revoked(U, accounts) \in [Users -> Account]
         /\ \A u \in Users :
              /\ Revoked(U, accounts)[u].known = accounts[u].known
              /\ Revoked(U, accounts)[u].active = accounts[u].active
              /\ Revoked(U, accounts)[u].roles = accounts[u].roles
              /\ Revoked(U, accounts)[u].password = accounts[u].password
              /\ Revoked(U, accounts)[u].access = accounts[u].access
              /\ u \in U => Revoked(U, accounts)[u].version = accounts[u].version + 1
              /\ u \notin U => Revoked(U, accounts)[u].version = accounts[u].version
BY DEF Revoked, Account

\* Changing columns of one account leaves accounts accounts.
LEMMA ChangedType ==
  ASSUME NEW accounts \in [Users -> Account], NEW u \in Users,
         NEW active \in BOOLEAN, NEW known \in BOOLEAN, NEW R \in SUBSET Roles,
         NEW a \in [Partners -> {"NONE", "OFF", "ON"}]
  PROVE  /\ [accounts EXCEPT ![u].known = known] \in [Users -> Account]
         /\ [accounts EXCEPT ![u].active = active] \in [Users -> Account]
         /\ [accounts EXCEPT ![u].roles = R] \in [Users -> Account]
         /\ [accounts EXCEPT ![u].access = a] \in [Users -> Account]
BY DEF Account

LEMMA PasswordType ==
  ASSUME NEW accounts \in [Users -> Account], NEW u \in Users, NEW p \in Passwords
  PROVE  [accounts EXCEPT ![u].password = p] \in [Users -> Account]
BY DEF Account

\* Of a context, the permissions alone are exchanged.
LEMMA OnePermissionsField ==
  ASSUME NEW a, NEW b, NEW c, NEW x
  PROVE  [[password |-> a, permissions |-> b, vendors |-> c] EXCEPT !.permissions = x]
         = [password |-> a, permissions |-> x, vendors |-> c]
OBVIOUS

\* Roles that are given, and what becomes of vendor access, are of their types.
LEMMA GivenType ==
  /\ GivableRoles \subseteq SUBSET Roles
  /\ NoAccess \in [Partners -> {"NONE", "OFF", "ON"}]
  /\ \A access : AccessAfter(access) \subseteq [Partners -> {"NONE", "OFF", "ON"}]
<1>1. GivableRoles \subseteq SUBSET Roles
  BY DEF GivableRoles
<1>2. NoAccess \in [Partners -> {"NONE", "OFF", "ON"}]
  BY DEF NoAccess
<1>3. ASSUME NEW access PROVE AccessAfter(access) \subseteq [Partners -> {"NONE", "OFF", "ON"}]
  BY DEF AccessAfter
<1> QED BY <1>1, <1>2, <1>3

\* Accounts are as they should be at the start.
LEMMA InitInv == AccountInit => AccountInv
<1> SUFFICES ASSUME AccountInit PROVE AccountInv
  OBVIOUS
<1>1. (CHOOSE p \in Passwords : TRUE) \in Passwords
  OBVIOUS
<1>2. users \in [Users -> Account]
  BY <1>1, GivenType DEF AccountInit, Account
<1>3. roles \in [Roles -> [known : BOOLEAN, active : BOOLEAN, permissions : SUBSET Permissions]]
  BY DEF AccountInit
<1>4. AccountTypeOK /\ VersionsIssued
  BY <1>2, <1>3 DEF AccountInit, AccountTypeOK, Account, VersionsIssued
<1>5. AdminRoleKept /\ NothingUnknown
  BY DEF AccountInit, AdminRoleKept, NothingUnknown
<1> QED BY <1>4, <1>5 DEF AccountInv

\* A request that changes accounts and revokes the tokens of some of them
\* keeps the invariant, when it takes no account and no version back.
LEMMA UsersStep ==
  ASSUME AccountInv, NEW U, NEW accounts \in [Users -> Account],
         users' = Revoked(U, accounts), UNCHANGED roles,
         \A u \in Users : /\ accounts[u].version = users[u].version
                          /\ users[u].known => accounts[u].known
                          /\ accounts[u].active => accounts[u].known
                          /\ \A r \in accounts[u].roles : roles[r].known,
         \A t \in tokens' : \/ t \in tokens
                            \/ t \in Tokens /\ t.version = users'[t.user].version /\ users'[t.user].known
  PROVE  AccountInv'
<1>1. users' \in [Users -> Account]
  BY RevokedType
<1>2. \A u \in Users : /\ users'[u].version >= users[u].version
                       /\ users[u].known => users'[u].known
                       /\ users'[u].active => users'[u].known
                       /\ users'[u].roles = accounts[u].roles
  <2> TAKE u \in Users
  <2>1. accounts[u].version \in Nat
    BY DEF Account
  <2>2. users'[u].version \in {accounts[u].version, accounts[u].version + 1}
    BY RevokedType
  <2>3. /\ users'[u].known = accounts[u].known
        /\ users'[u].active = accounts[u].active
        /\ users'[u].roles = accounts[u].roles
    BY RevokedType
  <2> QED BY <2>1, <2>2, <2>3
<1>3. AccountTypeOK'
  BY <1>1 DEF AccountInv, AccountTypeOK, Account
<1>4. VersionsIssued'
  <2> SUFFICES ASSUME NEW t \in tokens'
               PROVE  t.version <= users'[t.user].version /\ users'[t.user].known
    BY DEF VersionsIssued
  <2>1. CASE t \in tokens
    <3>1. t.user \in Users /\ t.version \in Nat
      BY <2>1 DEF AccountInv, AccountTypeOK, Tokens
    <3>2. t.version <= users[t.user].version /\ users[t.user].known
      BY <2>1 DEF AccountInv, VersionsIssued
    <3>3. users[t.user].version \in Nat /\ users'[t.user].version \in Nat
      BY <3>1, <1>1 DEF AccountInv, AccountTypeOK, Account
    <3> QED BY <3>1, <3>2, <3>3, <1>2
  <2>2. CASE t \in Tokens /\ t.version = users'[t.user].version /\ users'[t.user].known
    BY <2>2 DEF Tokens
  <2> QED BY <2>1, <2>2
<1>5. AdminRoleKept' /\ NothingUnknown'
  BY <1>2 DEF AccountInv, AdminRoleKept, NothingUnknown
<1> QED BY <1>3, <1>4, <1>5 DEF AccountInv

\* Such a request leaves an account alone whose tokens it does not revoke.
LEMMA UsersUnrevoked ==
  ASSUME AccountInv, NEW U, NEW accounts \in [Users -> Account],
         users' = Revoked(U, accounts), UNCHANGED roles,
         \A u \in Users : accounts[u].version = users[u].version,
         \A u \in Users : u \notin U /\ users[u].known =>
           /\ accounts[u].active => users[u].active
           /\ accounts[u].password = users[u].password
           /\ accounts[u].roles = users[u].roles
           /\ accounts[u].access = users[u].access
  PROVE  \A u \in Users : Unrevoked(u)
<1>0. ASSUME NEW u \in Users PROVE users'[u].version >= users[u].version
  <2>1. accounts[u].version \in Nat /\ accounts[u].version = users[u].version
    BY DEF Account
  <2>2. users'[u].version \in {accounts[u].version, accounts[u].version + 1}
    BY RevokedType
  <2> QED BY <2>1, <2>2
<1> SUFFICES ASSUME NEW u \in Users, users[u].known, users'[u].version = users[u].version
             PROVE  (users'[u].active => users[u].active) /\ Context(u)' = Context(u)
  BY <1>0 DEF Unrevoked
<1>1. u \notin U
  BY RevokedType DEF Account
<1>2. /\ users'[u].active = accounts[u].active
      /\ users'[u].password = accounts[u].password
      /\ users'[u].roles = accounts[u].roles
      /\ users'[u].access = accounts[u].access
  BY RevokedType
<1>3. users'[u].active => users[u].active
  BY <1>1, <1>2
<1>4. PermissionsOf(u)' = PermissionsOf(u)
  BY <1>1, <1>2 DEF PermissionsOf
<1>5. users'[u].password = users[u].password /\ users'[u].access = users[u].access
  BY <1>1, <1>2
<1>6. Context(u)' = Context(u)
  BY <1>4, <1>5 DEF Context
<1> QED BY <1>3, <1>6

\* A request about roles, that revokes the tokens of the accounts it affects.
LEMMA RolesStep ==
  ASSUME AccountInv, NEW U,
         users' = Revoked(U, users), UNCHANGED tokens,
         roles' \in [Roles -> [known : BOOLEAN, active : BOOLEAN, permissions : SUBSET Permissions]],
         \A r \in Roles : roles[r].known => roles'[r].known,
         AdminRoleKept',
         \A u \in Users \ U : \A r \in users[u].roles :
           roles'[r].active = roles[r].active /\ roles'[r].permissions = roles[r].permissions
  PROVE  AccountInv' /\ \A u \in Users : Unrevoked(u)
<1>1. users \in [Users -> Account]
  BY DEF AccountInv, AccountTypeOK, Account
<1>2. users' \in [Users -> Account]
  BY <1>1, RevokedType
<1>3. \A u \in Users : /\ users'[u].version >= users[u].version
                       /\ users'[u].known = users[u].known
                       /\ users'[u].active = users[u].active
                       /\ users'[u].password = users[u].password
                       /\ users'[u].access = users[u].access
                       /\ users'[u].roles = users[u].roles
  <2> TAKE u \in Users
  <2>1. users[u].version \in Nat
    BY <1>1 DEF Account
  <2>2. users'[u].version \in {users[u].version, users[u].version + 1}
    BY <1>1, RevokedType
  <2>3. /\ users'[u].known = users[u].known
        /\ users'[u].active = users[u].active
        /\ users'[u].password = users[u].password
        /\ users'[u].access = users[u].access
        /\ users'[u].roles = users[u].roles
    BY <1>1, RevokedType
  <2> QED BY <2>1, <2>2, <2>3
<1>4. AccountTypeOK'
  BY <1>2 DEF AccountInv, AccountTypeOK, Account
<1>5. VersionsIssued'
  <2> SUFFICES ASSUME NEW t \in tokens
               PROVE  t.version <= users'[t.user].version /\ users'[t.user].known
    BY DEF VersionsIssued
  <2>1. t.user \in Users /\ t.version \in Nat
    BY DEF AccountInv, AccountTypeOK, Tokens
  <2>2. t.version <= users[t.user].version /\ users[t.user].known
    BY DEF AccountInv, VersionsIssued
  <2>3. users[t.user].version \in Nat /\ users'[t.user].version \in Nat
    BY <2>1, <1>1, <1>2 DEF Account
  <2> QED BY <2>1, <2>2, <2>3, <1>3
<1>6. NothingUnknown'
  BY <1>1, <1>3 DEF AccountInv, NothingUnknown, Account
<1>7. ASSUME NEW u \in Users, users'[u].version = users[u].version
      PROVE  (users'[u].active => users[u].active) /\ Context(u)' = Context(u)
  <2>1. u \notin U
    BY <1>1, <1>7, RevokedType DEF Account
  <2>2. PermissionsOf(u)' = PermissionsOf(u)
    <3>1. users'[u].roles = users[u].roles
      BY <1>3
    <3>2. \A r \in users[u].roles :
            roles'[r].active = roles[r].active /\ roles'[r].permissions = roles[r].permissions
      BY <2>1
    <3>3. ASSUME NEW x
          PROVE  x \in PermissionsOf(u)' <=> x \in PermissionsOf(u)
      <4>1. x \in PermissionsOf(u)' <=>
              \E r \in users'[u].roles : roles'[r].active /\ x \in roles'[r].permissions
        BY DEF PermissionsOf
      <4>2. x \in PermissionsOf(u) <=>
              \E r \in users[u].roles : roles[r].active /\ x \in roles[r].permissions
        BY DEF PermissionsOf
      <4> QED BY <4>1, <4>2, <3>1, <3>2
    <3> DEFINE before == PermissionsOf(u)
               after == PermissionsOf(u)'
    <3>4. after = before
      <4>1. ASSUME NEW x PROVE x \in after <=> x \in before
        BY <3>3
      <4>2. after \subseteq before /\ before \subseteq after
        BY <4>1
      <4> HIDE DEF before, after
      <4> QED BY <4>2
    <3> QED BY <3>4
  <2>3. Context(u)' = Context(u)
    <3>1. users'[u].password = users[u].password /\ users'[u].access = users[u].access
      BY <1>3
    <3> QED BY <2>2, <3>1 DEF Context
  <2> QED BY <2>3, <1>3
<1>8. \A u \in Users : Unrevoked(u)
  BY <1>3, <1>7 DEF Unrevoked
<1> QED BY <1>4, <1>5, <1>6, <1>8 DEF AccountInv

\* Every step keeps the invariant, and an account it does not revoke its rights.
LEMMA Step == ASSUME AccountInv, AccountNext PROVE AccountInv' /\ \A u \in Users : Unrevoked(u)
<1> USE DEF AccountInv
<1>0. /\ users \in [Users -> Account]
      /\ roles \in [Roles -> [known : BOOLEAN, active : BOOLEAN, permissions : SUBSET Permissions]]
      /\ tokens \subseteq Tokens
  BY DEF AccountTypeOK, Account
<1>1. ASSUME NEW u \in Users, Login(u) PROVE AccountInv' /\ \A x \in Users : Unrevoked(x)
  <2>1. AccountTypeOK' /\ AdminRoleKept' /\ NothingUnknown'
    BY <1>0, <1>1 DEF Login, AccountTypeOK, AdminRoleKept, NothingUnknown, Tokens, Account
  <2>2. VersionsIssued'
    BY <1>0, <1>1 DEF Login, VersionsIssued, Tokens, Account, NothingUnknown
  <2>3. \A x \in Users : Unrevoked(x)
    BY <1>0, <1>1 DEF Login, Unrevoked, Context, PermissionsOf, Account
  <2> QED BY <2>1, <2>2, <2>3
<1>2. ASSUME NEW t \in tokens, TokenExpires(t) PROVE AccountInv' /\ \A x \in Users : Unrevoked(x)
  <2>1. AccountTypeOK' /\ AdminRoleKept' /\ NothingUnknown' /\ VersionsIssued'
    BY <1>0, <1>2 DEF TokenExpires, AccountTypeOK, AdminRoleKept, NothingUnknown, VersionsIssued
  <2>2. \A x \in Users : Unrevoked(x)
    BY <1>0, <1>2 DEF TokenExpires, Unrevoked, Context, PermissionsOf, Account
  <2> QED BY <2>1, <2>2
<1>3. ASSUME NEW t \in tokens, NEW p \in Passwords, ChangePassword(t, p)
      PROVE  AccountInv' /\ \A x \in Users : Unrevoked(x)
  <2> DEFINE U == {t.user}
             accounts == [users EXCEPT ![t.user].password = p]
  <2>1. t.user \in Users /\ users[t.user].known
    BY <1>0 DEF Tokens, VersionsIssued
  <2>2. accounts \in [Users -> Account]
    BY <1>0, <2>1, PasswordType
  <2>3. \A u \in Users : /\ accounts[u].version = users[u].version
                         /\ accounts[u].known = users[u].known
                         /\ accounts[u].active = users[u].active
                         /\ accounts[u].roles = users[u].roles
                         /\ accounts[u].access = users[u].access
                         /\ u \notin U => accounts[u].password = users[u].password
    BY <1>0 DEF Account
  <2>4. users' = Revoked(U, accounts) /\ UNCHANGED roles
    BY <1>3, Zenon DEF ChangePassword
  <2> HIDE DEF U, accounts
  <2>5. users' \in [Users -> Account]
    BY <2>2, <2>4, RevokedType
  <2>6. users'[t.user].known
    BY <2>1, <2>2, <2>3, <2>4, RevokedType
  <2>7. \A x \in tokens' : \/ x \in tokens
                           \/ x \in Tokens /\ x.version = users'[x.user].version /\ users'[x.user].known
    <3>1. tokens' = tokens \cup {[user |-> t.user, version |-> users'[t.user].version]}
      BY <1>3 DEF ChangePassword
    <3>2. users'[t.user].version \in Nat \ {0}
      BY <2>1, <2>5 DEF Account
    <3> QED BY <2>1, <2>6, <3>1, <3>2 DEF Tokens
  <2>8. AccountInv'
    BY <2>2, <2>3, <2>4, <2>7, UsersStep DEF NothingUnknown
  <2>9. \A u \in Users : Unrevoked(u)
    BY <2>2, <2>3, <2>4, UsersUnrevoked
  <2> QED BY <2>8, <2>9
<1>4. ASSUME NEW by \in Users, NEW u \in Users, NEW active \in BOOLEAN, NEW R \in GivableRoles,
             NEW a \in AccessAfter(NoAccess), CreateUser(by, u, active, R, a)
      PROVE  AccountInv' /\ \A x \in Users : Unrevoked(x)
  <2> DEFINE accounts == [users EXCEPT ![u].known = TRUE, ![u].active = active, ![u].roles = R, ![u].access = a]
  <2>1. ~users[u].known /\ users' = accounts /\ UNCHANGED <<roles, tokens>>
    BY <1>4, Zenon DEF CreateUser
  <2>2. R \in SUBSET Roles /\ (\A r \in R : roles[r].known) /\ a \in [Partners -> {"NONE", "OFF", "ON"}]
    BY GivenType DEF GivableRoles
  <2>3. accounts \in [Users -> Account]
    <3> DEFINE a1 == [users EXCEPT ![u].known = TRUE]
               a2 == [a1 EXCEPT ![u].active = active]
               a3 == [a2 EXCEPT ![u].roles = R]
               a4 == [a3 EXCEPT ![u].access = a]
    <3>1. a1 \in [Users -> Account]
      BY <1>0, <2>2, ChangedType
    <3>2. a2 \in [Users -> Account]
      <4> HIDE DEF a1
      <4> QED BY <3>1, <2>2, ChangedType
    <3>3. a3 \in [Users -> Account]
      <4> HIDE DEF a2
      <4> QED BY <3>2, <2>2, ChangedType
    <3>4. a4 \in [Users -> Account]
      <4> HIDE DEF a3
      <4> QED BY <3>3, <2>2, ChangedType
    <3> QED BY <3>4
  <2>4. \A x \in Users : /\ accounts[x].version = users[x].version
                         /\ users[x].known => accounts[x].known
                         /\ accounts[x].active => accounts[x].known
                         /\ \A r \in accounts[x].roles : roles[r].known
    BY <1>0, <2>2 DEF Account, NothingUnknown
  <2>5. \A x \in Users : users[x].known => accounts[x] = users[x]
    BY <1>0, <2>1
  <2> HIDE DEF accounts
  <2>6. accounts = Revoked({}, accounts)
    BY <2>3 DEF Revoked
  <2>7. AccountInv'
    BY <2>1, <2>3, <2>4, <2>6, UsersStep
  <2>8. \A x \in Users : Unrevoked(x)
    BY <2>1, <2>3, <2>4, <2>5, <2>6, UsersUnrevoked
  <2> QED BY <2>7, <2>8
<1>5. ASSUME NEW by \in Users, NEW u \in Users, NEW active \in BOOLEAN, NEW R \in GivableRoles \cup {users[u].roles},
             NEW a \in AccessAfter(users[u].access) \cup {users[u].access}, UpdateUser(by, u, active, R, a)
      PROVE  AccountInv' /\ \A x \in Users : Unrevoked(x)
  <2> DEFINE changed == active # users[u].active \/ R # users[u].roles \/ a # users[u].access
             U == IF changed THEN {u} ELSE {}
             accounts == [users EXCEPT ![u].active = active, ![u].roles = R, ![u].access = a]
  <2>1. users[u].known /\ users' = Revoked(U, accounts) /\ UNCHANGED <<roles, tokens>>
    BY <1>5, Zenon DEF UpdateUser
  <2>2. R \in SUBSET Roles /\ (\A r \in R : roles[r].known) /\ a \in [Partners -> {"NONE", "OFF", "ON"}]
    BY <1>0, GivenType DEF GivableRoles, NothingUnknown, Account
  <2>3. accounts \in [Users -> Account]
    <3> DEFINE a1 == [users EXCEPT ![u].active = active]
               a2 == [a1 EXCEPT ![u].roles = R]
               a3 == [a2 EXCEPT ![u].access = a]
    <3>1. a1 \in [Users -> Account]
      BY <1>0, <2>2, ChangedType
    <3>2. a2 \in [Users -> Account]
      <4> HIDE DEF a1
      <4> QED BY <3>1, <2>2, ChangedType
    <3>3. a3 \in [Users -> Account]
      <4> HIDE DEF a2
      <4> QED BY <3>2, <2>2, ChangedType
    <3> QED BY <3>3
  <2>4. \A x \in Users : /\ accounts[x].version = users[x].version
                         /\ accounts[x].known = users[x].known
                         /\ accounts[x].active => accounts[x].known
                         /\ \A r \in accounts[x].roles : roles[r].known
    BY <1>0, <2>1, <2>2 DEF Account, NothingUnknown
  <2>5. \A x \in Users : x \notin U => /\ accounts[x].active = users[x].active
                                       /\ accounts[x].password = users[x].password
                                       /\ accounts[x].roles = users[x].roles
                                       /\ accounts[x].access = users[x].access
    BY <1>0 DEF Account
  <2> HIDE DEF accounts, U
  <2>6. AccountInv'
    BY <2>1, <2>3, <2>4, UsersStep
  <2>7. \A x \in Users : Unrevoked(x)
    BY <2>1, <2>3, <2>4, <2>5, UsersUnrevoked
  <2> QED BY <2>6, <2>7
<1>6. ASSUME NEW by \in Users, NEW u \in Users, NEW p \in Passwords, ResetPassword(by, u, p)
      PROVE  AccountInv' /\ \A x \in Users : Unrevoked(x)
  <2> DEFINE U == {u}
             accounts == [users EXCEPT ![u].password = p]
  <2>1. users' = Revoked(U, accounts) /\ UNCHANGED <<roles, tokens>>
    BY <1>6, Zenon DEF ResetPassword
  <2>2. accounts \in [Users -> Account]
    BY <1>0, PasswordType
  <2>3. \A x \in Users : /\ accounts[x].version = users[x].version
                         /\ accounts[x].known = users[x].known
                         /\ accounts[x].active = users[x].active
                         /\ accounts[x].roles = users[x].roles
                         /\ accounts[x].access = users[x].access
                         /\ x \notin U => accounts[x].password = users[x].password
    BY <1>0 DEF Account
  <2> HIDE DEF accounts, U
  <2>4. AccountInv'
    BY <2>1, <2>2, <2>3, UsersStep DEF NothingUnknown
  <2>5. \A x \in Users : Unrevoked(x)
    BY <2>1, <2>2, <2>3, UsersUnrevoked
  <2> QED BY <2>4, <2>5
<1>7. ASSUME NEW by \in Users, NEW u \in Users, DeactivateUser(by, u)
      PROVE  AccountInv' /\ \A x \in Users : Unrevoked(x)
  <2> DEFINE U == {u} \cap {v \in Users : users[v].active}
             accounts == [users EXCEPT ![u].active = FALSE]
  <2>1. users' = Revoked(U, accounts) /\ UNCHANGED <<roles, tokens>>
    BY <1>7, Zenon DEF DeactivateUser
  <2>2. accounts \in [Users -> Account]
    BY <1>0 DEF Account
  <2>3. \A x \in Users : /\ accounts[x].version = users[x].version
                         /\ accounts[x].known = users[x].known
                         /\ accounts[x].active => users[x].active
                         /\ accounts[x].roles = users[x].roles
                         /\ accounts[x].access = users[x].access
                         /\ accounts[x].password = users[x].password
    BY <1>0 DEF Account
  <2> HIDE DEF accounts, U
  <2>4. AccountInv'
    BY <2>1, <2>2, <2>3, UsersStep DEF NothingUnknown
  <2>5. \A x \in Users : Unrevoked(x)
    BY <2>1, <2>2, <2>3, UsersUnrevoked
  <2> QED BY <2>4, <2>5
<1>8. ASSUME NEW by \in Users, NEW r \in Roles, NEW active \in BOOLEAN, CreateRole(by, r, active)
      PROVE  AccountInv' /\ \A x \in Users : Unrevoked(x)
  <2>1. ~roles[r].known /\ roles' = [roles EXCEPT ![r].known = TRUE, ![r].active = active]
    BY <1>8 DEF CreateRole
  <2>2. UNCHANGED tokens /\ users' = Revoked({}, users)
    <3>1. UNCHANGED <<users, tokens>>
      BY <1>8 DEF CreateRole
    <3> QED BY <1>0, <3>1 DEF Revoked
  <2>3. /\ roles' \in [Roles -> [known : BOOLEAN, active : BOOLEAN, permissions : SUBSET Permissions]]
        /\ roles'[r].known
        /\ \A q \in Roles \ {r} : roles'[q] = roles[q]
    <3> DEFINE r1 == [roles EXCEPT ![r].known = TRUE]
    <3>1. r1 \in [Roles -> [known : BOOLEAN, active : BOOLEAN, permissions : SUBSET Permissions]]
      BY <1>0
    <3>2. /\ r1[r].known
          /\ \A q \in Roles \ {r} : r1[q] = roles[q]
      BY <1>0
    <3>3. roles' = [r1 EXCEPT ![r].active = active]
      BY <2>1
    <3> HIDE DEF r1
    <3>4. roles' \in [Roles -> [known : BOOLEAN, active : BOOLEAN, permissions : SUBSET Permissions]]
      BY <3>1, <3>3
    <3> QED BY <3>1, <3>2, <3>3, <3>4
  <2>4. \A q \in Roles : roles[q].known => roles'[q].known
    BY <2>3
  <2>5. AdminRoleKept'
    BY <2>1, <2>3 DEF AdminRoleKept
  <2>6. \A u \in Users \ {} : \A q \in users[u].roles :
          roles'[q].active = roles[q].active /\ roles'[q].permissions = roles[q].permissions
    BY <1>0, <2>1, <2>3 DEF NothingUnknown, Account
  <2> QED BY <2>2, <2>3, <2>4, <2>5, <2>6, RolesStep
<1>9. ASSUME NEW by \in Users, NEW r \in Roles, NEW active \in BOOLEAN, UpdateRole(by, r, active)
      PROVE  AccountInv' /\ \A x \in Users : Unrevoked(x)
  <2> DEFINE U == IF roles[r].active # active THEN Assigned(r) ELSE {}
  <2>1. /\ r \in SystemRoles => active
        /\ roles' = [roles EXCEPT ![r].active = active]
        /\ users' = Revoked(U, users)
        /\ UNCHANGED tokens
    BY <1>9, Zenon DEF UpdateRole
  <2>2. roles' \in [Roles -> [known : BOOLEAN, active : BOOLEAN, permissions : SUBSET Permissions]]
    BY <1>0, <2>1
  <2>3. \A q \in Roles : /\ roles'[q].known = roles[q].known
                         /\ roles'[q].permissions = roles[q].permissions
                         /\ q # r => roles'[q].active = roles[q].active
    BY <1>0, <2>1
  <2>4. AdminRoleKept'
    BY <1>0, <2>1, <2>3 DEF AdminRoleKept
  <2>5. \A u \in Users \ U : \A q \in users[u].roles :
          roles'[q].active = roles[q].active /\ roles'[q].permissions = roles[q].permissions
    BY <1>0, <2>1, <2>3 DEF Assigned, Account
  <2> HIDE DEF U
  <2> QED BY <2>1, <2>2, <2>3, <2>4, <2>5, RolesStep
<1>10. ASSUME NEW by \in Users, NEW r \in Roles, NEW permissions \in SUBSET Permissions,
              UpdateRolePermissions(by, r, permissions)
       PROVE  AccountInv' /\ \A x \in Users : Unrevoked(x)
  <2> DEFINE U == IF roles[r].permissions # permissions THEN Assigned(r) ELSE {}
  <2>1. /\ r \notin SystemRoles
        /\ roles' = [roles EXCEPT ![r].permissions = permissions]
        /\ users' = Revoked(U, users)
        /\ UNCHANGED tokens
    BY <1>10, Zenon DEF UpdateRolePermissions
  <2>2. roles' \in [Roles -> [known : BOOLEAN, active : BOOLEAN, permissions : SUBSET Permissions]]
    BY <1>0, <2>1
  <2>3. \A q \in Roles : /\ roles'[q].known = roles[q].known
                         /\ roles'[q].active = roles[q].active
                         /\ q # r => roles'[q].permissions = roles[q].permissions
    BY <1>0, <2>1
  <2>4. AdminRoleKept'
    BY <1>0, <2>1, <2>3 DEF AdminRoleKept
  <2>5. \A u \in Users \ U : \A q \in users[u].roles :
          roles'[q].active = roles[q].active /\ roles'[q].permissions = roles[q].permissions
    BY <1>0, <2>1, <2>3 DEF Assigned, Account
  <2> HIDE DEF U
  <2> QED BY <2>1, <2>2, <2>3, <2>4, <2>5, RolesStep
<1>11. ASSUME Restart PROVE AccountInv' /\ \A x \in Users : Unrevoked(x)
  <2>1. users' = [users EXCEPT ![Admin].roles = users[Admin].roles \cup {AdminRole}] /\ UNCHANGED <<roles, tokens>>
    BY <1>11 DEF Restart
  <2>2. users[Admin].roles \cup {AdminRole} \in SUBSET Roles
    BY <1>0 DEF Account
  <2>3. users' \in [Users -> Account]
    BY <1>0, <2>1, <2>2 DEF Account
  <2>4. \A u \in Users : /\ users'[u].known = users[u].known
                         /\ users'[u].active = users[u].active
                         /\ users'[u].password = users[u].password
                         /\ users'[u].access = users[u].access
                         /\ users'[u].version = users[u].version
                         /\ u # Admin => users'[u].roles = users[u].roles
    BY <1>0, <2>1 DEF Account
  <2>5. users'[Admin].roles = users[Admin].roles \cup {AdminRole}
    BY <1>0, <2>1 DEF Account
  <2>6. AccountTypeOK'
    BY <1>0, <2>1, <2>3 DEF AccountTypeOK, Account
  <2>7. AdminRoleKept' /\ NothingUnknown'
    BY <2>1, <2>4, <2>5 DEF AdminRoleKept, NothingUnknown
  <2>8. VersionsIssued'
    BY <1>0, <2>1, <2>4 DEF VersionsIssued, Tokens
  <2>9. ASSUME NEW u \in Users PROVE Unrevoked(u)
    <3>1. CASE u # Admin
      <4>1. PermissionsOf(u)' = PermissionsOf(u)
        BY <3>1, <2>1, <2>4 DEF PermissionsOf
      <4>2. Context(u)' = Context(u)
        BY <4>1, <2>4 DEF Context
      <4>3. users[u].version \in Nat
        BY <1>0 DEF Account
      <4> QED BY <4>2, <4>3, <2>4 DEF Unrevoked
    <3>2. CASE u = Admin
      <4>1. PermissionsOf(Admin)' = Permissions
        <5>1. PermissionsOf(Admin)' \subseteq Permissions
          BY <1>0, <2>1, <2>3 DEF PermissionsOf, Account
        <5>2. Permissions \subseteq PermissionsOf(Admin)'
          BY <2>1, <2>5 DEF PermissionsOf, AdminRoleKept
        <5> DEFINE all == PermissionsOf(Admin)'
        <5> HIDE DEF all
        <5> QED BY <5>1, <5>2 DEF all
      <4>2. Context(Admin)' = [Context(Admin) EXCEPT !.permissions = Permissions]
        <5> DEFINE secret == users[Admin].password
                   rights == PermissionsOf(Admin)
                   vendors == {v \in Partners : users[Admin].access[v] = "ON"}
        <5>1. users'[Admin].password = users[Admin].password /\ users'[Admin].access = users[Admin].access
          BY <2>4
        <5>2. Context(Admin)' = [password |-> secret, permissions |-> Permissions, vendors |-> vendors]
          BY <4>1, <5>1 DEF Context
        <5>3. Context(Admin) = [password |-> secret, permissions |-> rights, vendors |-> vendors]
          BY DEF Context
        <5> HIDE DEF secret, rights, vendors
        <5>4. [[password |-> secret, permissions |-> rights, vendors |-> vendors] EXCEPT !.permissions = Permissions]
              = [password |-> secret, permissions |-> Permissions, vendors |-> vendors]
          BY OnePermissionsField
        <5> QED BY <5>2, <5>3, <5>4, Zenon
      <4>3. users[Admin].version \in Nat
        BY <1>0 DEF Account
      <4>4. users'[u].version >= users[u].version /\ users'[u].active = users[u].active
        BY <3>2, <4>3, <2>4
      <4> QED BY <3>2, <4>2, <4>4, Zenon DEF Unrevoked
    <3> QED BY <3>1, <3>2
  <2> QED BY <2>6, <2>7, <2>8, <2>9
<1> QED
  BY <1>1, <1>2, <1>3, <1>4, <1>5, <1>6, <1>7, <1>8, <1>9, <1>10, <1>11, Zenon DEF AccountNext

\* A stutter keeps everything.
LEMMA Stutter ==
  ASSUME AccountInv, UNCHANGED accountVars PROVE AccountInv' /\ \A u \in Users : Unrevoked(u)
<1>1. AccountInv'
  BY DEF accountVars, AccountInv, AccountTypeOK, VersionsIssued, AdminRoleKept, NothingUnknown
<1>2. \A u \in Users : Unrevoked(u)
  BY DEF accountVars, AccountInv, AccountTypeOK, Unrevoked, Context, PermissionsOf
<1> QED BY <1>1, <1>2

LEMMA Inductive == AccountSpec => []AccountInv
<1>1. AccountInv /\ [AccountNext]_accountVars => AccountInv'
  BY Step, Stutter
<1> QED BY <1>1, InitInv, PTL DEF AccountSpec
------------------------------------------------------------------------------
(* The theorems.                                                           *)

\* Accounts, roles and tokens are of their types, and no token is of a version
\* its account has not reached (get_current_user compares the two).
THEOREM AccountsTypeCorrect == AccountSpec => [](AccountTypeOK /\ VersionsIssued)
<1>1. AccountInv => AccountTypeOK /\ VersionsIssued
  BY DEF AccountInv
<1> QED BY <1>1, Inductive, PTL

\* A token that is refused once is refused for good: the versions of an account
\* only go up, and no step that keeps the version activates the account.
THEOREM RevokedIsForever == AccountSpec => RevokedForever
<1>1. ASSUME AccountInv, [AccountNext]_accountVars, NEW t \in tokens, ~Accepts(t) PROVE ~Accepts(t)'
  <2>1. t.user \in Users /\ t.version \in Nat
    BY <1>1 DEF AccountInv, AccountTypeOK, Tokens
  <2>2. t.version <= users[t.user].version /\ users[t.user].known
    BY <1>1 DEF AccountInv, VersionsIssued
  <2>3. users[t.user].version \in Nat /\ users'[t.user].version \in Nat
    BY <1>1, <2>1, Step, Stutter DEF AccountInv, AccountTypeOK
  <2>4. Unrevoked(t.user)
    BY <1>1, <2>1, Step, Stutter
  <2> QED BY <1>1, <2>1, <2>2, <2>3, <2>4 DEF Accepts, Unrevoked
<1>2. AccountInv /\ [AccountNext]_accountVars => [\A t \in tokens : ~Accepts(t) => ~Accepts(t)']_accountVars
  BY <1>1
<1> QED BY <1>2, Inductive, PTL DEF AccountSpec, RevokedForever

\* A token that goes on being accepted goes on with the rights it had: every
\* request that changes the password, permissions or vendors of an account
\* revokes its tokens (revoke_user_sessions, revoke_role_user_sessions), but for
\* the restart, which may only give the configured account every permission.
THEOREM RightsAreRevoked == AccountSpec => SessionsRevoked
<1>1. ASSUME AccountInv, [AccountNext]_accountVars, NEW t \in tokens, Accepts(t), Accepts(t)'
      PROVE  \/ Context(t.user)' = Context(t.user)
             \/ t.user = Admin /\ Context(Admin)' = [Context(Admin) EXCEPT !.permissions = Permissions]
  <2>1. t.user \in Users /\ users[t.user].known
    BY <1>1 DEF AccountInv, AccountTypeOK, Tokens, VersionsIssued
  <2>2. Unrevoked(t.user)
    BY <1>1, <2>1, Step, Stutter
  <2> QED BY <1>1, <2>1, <2>2 DEF Accepts, Unrevoked
<1>2. AccountInv /\ [AccountNext]_accountVars =>
        [\A t \in tokens :
           Accepts(t) /\ Accepts(t)' =>
             \/ Context(t.user)' = Context(t.user)
             \/ t.user = Admin /\ Context(Admin)' = [Context(Admin) EXCEPT !.permissions = Permissions]]_accountVars
  BY <1>1
<1> QED BY <1>2, Inductive, PTL DEF AccountSpec, SessionsRevoked
=============================================================================

------------------------------ MODULE Memberships ------------------------------
(***************************************************************************)
(* Users, their memberships of tenants, and the roles and stores these     *)
(* name: the onboarding of a first user (tenants.service.ts), addUser and  *)
(* the logins (auth.service.ts), agents.service.ts, roles.service.ts,      *)
(* deleteUser (users.service.ts), the assignment of users to stores        *)
(* (store.service.ts) and the migration that does it for everybody.        *)
(* Requests run at the same time; each database call is a step.  The       *)
(* stores themselves are Tenancy's: here every tenant has a main store and *)
(* a branch.                                                               *)
(***************************************************************************)
EXTENDS Requests, Sequences

CONSTANTS
  User,              \* people, by their e-mail
  First,             \* the one who is a member from the start
  Old, New,          \* a tenant with a member, and one that is being set up
  NullMatchesUnset   \* whether a filter on null finds rows without the field

VARIABLES
  users,    \* users[u]: the status of the row with this e-mail, or "none"
  members,  \* the UserTenant rows, in the order they were created
  roles,    \* the role rows, in the order they were created
  agents,   \* users that have an agent row
  status,   \* status[t]: how far the onboarding of t is
  session,  \* session[u]: the tenant and the store in the last JWT of u
  cut       \* users left without a membership by a failure or deleteUser

tables == <<users, members, roles, agents, status, session>>
vars == <<tables, req, started, overlap, cut>>

Tenant == {Old, New}
Store == Tenant \X {"main", "branch"}
Main(t) == <<t, "main">>
Unset == <<"-", "unset">>
Null == <<"-", "null">>
RoleName == {"Admin", "Staff"}
Status == {"PENDING", "ONBOARD_PAYMENT_DETAILS", "ONBOARD_TEAMMATE", "ACTIVE"}
UserStatus == {"none", "inactive", "active"}

MemberRow == [user : User, tenant : Tenant, role : Nat,
              store : Store \cup {Unset, Null}, live : BOOLEAN]
RoleRow == [tenant : Tenant, name : RoleName, full : BOOLEAN, live : BOOLEAN]
NoSession == [tenant |-> Old, store |-> Unset, on |-> FALSE]

Op == {"idle", "onboard", "addUser", "createAgent", "createRole", "updateRole",
       "removeRole", "assignRole", "deleteUser", "assignStore", "unassign", "migration"}
At == {"idle", "verify", "status", "role", "store", "user", "create", "link", "member",
       "write", "agent", "delete", "token", "mail", "assign", "join"}
Request == [op : Op, at : At, tenant : Tenant, user : User, role : Nat, name : RoleName,
            store : Store \cup {Unset, Null}, rows : SUBSET Nat, failed : SUBSET Nat,
            flag : BOOLEAN, made : BOOLEAN]
Idle == [op |-> "idle", at |-> "idle", tenant |-> Old, user |-> First, role |-> 0,
         name |-> "Staff", store |-> Unset, rows |-> {}, failed |-> {}, flag |-> FALSE,
         made |-> FALSE]

Init ==
  /\ users = [u \in User |-> IF u = First THEN "active" ELSE "none"]
  /\ roles = << [tenant |-> Old, name |-> "Admin", full |-> TRUE, live |-> TRUE],
                [tenant |-> New, name |-> "Admin", full |-> TRUE, live |-> TRUE] >>
  /\ members = << [user |-> First, tenant |-> Old, role |-> 1,
                   store |-> Main(Old), live |-> TRUE] >>
  /\ agents = {}
  /\ status = [t \in Tenant |-> IF t = Old THEN "ACTIVE" ELSE "PENDING"]
  /\ session = [u \in User |-> NoSession]
  /\ InitRequests(Idle)
  /\ cut = {}

-----------------------------------------------------------------------------
(* Reads *)

Rows == {i \in DOMAIN members : members[i].live}
OfTenant(t) == {i \in Rows : members[i].tenant = t}
MembersOf(u, t) == {i \in OfTenant(t) : members[i].user = u}
LiveRoles == {r \in DOMAIN roles : roles[r].live}

\* The role Admin of t; its deleted_at was never set.
AdminRoles(t) ==
  IF NullMatchesUnset THEN {r \in LiveRoles : roles[r].tenant = t /\ roles[r].name = "Admin"}
  ELSE {}

\* The reads of store.service.ts; without an order the database picks a row.
GetUserStore(u, t) == {members[i].store : i \in MembersOf(u, t)}
UserHasStoreAccess(u, t, st) == st \in GetUserStore(u, t)
GetUserDefaultStore(u, t) ==
  {IF members[i].store \in Store THEN members[i].store ELSE Main(t) : i \in MembersOf(u, t)}

-----------------------------------------------------------------------------
(* Requests *)

Begin(s, request) ==
  /\ Accept(s, request)
  /\ UNCHANGED <<tables, cut>>

Put(s, request) == Set(s, request) /\ UNCHANGED cut
Go(s, a) == Goto(s, a) /\ UNCHANGED cut
Finish(s) == Put(s, Idle)
Refuse(s) == Finish(s) /\ UNCHANGED tables

Ask(op, a, t) == [Idle EXCEPT !.op = op, !.at = a, !.tenant = t]

\* A company that is being set up is onboarded; everything else is asked for by
\* a member of the tenant.
Staffed == {t \in Tenant : OfTenant(t) # {}}
About(op, a, t, u) == [Ask(op, a, t) EXCEPT !.user = u]

\* tenants.controller.ts
AskOnboard(s) == \E t \in Tenant, u \in User : Begin(s, About("onboard", "verify", t, u))

\* auth.controller.ts
AskAddUser(s) ==
  \E t \in Staffed, u \in User, r \in LiveRoles, onboarding \in BOOLEAN :
    Begin(s, [About("addUser", "user", t, u) EXCEPT !.role = r, !.flag = onboarding])

\* agents.controller.ts
AskCreateAgent(s) ==
  \E t \in Staffed, u \in User : Begin(s, About("createAgent", "user", t, u))

\* users.controller.ts
AskDeleteUser(s) ==
  \E t \in Staffed, u \in User : Begin(s, About("deleteUser", "member", t, u))

\* store.controller.ts
AskAssignStore(s) ==
  \E t \in Staffed, u \in User, st \in Store :
    Begin(s, [About("assignStore", "store", t, u) EXCEPT !.store = st])
AskUnassign(s) ==
  \E t \in Staffed, u \in User : Begin(s, About("unassign", "member", t, u))

\* roles.controller.ts
AskCreateRole(s) ==
  \E t \in Staffed, n \in RoleName, onboarding \in BOOLEAN :
    Begin(s, [Ask("createRole", "role", t) EXCEPT !.name = n, !.flag = onboarding])

\* A role is updated and removed by its id alone: it may be one of any tenant.
\* An update gives a name or leaves it.
AskUpdateRole(s) ==
  \E r \in LiveRoles :
    /\ Staffed # {}
    /\ \/ Begin(s, [Ask("updateRole", "write", Old) EXCEPT !.role = r])
       \/ \E n \in RoleName :
            Begin(s, [Ask("updateRole", "role", Old) EXCEPT !.role = r, !.name = n, !.flag = TRUE])
AskRemoveRole(s) ==
  \E r \in LiveRoles :
    Staffed # {} /\ Begin(s, [Ask("removeRole", "write", Old) EXCEPT !.role = r])
AskAssignRole(s) ==
  \E t \in Staffed, u \in User, r \in LiveRoles :
    Begin(s, [About("assignRole", "role", t, u) EXCEPT !.role = r])

RunMigration(s) == Begin(s, Ask("migration", "member", Old))

Start(s) ==
  AskOnboard(s) \/ AskAddUser(s) \/ AskCreateAgent(s) \/ AskDeleteUser(s)
  \/ AskAssignStore(s) \/ AskUnassign(s) \/ AskCreateRole(s) \/ AskUpdateRole(s)
  \/ AskRemoveRole(s) \/ AskAssignRole(s) \/ RunMigration(s)

\* An error, a lost connection or a restart ends a request where it is; a user
\* that it made and has not linked yet stays.
Fail(s) ==
  /\ req[s] # Idle
  /\ req' = [req EXCEPT ![s] = Idle]
  /\ cut' = IF req[s].made /\ req[s].at \in {"link", "agent"}
            THEN cut \cup {req[s].user} ELSE cut
  /\ UNCHANGED <<tables, started, overlap>>

-----------------------------------------------------------------------------
(* Registration *)

\* onboardInitialPayment: the card payment is verified, and then the status
\* of the tenant is written, before anything else is looked up.
OnboardVerify(s) ==
  /\ Running(s, "onboard", "verify")
  /\ Refuse(s) \/ (Go(s, "status") /\ UNCHANGED tables)

OnboardStatus(s) ==
  /\ Running(s, "onboard", "status")
  /\ status' = [status EXCEPT ![req[s].tenant] = "ONBOARD_PAYMENT_DETAILS"]
  /\ Go(s, "role")
  /\ UNCHANGED <<users, members, roles, agents, session>>

OnboardRole(s) ==
  /\ Running(s, "onboard", "role")
  /\ IF AdminRoles(req[s].tenant) = {} THEN Refuse(s)
     ELSE /\ \E r \in AdminRoles(req[s].tenant) :
               Put(s, [req[s] EXCEPT !.at = "store", !.role = r])
          /\ UNCHANGED tables

OnboardStore(s) ==
  /\ Running(s, "onboard", "store")
  /\ IF ~NullMatchesUnset THEN Refuse(s)
     ELSE /\ Put(s, [req[s] EXCEPT !.at = "user", !.store = Main(req[s].tenant)])
          /\ UNCHANGED tables

\* Mutant: whether the user is a member already is not looked up.
OnboardUserTwice(s) ==
  /\ Running(s, "onboard", "user")
  /\ Go(s, IF users[req[s].user] = "none" THEN "create" ELSE "link")
  /\ UNCHANGED tables

\* A user that is known is linked, unless it is linked already.
OnboardUser(s) ==
  LET u == req[s].user
  IN
  /\ Running(s, "onboard", "user")
  /\ IF MembersOf(u, req[s].tenant) # {} THEN Refuse(s)
     ELSE Go(s, IF users[u] = "none" THEN "create" ELSE "link") /\ UNCHANGED tables

\* A row for an e-mail nobody has (it is unique), and where to go from there.
InsertUser(s, initially, a) ==
  LET u == req[s].user
  IN
  IF users[u] # "none" THEN Refuse(s)
  ELSE /\ users' = [users EXCEPT ![u] = initially]
       /\ Put(s, [req[s] EXCEPT !.at = a, !.made = TRUE])
       /\ UNCHANGED <<members, roles, agents, status, session>>

OnboardCreate(s) == Running(s, "onboard", "create") /\ InsertUser(s, "active", "link")

\* linkUserToTenant: no key is checked; a row for a user that is gone is
\* nobody's.
NewMember(u, t, r, st) ==
  members' = IF users[u] = "none" THEN members
             ELSE Append(members, [user |-> u, tenant |-> t, role |-> r, store |-> st,
                                   live |-> TRUE])

OnboardLink(s) ==
  /\ Running(s, "onboard", "link")
  /\ NewMember(req[s].user, req[s].tenant, req[s].role, req[s].store)
  /\ Finish(s)
  /\ UNCHANGED <<users, roles, agents, status, session>>

\* addUser: nobody has the e-mail ...
AddUserFind(s) ==
  /\ Running(s, "addUser", "user")
  /\ IF users[req[s].user] # "none" THEN Refuse(s) ELSE Go(s, "role") /\ UNCHANGED tables

\* Mutant: the user is created before its role is looked up.
AddUserRoleLate(s) ==
  /\ Running(s, "addUser", "role")
  /\ users[req[s].user] = "none"
  /\ users' = [users EXCEPT ![req[s].user] = "inactive"]
  /\ IF req[s].role \in LiveRoles /\ roles[req[s].role].tenant = req[s].tenant
     THEN Go(s, "link") ELSE Finish(s)
  /\ UNCHANGED <<members, roles, agents, status, session>>

\* ... and the role is one of the tenant.
AddUserRole(s) ==
  /\ Running(s, "addUser", "role")
  /\ IF req[s].role \in LiveRoles /\ roles[req[s].role].tenant = req[s].tenant
     THEN Go(s, "create") /\ UNCHANGED tables
     ELSE Refuse(s)

\* An invited user is inactive until it follows the link of the mail.
AddUserCreate(s) == Running(s, "addUser", "create") /\ InsertUser(s, "inactive", "link")

AddUserLink(s) ==
  /\ Running(s, "addUser", "link")
  /\ NewMember(req[s].user, req[s].tenant, req[s].role, Unset)
  /\ Put(s, [req[s] EXCEPT !.at = "token", !.made = FALSE])
  /\ UNCHANGED <<users, roles, agents, status, session>>

\* The verification token, and the status when the caller is onboarding.
AddUserEnd(s) ==
  /\ Running(s, "addUser", "token")
  /\ IF req[s].flag THEN status' = [status EXCEPT ![req[s].tenant] = "ACTIVE"]
     ELSE UNCHANGED status
  /\ Go(s, "mail")
  /\ UNCHANGED <<users, members, roles, agents, session>>

\* The mail with the link: when it is not accepted, sendMail deletes the user,
\* which its membership does not let happen, unless that is gone by now.
AddUserMail(s) ==
  LET u == req[s].user
      linked == u \in agents \/ \E i \in Rows : members[i].user = u
  IN
  /\ Running(s, "addUser", "mail")
  /\ \/ UNCHANGED users
     \/ ~linked /\ users' = [users EXCEPT ![u] = "none"]
  /\ Finish(s)
  /\ UNCHANGED <<members, roles, agents, status, session>>

\* agents.create: the e-mail, and some role of some tenant that manages agents
\* (it is not used any further).
CreateAgentFind(s) ==
  /\ Running(s, "createAgent", "user")
  /\ IF users[req[s].user] # "none" \/ ~\E r \in LiveRoles : roles[r].full THEN Refuse(s)
     ELSE Go(s, "create") /\ UNCHANGED tables

CreateAgentUser(s) == Running(s, "createAgent", "create") /\ InsertUser(s, "active", "agent")

\* An agent is a user without a membership.
CreateAgent(s) ==
  /\ Running(s, "createAgent", "agent")
  /\ agents' = agents \cup {req[s].user}
  /\ Finish(s)
  /\ UNCHANGED <<users, members, roles, status, session>>

-----------------------------------------------------------------------------
(* roles.service.ts *)

NameTaken(t, n) == \E r \in LiveRoles : roles[r].tenant = t /\ roles[r].name = n

CreateRoleFind(s) ==
  /\ Running(s, "createRole", "role")
  /\ IF NameTaken(req[s].tenant, req[s].name) THEN Refuse(s)
     ELSE Go(s, "write") /\ UNCHANGED tables

\* @@unique([tenantId, role]); while onboarding the status moves on.
\* Permissions may be given or not.
CreateRole(s) ==
  /\ Running(s, "createRole", "write")
  /\ IF NameTaken(req[s].tenant, req[s].name) THEN Refuse(s)
     ELSE /\ \E full \in BOOLEAN :
               roles' = Append(roles, [tenant |-> req[s].tenant, name |-> req[s].name,
                                       full |-> full, live |-> TRUE])
          /\ IF req[s].flag THEN Go(s, "status") ELSE Finish(s)
          /\ UNCHANGED <<users, members, agents, status, session>>

CreateRoleStatus(s) ==
  /\ Running(s, "createRole", "status")
  /\ status' = [status EXCEPT ![req[s].tenant] = "ONBOARD_TEAMMATE"]
  /\ Finish(s)
  /\ UNCHANGED <<users, members, roles, agents, session>>

\* update: a name that any tenant has is refused.
UpdateRoleFind(s) ==
  /\ Running(s, "updateRole", "role")
  /\ IF \E r \in LiveRoles \ {req[s].role} : roles[r].name = req[s].name
     THEN Refuse(s)
     ELSE Go(s, "write") /\ UNCHANGED tables

\* A name that is given and free in the tenant of the role is written; the
\* permissions stay, are cleared or are set.
UpdateRole(s) ==
  LET r == req[s].role
      taken == \E o \in LiveRoles \ {r} : roles[o].tenant = roles[r].tenant /\
                                          roles[o].name = req[s].name
  IN
  /\ Running(s, "updateRole", "write")
  /\ IF ~roles[r].live \/ (req[s].flag /\ taken) THEN Refuse(s)
     ELSE /\ \E full \in BOOLEAN :
               roles' = [roles EXCEPT ![r].name = IF req[s].flag THEN req[s].name ELSE @,
                                      ![r].full = full]
          /\ Finish(s)
          /\ UNCHANGED <<users, members, agents, status, session>>

\* remove: the permissions go first ...
StripRole(s) ==
  /\ Running(s, "removeRole", "write")
  /\ IF ~roles[req[s].role].live THEN Refuse(s)
     ELSE /\ roles' = [roles EXCEPT ![req[s].role].full = FALSE]
          /\ Go(s, "delete")
          /\ UNCHANGED <<users, members, agents, status, session>>

InUse(r) == \E i \in Rows : members[i].role = r

\* Mutant: members do not keep a role from being deleted.
DeleteUsedRole(s) ==
  /\ Running(s, "removeRole", "delete")
  /\ roles' = [roles EXCEPT ![req[s].role].live = FALSE]
  /\ Finish(s)
  /\ UNCHANGED <<users, members, agents, status, session>>

\* ... then the row, unless a membership refers to it.
DeleteRole(s) ==
  LET r == req[s].role
  IN
  /\ Running(s, "removeRole", "delete")
  /\ IF ~roles[r].live \/ InUse(r) THEN Refuse(s)
     ELSE /\ roles' = [roles EXCEPT ![r].live = FALSE]
          /\ Finish(s)
          /\ UNCHANGED <<users, members, agents, status, session>>

\* assignUserToRole: the role, the user, and then the membership is looked up.
AssignRoleFind(s) ==
  /\ Running(s, "assignRole", "role")
  /\ IF req[s].role \notin LiveRoles THEN Refuse(s)
     ELSE Go(s, "user") /\ UNCHANGED tables

AssignRoleUser(s) ==
  /\ Running(s, "assignRole", "user")
  /\ IF users[req[s].user] = "none" THEN Refuse(s)
     ELSE Go(s, "member") /\ UNCHANGED tables

\* The first membership of the user in the tenant, if there is one.
FindMember(s, then, otherwise) ==
  LET found == MembersOf(req[s].user, req[s].tenant)
  IN
  /\ req[s].at = "member"
  /\ \/ /\ found = {}
        /\ otherwise
     \/ \E i \in found : Put(s, [req[s] EXCEPT !.at = then, !.rows = {i}])
  /\ UNCHANGED tables

AssignRoleMember(s) ==
  /\ req[s].op = "assignRole"
  /\ FindMember(s, "assign", Go(s, "join"))

\* The membership that was found; it may be gone by now.
Found(s) == CHOOSE i \in req[s].rows : TRUE
WriteMember(s, new) ==
  IF Found(s) \notin Rows THEN Refuse(s)
  ELSE /\ members' = [members EXCEPT ![Found(s)] = new]
       /\ Finish(s)
       /\ UNCHANGED <<users, roles, agents, status, session>>

AssignRoleUpdate(s) ==
  /\ Running(s, "assignRole", "assign")
  /\ WriteMember(s, [members[Found(s)] EXCEPT !.role = req[s].role])

AssignRoleJoin(s) ==
  /\ Running(s, "assignRole", "join")
  /\ NewMember(req[s].user, req[s].tenant, req[s].role, Unset)
  /\ Finish(s)
  /\ UNCHANGED <<users, roles, agents, status, session>>

-----------------------------------------------------------------------------
(* users.service.ts, store.service.ts *)

\* The membership is looked up by deleteUser, assignUserToStore and
\* unassignUserFromStore.
MemberStep(s) ==
  /\ req[s].op \in {"deleteUser", "assignStore", "unassign"}
  /\ FindMember(s, "write", Finish(s))

\* deleteUser: the membership goes, the user stays.
DeleteUser(s) ==
  LET u == req[s].user
      others == {i \in Rows \ {Found(s)} : members[i].user = u}
  IN
  /\ Running(s, "deleteUser", "write")
  /\ IF Found(s) \notin Rows THEN Refuse(s)
     ELSE /\ members' = [members EXCEPT ![Found(s)].live = FALSE]
          /\ req' = [req EXCEPT ![s] = Idle]
          /\ cut' = IF others = {} THEN cut \cup {u} ELSE cut
          /\ UNCHANGED <<users, roles, agents, status, session, started, overlap>>

\* Mutant: a store of any tenant is taken.
AssignStoreAny(s) ==
  /\ Running(s, "assignStore", "store")
  /\ Go(s, "member")
  /\ UNCHANGED tables

\* assignUserToStore: the store is one of the tenant, removed or not.
AssignStoreFind(s) ==
  /\ Running(s, "assignStore", "store")
  /\ IF req[s].store[1] # req[s].tenant THEN Refuse(s)
     ELSE Go(s, "member") /\ UNCHANGED tables

AssignUserToStore(s) ==
  /\ Running(s, "assignStore", "write")
  /\ WriteMember(s, [members[Found(s)] EXCEPT !.store = req[s].store])

UnassignUserFromStore(s) ==
  /\ Running(s, "unassign", "write")
  /\ WriteMember(s, [members[Found(s)] EXCEPT !.store = Null])

-----------------------------------------------------------------------------
(* create-main-stores.migration.ts: assignUsersToMainStores *)

\* Mutant: memberships whose store was taken away are not looked for.
MigrationReadUnset(s) ==
  /\ Running(s, "migration", "member")
  /\ Put(s, [req[s] EXCEPT !.at = "assign",
                           !.rows = {i \in Rows : members[i].store = Unset}])
  /\ UNCHANGED tables

\* The memberships without a store and the main stores are read once ...
MigrationRead(s) ==
  LET none == IF NullMatchesUnset THEN {Unset, Null} ELSE {Null}
      found == {i \in Rows : members[i].store \in none}
  IN
  /\ Running(s, "migration", "member")
  /\ Put(s, [req[s] EXCEPT !.at = "assign",
                           !.rows = IF NullMatchesUnset THEN found ELSE {}])
  /\ UNCHANGED tables

\* ... and written one by one.  A write that is rejected, of a row that is gone
\* or for any other reason, is only logged (Promise.allSettled).
MigrationAssign(s) ==
  \E i \in req[s].rows :
    /\ Running(s, "migration", "assign")
    /\ \/ /\ i \in Rows
          /\ members' = [members EXCEPT ![i].store = Main(members[i].tenant)]
          /\ Put(s, [req[s] EXCEPT !.rows = @ \ {i}])
       \/ /\ UNCHANGED members
          /\ Put(s, [req[s] EXCEPT !.rows = @ \ {i}, !.failed = @ \cup {i}])
    /\ UNCHANGED <<users, roles, agents, status, session>>

MigrationEnd(s) ==
  /\ Running(s, "migration", "assign")
  /\ req[s].rows = {}
  /\ Refuse(s)

-----------------------------------------------------------------------------
(* Logins: one read of the user with its memberships, then a JWT *)

\* The row of the role is part of the answer: without it the read fails.
Readable(I) == \A i \in I : members[i].role \in LiveRoles

Enter(u, i) ==
  session' = [session EXCEPT ![u] = [tenant |-> members[i].tenant,
                                     store |-> members[i].store, on |-> TRUE]]

\* login names a tenant, or has only one to choose.
Login(u) ==
  LET mine == {i \in Rows : members[i].user = u}
  IN
  /\ users[u] # "none"
  /\ Readable(mine)
  /\ \/ \E i \in mine : Cardinality(mine) = 1 /\ Enter(u, i)
     \/ \E t \in Tenant : \E i \in MembersOf(u, t) : Enter(u, i)
  /\ UNCHANGED <<users, members, roles, agents, status, req, started, overlap, cut>>

\* selectTenantLogin reads only the memberships of the tenant.
SelectTenantLogin(u) ==
  /\ users[u] # "none"
  /\ \E t \in Tenant :
       /\ Readable(MembersOf(u, t))
       /\ \E i \in MembersOf(u, t) : Enter(u, i)
  /\ UNCHANGED <<users, members, roles, agents, status, req, started, overlap, cut>>

-----------------------------------------------------------------------------
Registering(s) ==
  OnboardVerify(s) \/ OnboardStatus(s) \/ OnboardRole(s) \/ OnboardStore(s) \/ OnboardUser(s)
  \/ OnboardCreate(s) \/ OnboardLink(s)
  \/ AddUserFind(s) \/ AddUserRole(s) \/ AddUserCreate(s) \/ AddUserLink(s) \/ AddUserEnd(s)
  \/ AddUserMail(s)
  \/ CreateAgentFind(s) \/ CreateAgentUser(s) \/ CreateAgent(s)

Roles(s) ==
  CreateRoleFind(s) \/ CreateRole(s) \/ CreateRoleStatus(s) \/ UpdateRoleFind(s)
  \/ UpdateRole(s) \/ StripRole(s) \/ DeleteRole(s) \/ AssignRoleFind(s)
  \/ AssignRoleUser(s) \/ AssignRoleMember(s) \/ AssignRoleUpdate(s) \/ AssignRoleJoin(s)

Members(s) ==
  MemberStep(s) \/ DeleteUser(s) \/ AssignStoreFind(s) \/ AssignUserToStore(s)
  \/ UnassignUserFromStore(s) \/ MigrationRead(s) \/ MigrationAssign(s) \/ MigrationEnd(s)

Next ==
  \/ \E s \in Slot : Start(s) \/ Fail(s) \/ Registering(s) \/ Roles(s) \/ Members(s)
  \/ \E u \in User : Login(u) \/ SelectTenantLogin(u)

Spec == Init /\ [][Next]_vars

-----------------------------------------------------------------------------
(* Correctness *)

\* Every table and every request keeps its shape.
TypeOK ==
  /\ users \in [User -> UserStatus]
  /\ members \in Seq(MemberRow)
  /\ roles \in Seq(RoleRow)
  /\ agents \subseteq User
  /\ status \in [Tenant -> Status]
  /\ session \in [User -> [tenant : Tenant, store : Store \cup {Unset, Null}, on : BOOLEAN]]
  /\ RequestsOK(Request)
  /\ cut \subseteq User

\* A user is a member of a tenant once, however it was added, assigned or
\* onboarded, as long as no two requests overlap: the lookups of
\* onboardInitialPayment, addUser and assignUserToRole together see to it.
OneMembership ==
  ~overlap => \A u \in User, t \in Tenant : Cardinality(MembersOf(u, t)) <= 1

\* A membership names a role that exists, or the user could not log in: what
\* is in use is not deleted, as long as no two requests overlap.
MemberHasRole == ~overlap => Readable(Rows)

\* The store a user works in is a store of its tenant: the default one, every
\* one it has access to, and the one a JWT carries into every later request,
\* whatever fails or overlaps.
StoreIsOwn ==
  /\ \A u \in User, t \in Tenant :
       /\ \A st \in GetUserDefaultStore(u, t) : st[1] = t
       /\ \A st \in Store : UserHasStoreAccess(u, t, st) => st[1] = t
  /\ \A u \in User : session[u].store \in Store => session[u].store[1] = session[u].tenant

\* A user without a membership is an agent, was deleted, or is what a failure
\* between the user and its membership left (its e-mail is then refused by
\* addUser): no request that ends by itself leaves one.
StrandedByFailure ==
  \A u \in User :
    users[u] # "none" =>
      \/ \E i \in Rows : members[i].user = u
      \/ u \in agents \cup cut
      \/ \E s \in Slot : req[s].made /\ req[s].user = u

\* The migration misses no membership in silence: when it ends alone, whoever
\* is without a store is one whose assignment it tried and logged as failed.
EverybodyAssigned ==
  \A s \in Slot :
    Running(s, "migration", "assign") /\ req[s].rows = {} /\ ~overlap /\ NullMatchesUnset =>
      \A i \in Rows : members[i].store \in Store \/ i \in req[s].failed

-----------------------------------------------------------------------------
(* Why: what a request names, whatever overlaps *)

\* Rows keep their user and their tenant, roles their tenant; so does what a
\* request found.
Named(r) ==
  /\ r.op \in {"updateRole", "removeRole"} => r.role \in DOMAIN roles
  /\ r.op = "onboard" /\ r.at \in {"user", "create", "link"} => r.store = Main(r.tenant)
  /\ r.op = "assignStore" /\ r.at \in {"member", "write"} => r.store[1] = r.tenant
  /\ r.op \in {"deleteUser", "assignStore"} /\ r.at = "write" =>
       \E i \in DOMAIN members :
         r.rows = {i} /\ members[i].user = r.user /\ members[i].tenant = r.tenant
  /\ r.made => r.op # "idle" /\ r.at \in {"link", "agent"}

TypeInv == TypeOK /\ \A s \in Slot : Named(req[s])

\* The store of a membership is one of its tenant.
RowsAreOwn ==
  \A i \in DOMAIN members : members[i].store \in Store => members[i].store[1] = members[i].tenant
SessionsAreOwn ==
  \A u \in User : session[u].store \in Store => session[u].store[1] = session[u].tenant

\* Who has no row is no member.
NobodyIsNoMember == \A i \in Rows : users[members[i].user] # "none"

MemberInv ==
  TypeInv /\ RowsAreOwn /\ SessionsAreOwn /\ NobodyIsNoMember /\ StrandedByFailure

-----------------------------------------------------------------------------
(* Why: what a request that runs alone knows *)

\* The role it is going to write exists ...
RoleKnown(r) ==
  \/ r.op = "onboard" /\ r.at \in {"store", "user", "create", "link"}
  \/ r.op = "addUser" /\ r.at \in {"create", "link"}
  \/ r.op = "assignRole" /\ r.at \in {"user", "member", "assign", "join"}

\* ... and the user it is going to link is no member yet.
NoMemberYet(r) ==
  \/ r.op = "onboard" /\ r.at \in {"create", "link"}
  \/ r.op = "addUser" /\ r.at = "link"
  \/ r.op = "assignRole" /\ r.at = "join"

Knows(r) ==
  /\ RoleKnown(r) => r.role \in LiveRoles
  /\ NoMemberYet(r) => MembersOf(r.user, r.tenant) = {}
  /\ r.op = "migration" /\ r.at = "assign" /\ NullMatchesUnset =>
       \A i \in Rows : members[i].store \in Store \/ i \in r.rows \cup r.failed

OneRow ==
  \A i, j \in Rows : members[i].user = members[j].user /\ members[i].tenant = members[j].tenant
                    => i = j

AloneInv ==
  /\ MemberInv /\ Alone
  /\ ~overlap => (\A s \in Slot : Knows(req[s])) /\ OneRow /\ Readable(Rows)
=============================================================================

---------------------------- MODULE MembershipsProofs ----------------------------
(***************************************************************************)
(* Proofs about Memberships: every table keeps its shape, the store a user *)
(* works in is one of its tenant, who is without a membership was left by  *)
(* a failure, and without an overlap everybody is a member once, with a    *)
(* role and, after the migration, with a store or a line in its log; for   *)
(* any users, slots and numbers of requests.                               *)
(***************************************************************************)
EXTENDS Memberships, SequenceTheorems, FiniteSetTheorems, TLAPS

-----------------------------------------------------------------------------
(* Requests *)

\* The tables, without the requests.
TablesOK ==
  /\ users \in [User -> UserStatus]
  /\ members \in Seq(MemberRow)
  /\ roles \in Seq(RoleRow)
  /\ agents \subseteq User
  /\ status \in [Tenant -> Status]
  /\ session \in [User -> [tenant : Tenant, store : Store \cup {Unset, Null}, on : BOOLEAN]]
  /\ cut \subseteq User

\* No table forgets a row, a row keeps its user and its tenant.
Grow ==
  /\ DOMAIN members \subseteq DOMAIN members'
  /\ \A i \in DOMAIN members :
       members'[i].user = members[i].user /\ members'[i].tenant = members[i].tenant
  /\ DOMAIN roles \subseteq DOMAIN roles'
  /\ \A o \in DOMAIN roles : roles'[o].tenant = roles[o].tenant

\* The request of slot s becomes r.
Becomes(s, r) == req' = [req EXCEPT ![s] = r] /\ UNCHANGED <<started, overlap>>

\* What TypeInv says of the tables and of the request in a slot.
LEMMA TypeFacts ==
  ASSUME TypeInv
  PROVE  /\ TablesOK
         /\ req \in [Slot -> Request] /\ started \in Nat /\ overlap \in BOOLEAN
         /\ \A s \in Slot : req[s] \in Request /\ Named(req[s])
BY DEF TypeInv, TypeOK, RequestsOK, TablesOK

\* The rows are numbered, and each is one.
LEMMA RowsAreRows ==
  ASSUME TypeInv
  PROVE  /\ Len(members) \in Nat /\ DOMAIN members = 1..Len(members)
         /\ \A i \in DOMAIN members : members[i] \in MemberRow
         /\ Len(roles) \in Nat /\ DOMAIN roles = 1..Len(roles)
         /\ \A o \in DOMAIN roles : roles[o] \in RoleRow
<1>1. members \in Seq(MemberRow) /\ roles \in Seq(RoleRow) BY DEF TypeInv, TypeOK
<1> QED BY <1>1, LenProperties, ElementOfSeq

\* What a request names stays.
LEMMA NamedStays ==
  ASSUME NEW r, Named(r), Grow
  PROVE  Named(r)'
<1>1. r.op \in {"updateRole", "removeRole"} => r.role \in DOMAIN roles' BY DEF Named, Grow
<1>2. r.op \in {"deleteUser", "assignStore"} /\ r.at = "write" =>
        \E i \in DOMAIN members' :
          r.rows = {i} /\ members'[i].user = r.user /\ members'[i].tenant = r.tenant
  <2> SUFFICES ASSUME r.op \in {"deleteUser", "assignStore"}, r.at = "write"
               PROVE  \E i \in DOMAIN members' :
                        r.rows = {i} /\ members'[i].user = r.user /\ members'[i].tenant = r.tenant
    OBVIOUS
  <2>1. PICK i \in DOMAIN members :
          r.rows = {i} /\ members[i].user = r.user /\ members[i].tenant = r.tenant
    BY DEF Named
  <2> QED BY <2>1 DEF Grow
<1> QED BY <1>1, <1>2 DEF Named

\* A step of the request in slot s.
LEMMA Served ==
  ASSUME TypeInv, NEW s \in Slot, NEW r \in Request, Named(r), TablesOK', Grow,
         req' = [req EXCEPT ![s] = r], started' \in Nat, overlap' \in BOOLEAN
  PROVE  TypeInv'
<1>1. req \in [Slot -> Request] /\ \A o \in Slot : Named(req[o]) BY TypeFacts
<1>2. req' \in [Slot -> Request] BY <1>1
<1>3. TypeOK' BY <1>2 DEF TypeOK, TablesOK, RequestsOK
<1>4. ASSUME NEW o \in Slot PROVE Named(req[o])'
  <2>1. PICK q : q = IF o = s THEN r ELSE req[o] OBVIOUS
  <2>2. req'[o] = q BY <1>1, <2>1
  <2>3. Named(q)' BY <1>1, <2>1, NamedStays
  <2> QED BY <2>2, <2>3 DEF Named
<1> QED BY <1>3, <1>4 DEF TypeInv

LEMMA IdleIs ==
  ASSUME First \in User
  PROVE  Idle \in Request /\ Named(Idle) /\ ~Idle.made /\ Idle.op = "idle" /\ Knows(Idle)
BY DEF Idle, Request, Op, At, Tenant, RoleName, Named, Knows, RoleKnown, NoMemberYet

-----------------------------------------------------------------------------
(* Requests that arrive *)

Fresh(r) == r \in Request /\ Named(r) /\ ~r.made /\ Knows(r)

LEMMA Starts ==
  ASSUME First \in User, TypeInv, NEW s \in Slot, Start(s)
  PROVE  \E r : Fresh(r) /\ Begin(s, r)
<1>1. /\ \A r \in LiveRoles : r \in DOMAIN roles /\ r \in Nat /\ roles[r].tenant \in Tenant
      /\ \A t \in Staffed : t \in Tenant /\ \E i \in DOMAIN members : members[i].tenant = t
  <2>1. ASSUME NEW r \in LiveRoles
        PROVE  r \in DOMAIN roles /\ r \in Nat /\ roles[r].tenant \in Tenant
    <3>1. r \in DOMAIN roles BY DEF LiveRoles
    <3>2. r \in Nat /\ roles[r] \in RoleRow BY <3>1, RowsAreRows
    <3> QED BY <3>1, <3>2 DEF RoleRow
  <2> QED BY <2>1 DEF Staffed, OfTenant, Rows
<1> USE DEF Ask, About, Idle, Request, Op, At, Named, Fresh, Knows, RoleKnown, NoMemberYet,
        RoleName
<1>2. CASE AskOnboard(s)
  <2>1. PICK t \in Tenant, u \in User : Begin(s, About("onboard", "verify", t, u))
    BY <1>2 DEF AskOnboard
  <2>2. Fresh(About("onboard", "verify", t, u)) OBVIOUS
  <2> QED BY <2>1, <2>2
<1>3. CASE AskAddUser(s)
  <2>1. PICK t \in Staffed, u \in User, r \in LiveRoles, onboarding \in BOOLEAN :
          Begin(s, [About("addUser", "user", t, u) EXCEPT !.role = r, !.flag = onboarding])
    BY <1>3 DEF AskAddUser
  <2> DEFINE q == [About("addUser", "user", t, u) EXCEPT !.role = r, !.flag = onboarding]
  <2>2. Fresh(q) BY <1>1
  <2>3. Begin(s, q) BY <2>1
  <2> HIDE DEF q
  <2> QED BY <2>2, <2>3
<1>4. CASE AskCreateAgent(s)
  <2>1. PICK t \in Staffed, u \in User : Begin(s, About("createAgent", "user", t, u))
    BY <1>4 DEF AskCreateAgent
  <2>2. Fresh(About("createAgent", "user", t, u)) BY <1>1
  <2> QED BY <2>1, <2>2
<1>5. CASE AskDeleteUser(s)
  <2>1. PICK t \in Staffed, u \in User : Begin(s, About("deleteUser", "member", t, u))
    BY <1>5 DEF AskDeleteUser
  <2>2. Fresh(About("deleteUser", "member", t, u)) BY <1>1
  <2> QED BY <2>1, <2>2
<1>6. CASE AskAssignStore(s)
  <2>1. PICK t \in Staffed, u \in User, st \in Store :
          Begin(s, [About("assignStore", "store", t, u) EXCEPT !.store = st])
    BY <1>6 DEF AskAssignStore
  <2>2. Fresh([About("assignStore", "store", t, u) EXCEPT !.store = st]) BY <1>1
  <2> QED BY <2>1, <2>2
<1>7. CASE AskUnassign(s)
  <2>1. PICK t \in Staffed, u \in User : Begin(s, About("unassign", "member", t, u))
    BY <1>7 DEF AskUnassign
  <2>2. Fresh(About("unassign", "member", t, u)) BY <1>1
  <2> QED BY <2>1, <2>2
<1>8. CASE AskCreateRole(s)
  <2>1. PICK t \in Staffed, n \in RoleName, onboarding \in BOOLEAN :
          Begin(s, [Ask("createRole", "role", t) EXCEPT !.name = n, !.flag = onboarding])
    BY <1>8 DEF AskCreateRole
  <2>2. Fresh([Ask("createRole", "role", t) EXCEPT !.name = n, !.flag = onboarding]) BY <1>1
  <2> QED BY <2>1, <2>2
<1>9. CASE AskUpdateRole(s)
  <2>1. PICK r \in LiveRoles :
          \/ Begin(s, [Ask("updateRole", "write", Old) EXCEPT !.role = r])
          \/ \E n \in RoleName :
               Begin(s, [Ask("updateRole", "role", Old) EXCEPT
                           !.role = r, !.name = n, !.flag = TRUE])
    BY <1>9 DEF AskUpdateRole
  <2> DEFINE kept == [Ask("updateRole", "write", Old) EXCEPT !.role = r]
             given(n) == [Ask("updateRole", "role", Old) EXCEPT
                            !.role = r, !.name = n, !.flag = TRUE]
  <2>2. Fresh(kept) BY <1>1 DEF Tenant
  <2>3. ASSUME NEW n \in RoleName PROVE Fresh(given(n)) BY <1>1 DEF Tenant
  <2>4. Begin(s, kept) \/ \E n \in RoleName : Begin(s, given(n)) BY <2>1
  <2> HIDE DEF kept, given, Fresh
  <2> QED BY <2>2, <2>3, <2>4
<1>10. CASE AskRemoveRole(s)
  <2>1. PICK r \in LiveRoles : Begin(s, [Ask("removeRole", "write", Old) EXCEPT !.role = r])
    BY <1>10 DEF AskRemoveRole
  <2>2. Fresh([Ask("removeRole", "write", Old) EXCEPT !.role = r]) BY <1>1 DEF Tenant
  <2> QED BY <2>1, <2>2
<1>11. CASE AskAssignRole(s)
  <2>1. PICK t \in Staffed, u \in User, r \in LiveRoles :
          Begin(s, [About("assignRole", "role", t, u) EXCEPT !.role = r])
    BY <1>11 DEF AskAssignRole
  <2>2. Fresh([About("assignRole", "role", t, u) EXCEPT !.role = r]) BY <1>1
  <2> QED BY <2>1, <2>2
<1>12. CASE RunMigration(s)
  <2>1. Begin(s, Ask("migration", "member", Old)) BY <1>12 DEF RunMigration
  <2>2. Fresh(Ask("migration", "member", Old)) BY DEF Tenant
  <2> QED BY <2>1, <2>2
<1> QED BY <1>2, <1>3, <1>4, <1>5, <1>6, <1>7, <1>8, <1>9, <1>10, <1>11, <1>12 DEF Start

-----------------------------------------------------------------------------
(* Steps that only read *)

\* The request of slot s at step a.
Moved(s, a) == [req[s] EXCEPT !.at = a]

LEMMA MovedIs ==
  ASSUME TypeInv, NEW s \in Slot, NEW a \in At
  PROVE  LET r == Moved(s, a)
         IN  /\ r \in Request /\ r.at = a /\ r.op = req[s].op /\ r.tenant = req[s].tenant
             /\ r.user = req[s].user /\ r.role = req[s].role /\ r.store = req[s].store
             /\ r.rows = req[s].rows /\ r.made = req[s].made /\ r.flag = req[s].flag
BY TypeFacts DEF Moved, Request

\* r is what the request of slot s may be after a read.
Learns(s, r) ==
  /\ r \in Request /\ Named(r) /\ ~r.made /\ r.op \in {"idle", req[s].op}
  /\ Knows(req[s]) => Knows(r)

Reads(s) ==
  \/ OnboardVerify(s) \/ OnboardRole(s) \/ OnboardStore(s) \/ OnboardUser(s) \/ AddUserFind(s)
  \/ AddUserRole(s) \/ CreateAgentFind(s) \/ CreateRoleFind(s) \/ UpdateRoleFind(s)
  \/ AssignRoleFind(s) \/ AssignRoleUser(s) \/ AssignRoleMember(s) \/ MemberStep(s)
  \/ AssignStoreFind(s) \/ MigrationRead(s) \/ MigrationEnd(s)

LEMMA LearnsNothing ==
  ASSUME First \in User, NEW s \in Slot
  PROVE  Learns(s, Idle)
BY IdleIs DEF Learns

\* A step to where a request names and knows nothing new.
LEMMA LearnsOn ==
  ASSUME TypeInv, NEW s \in Slot, NEW a \in At, ~req[s].made,
         Named(req[s]) => Named(Moved(s, a)), Knows(req[s]) => Knows(Moved(s, a))
  PROVE  Learns(s, Moved(s, a))
BY MovedIs, TypeFacts DEF Learns

LEMMA OnboardReads ==
  ASSUME First \in User, TypeInv, NEW s \in Slot,
         OnboardVerify(s) \/ OnboardRole(s) \/ OnboardStore(s) \/ OnboardUser(s)
  PROVE  /\ UNCHANGED <<tables, cut>> /\ ~req[s].made
         /\ \E r : Becomes(s, r) /\ Learns(s, r)
<1>1. req[s] \in Request /\ Named(req[s]) BY TypeFacts
<1>2. CASE Refuse(s)
  <2>1. Becomes(s, Idle) /\ UNCHANGED <<tables, cut>>
    BY <1>2 DEF Refuse, Finish, Put, Set, Becomes
  <2>2. ~req[s].made
    BY <1>1 DEF Named, OnboardVerify, OnboardRole, OnboardStore, OnboardUser, Running
  <2> QED BY <2>1, <2>2, LearnsNothing
<1> USE DEF Running, Go, Goto, Put, Set, Becomes
<1>3. CASE OnboardVerify(s) /\ ~Refuse(s)
  <2>1. /\ req[s].op = "onboard" /\ req[s].at = "verify" /\ UNCHANGED <<tables, cut>>
        /\ Becomes(s, Moved(s, "status"))
    BY <1>3 DEF OnboardVerify, Moved
  <2>2. "status" \in At BY DEF At
  <2>3. ~req[s].made BY <1>1, <2>1 DEF Named
  <2>4. Learns(s, Moved(s, "status"))
    BY <2>1, <2>2, <2>3, LearnsOn, MovedIs DEF Named, Knows, RoleKnown, NoMemberYet
  <2> QED BY <2>1, <2>3, <2>4
<1>4. CASE OnboardRole(s) /\ ~Refuse(s)
  <2>1. PICK o \in AdminRoles(req[s].tenant) :
          /\ Running(s, "onboard", "role") /\ UNCHANGED <<tables, cut>>
          /\ Becomes(s, [req[s] EXCEPT !.at = "store", !.role = o])
    BY <1>4 DEF OnboardRole
  <2>2. o \in LiveRoles /\ o \in Nat BY RowsAreRows DEF AdminRoles, LiveRoles
  <2>3. ~req[s].made BY <1>1, <2>1 DEF Named
  <2> DEFINE r == [req[s] EXCEPT !.at = "store", !.role = o]
  <2>4. /\ r \in Request /\ r.op = "onboard" /\ r.at = "store" /\ r.role = o /\ ~r.made
        /\ r.op = req[s].op
    BY <1>1, <2>1, <2>2, <2>3 DEF Request, At
  <2> HIDE DEF r
  <2>5. Learns(s, r) BY <2>2, <2>4 DEF Learns, Named, Knows, RoleKnown, NoMemberYet
  <2> QED BY <2>1, <2>3, <2>5 DEF r
<1>5. CASE OnboardStore(s) /\ ~Refuse(s)
  <2>1. /\ Running(s, "onboard", "store") /\ UNCHANGED <<tables, cut>>
        /\ Becomes(s, [req[s] EXCEPT !.at = "user", !.store = Main(req[s].tenant)])
    BY <1>5 DEF OnboardStore
  <2>2. ~req[s].made BY <1>1, <2>1 DEF Named
  <2> DEFINE r == [req[s] EXCEPT !.at = "user", !.store = Main(req[s].tenant)]
  <2>3. Main(req[s].tenant) \in Store BY <1>1 DEF Main, Store, Request
  <2>4. /\ r \in Request /\ r.op = "onboard" /\ r.at = "user" /\ r.role = req[s].role /\ ~r.made
        /\ r.op = req[s].op /\ r.store = Main(r.tenant)
    BY <1>1, <2>1, <2>2, <2>3 DEF Request, At
  <2> HIDE DEF r
  <2>5. Learns(s, r) BY <2>1, <2>4 DEF Learns, Named, Knows, RoleKnown, NoMemberYet
  <2> QED BY <2>1, <2>2, <2>5 DEF r
<1>6. CASE OnboardUser(s) /\ ~Refuse(s)
  <2>1. PICK a \in {"create", "link"} :
          /\ Running(s, "onboard", "user") /\ UNCHANGED <<tables, cut>>
          /\ Becomes(s, Moved(s, a)) /\ MembersOf(req[s].user, req[s].tenant) = {}
    BY <1>6 DEF OnboardUser, Moved
  <2>2. a \in At BY DEF At
  <2>3. ~req[s].made BY <1>1, <2>1 DEF Named
  <2>4. Learns(s, Moved(s, a))
    BY <2>1, <2>2, <2>3, LearnsOn, MovedIs DEF Named, Knows, RoleKnown, NoMemberYet
  <2> QED BY <2>1, <2>3, <2>4
<1> QED BY <1>2, <1>3, <1>4, <1>5, <1>6

LEMMA LookupReads ==
  ASSUME First \in User, TypeInv, NEW s \in Slot,
         \/ AddUserFind(s) \/ AddUserRole(s) \/ CreateAgentFind(s) \/ CreateRoleFind(s)
         \/ UpdateRoleFind(s) \/ AssignRoleFind(s) \/ AssignRoleUser(s) \/ AssignStoreFind(s)
  PROVE  /\ UNCHANGED <<tables, cut>> /\ ~req[s].made
         /\ \E r : Becomes(s, r) /\ Learns(s, r)
<1>1. req[s] \in Request /\ Named(req[s]) BY TypeFacts
<1> USE DEF Running, Go, Goto, Put, Set, Becomes
<1>2. CASE Refuse(s)
  <2>1. Becomes(s, Idle) /\ UNCHANGED <<tables, cut>> BY <1>2 DEF Refuse, Finish
  <2>2. ~req[s].made
    BY <1>1 DEF Named, AddUserFind, AddUserRole, CreateAgentFind, CreateRoleFind,
       UpdateRoleFind, AssignRoleFind, AssignRoleUser, AssignStoreFind
  <2> QED BY <2>1, <2>2, LearnsNothing
<1>3. ASSUME NEW op, NEW from, NEW a \in At, Running(s, op, from), from \notin {"link", "agent"},
             UNCHANGED tables, Go(s, a),
             Named(req[s]) => Named(Moved(s, a)), Knows(req[s]) => Knows(Moved(s, a))
      PROVE  /\ UNCHANGED <<tables, cut>> /\ ~req[s].made
             /\ \E r : Becomes(s, r) /\ Learns(s, r)
  <2>1. ~req[s].made BY <1>1, <1>3 DEF Named
  <2>2. Becomes(s, Moved(s, a)) /\ UNCHANGED <<tables, cut>> BY <1>3 DEF Moved
  <2> QED BY <1>3, <2>1, <2>2, LearnsOn
<1>4. "role" \in At /\ "create" \in At /\ "write" \in At /\ "user" \in At /\ "member" \in At
  BY DEF At
<1> DEFINE Q == /\ UNCHANGED <<tables, cut>> /\ ~req[s].made
                /\ \E r : Becomes(s, r) /\ Learns(s, r)
<1> HIDE DEF Q
<1>5. CASE AddUserFind(s) /\ ~Refuse(s)
  <2>1. Running(s, "addUser", "user") /\ Go(s, "role") /\ UNCHANGED tables
    BY <1>5 DEF AddUserFind
  <2>2. /\ Named(req[s]) => Named(Moved(s, "role"))
        /\ Knows(req[s]) => Knows(Moved(s, "role"))
    BY <1>4, <2>1, MovedIs DEF Named, Knows, RoleKnown, NoMemberYet
  <2> QED BY <1>3, <1>4, <2>1, <2>2 DEF Q
<1>6. CASE AddUserRole(s) /\ ~Refuse(s)
  <2>1. /\ Running(s, "addUser", "role") /\ Go(s, "create") /\ UNCHANGED tables
        /\ req[s].role \in LiveRoles
    BY <1>6 DEF AddUserRole
  <2>2. /\ Named(req[s]) => Named(Moved(s, "create"))
        /\ Knows(req[s]) => Knows(Moved(s, "create"))
    BY <1>4, <2>1, MovedIs DEF Named, Knows, RoleKnown, NoMemberYet
  <2> QED BY <1>3, <1>4, <2>1, <2>2 DEF Q
<1>7. CASE CreateAgentFind(s) /\ ~Refuse(s)
  <2>1. Running(s, "createAgent", "user") /\ Go(s, "create") /\ UNCHANGED tables
    BY <1>7 DEF CreateAgentFind
  <2>2. /\ Named(req[s]) => Named(Moved(s, "create"))
        /\ Knows(req[s]) => Knows(Moved(s, "create"))
    BY <1>4, <2>1, MovedIs DEF Named, Knows, RoleKnown, NoMemberYet
  <2> QED BY <1>3, <1>4, <2>1, <2>2 DEF Q
<1>8. CASE (CreateRoleFind(s) \/ UpdateRoleFind(s)) /\ ~Refuse(s)
  <2>1. /\ req[s].op \in {"createRole", "updateRole"} /\ req[s].at = "role"
        /\ Go(s, "write") /\ UNCHANGED tables
    BY <1>8 DEF CreateRoleFind, UpdateRoleFind
  <2>2. /\ Named(req[s]) => Named(Moved(s, "write"))
        /\ Knows(req[s]) => Knows(Moved(s, "write"))
    BY <1>4, <2>1, MovedIs DEF Named, Knows, RoleKnown, NoMemberYet
  <2> QED BY <1>3, <1>4, <2>1, <2>2 DEF Q
<1>9. CASE AssignRoleFind(s) /\ ~Refuse(s)
  <2>1. /\ Running(s, "assignRole", "role") /\ Go(s, "user") /\ UNCHANGED tables
        /\ req[s].role \in LiveRoles
    BY <1>9 DEF AssignRoleFind
  <2>2. /\ Named(req[s]) => Named(Moved(s, "user"))
        /\ Knows(req[s]) => Knows(Moved(s, "user"))
    BY <1>4, <2>1, MovedIs DEF Named, Knows, RoleKnown, NoMemberYet
  <2> QED BY <1>3, <1>4, <2>1, <2>2 DEF Q
<1>10. CASE AssignRoleUser(s) /\ ~Refuse(s)
  <2>1. Running(s, "assignRole", "user") /\ Go(s, "member") /\ UNCHANGED tables
    BY <1>10 DEF AssignRoleUser
  <2>2. /\ Named(req[s]) => Named(Moved(s, "member"))
        /\ Knows(req[s]) => Knows(Moved(s, "member"))
    BY <1>4, <2>1, MovedIs DEF Named, Knows, RoleKnown, NoMemberYet
  <2> QED BY <1>3, <1>4, <2>1, <2>2 DEF Q
<1>11. CASE AssignStoreFind(s) /\ ~Refuse(s)
  <2>1. /\ Running(s, "assignStore", "store") /\ Go(s, "member") /\ UNCHANGED tables
        /\ req[s].store[1] = req[s].tenant
    BY <1>11 DEF AssignStoreFind
  <2>2. /\ Named(req[s]) => Named(Moved(s, "member"))
        /\ Knows(req[s]) => Knows(Moved(s, "member"))
    BY <1>4, <2>1, MovedIs DEF Named, Knows, RoleKnown, NoMemberYet
  <2> QED BY <1>3, <1>4, <2>1, <2>2 DEF Q
<1> QED BY <1>2, <1>5, <1>6, <1>7, <1>8, <1>9, <1>10, <1>11 DEF Q

LEMMA MemberReads ==
  ASSUME First \in User, TypeInv, NEW s \in Slot, AssignRoleMember(s) \/ MemberStep(s)
  PROVE  /\ UNCHANGED <<tables, cut>> /\ ~req[s].made
         /\ \E r : Becomes(s, r) /\ Learns(s, r)
<1>1. req[s] \in Request /\ Named(req[s]) BY TypeFacts
<1>2. /\ UNCHANGED tables /\ req[s].at = "member"
      /\ req[s].op \in {"assignRole", "deleteUser", "assignStore", "unassign"}
  BY DEF AssignRoleMember, MemberStep, FindMember
<1>3. ~req[s].made BY <1>1, <1>2 DEF Named
<1> USE DEF Go, Goto, Put, Set, Becomes
<1>4. CASE Finish(s)
  <2>1. Becomes(s, Idle) /\ UNCHANGED cut BY <1>4 DEF Finish
  <2> QED BY <1>2, <1>3, <2>1, LearnsNothing
<1>5. CASE /\ req[s].op = "assignRole" /\ MembersOf(req[s].user, req[s].tenant) = {}
           /\ Go(s, "join")
  <2>1. "join" \in At BY DEF At
  <2>2. Learns(s, Moved(s, "join"))
    BY <1>2, <1>3, <1>5, <2>1, LearnsOn, MovedIs DEF Named, Knows, RoleKnown, NoMemberYet
  <2>3. Becomes(s, Moved(s, "join")) /\ UNCHANGED cut BY <1>5 DEF Moved
  <2> QED BY <1>2, <1>3, <2>2, <2>3
<1>6. ASSUME NEW i \in MembersOf(req[s].user, req[s].tenant),
             NEW a \in {"assign", "write"}, req[s].op = "assignRole" <=> a = "assign",
             Put(s, [req[s] EXCEPT !.at = a, !.rows = {i}])
      PROVE  UNCHANGED cut /\ \E r : Becomes(s, r) /\ Learns(s, r)
  <2>1. /\ i \in DOMAIN members /\ i \in Nat
        /\ members[i].user = req[s].user /\ members[i].tenant = req[s].tenant
    BY RowsAreRows DEF MembersOf, OfTenant, Rows
  <2> DEFINE r == [req[s] EXCEPT !.at = a, !.rows = {i}]
  <2>2. /\ r \in Request /\ r.op = req[s].op /\ r.at = a /\ r.rows = {i} /\ r.role = req[s].role
        /\ r.store = req[s].store /\ r.user = req[s].user /\ r.tenant = req[s].tenant /\ ~r.made
    BY <1>1, <1>3, <2>1 DEF Request, At
  <2>3. Becomes(s, r) /\ UNCHANGED cut BY <1>6
  <2> HIDE DEF r
  <2>4. Named(r) BY <1>1, <1>2, <1>6, <2>1, <2>2 DEF Named
  <2>5. Knows(req[s]) => Knows(r) BY <1>2, <1>6, <2>2 DEF Knows, RoleKnown, NoMemberYet
  <2>6. Learns(s, r) BY <2>2, <2>4, <2>5 DEF Learns
  <2> QED BY <2>3, <2>6
<1>7. CASE AssignRoleMember(s)
  <2>1. \/ MembersOf(req[s].user, req[s].tenant) = {} /\ Go(s, "join")
        \/ \E i \in MembersOf(req[s].user, req[s].tenant) :
             Put(s, [req[s] EXCEPT !.at = "assign", !.rows = {i}])
    BY <1>7 DEF AssignRoleMember, FindMember
  <2>2. req[s].op = "assignRole" BY <1>7 DEF AssignRoleMember
  <2> QED BY <1>2, <1>3, <1>5, <1>6, <2>1, <2>2
<1>8. CASE MemberStep(s)
  <2>1. \/ Finish(s)
        \/ \E i \in MembersOf(req[s].user, req[s].tenant) :
             Put(s, [req[s] EXCEPT !.at = "write", !.rows = {i}])
    BY <1>8 DEF MemberStep, FindMember
  <2>2. req[s].op # "assignRole" BY <1>8 DEF MemberStep
  <2> QED BY <1>2, <1>3, <1>4, <1>6, <2>1, <2>2
<1> QED BY <1>7, <1>8

LEMMA MigrationReads ==
  ASSUME First \in User, TypeInv, NEW s \in Slot, MigrationRead(s) \/ MigrationEnd(s)
  PROVE  /\ UNCHANGED <<tables, cut>> /\ ~req[s].made
         /\ \E r : Becomes(s, r) /\ Learns(s, r)
<1>1. req[s] \in Request /\ Named(req[s]) BY TypeFacts
<1>2. req[s].op = "migration" /\ req[s].at \in {"member", "assign"} /\ UNCHANGED tables
  BY DEF MigrationRead, MigrationEnd, Refuse, Running
<1>3. ~req[s].made BY <1>1, <1>2 DEF Named
<1>4. CASE MigrationEnd(s)
  <2>1. Becomes(s, Idle) /\ UNCHANGED cut
    BY <1>4 DEF MigrationEnd, Refuse, Finish, Put, Set, Becomes
  <2> QED BY <1>2, <1>3, <2>1, LearnsNothing
<1>5. CASE MigrationRead(s)
  <2> DEFINE none == IF NullMatchesUnset THEN {Unset, Null} ELSE {Null}
             found == {i \in Rows : members[i].store \in none}
             I == IF NullMatchesUnset THEN found ELSE {}
             r == [req[s] EXCEPT !.at = "assign", !.rows = I]
  <2>1. Becomes(s, r) /\ UNCHANGED cut BY <1>5 DEF MigrationRead, Put, Set, Becomes
  <2>2. \A i \in Rows : i \in Nat /\ members[i].store \in Store \cup {Unset, Null}
    BY RowsAreRows DEF Rows, MemberRow
  <2>3. I \in SUBSET Nat BY <2>2
  <2>4. NullMatchesUnset => \A i \in Rows : members[i].store \in Store \/ i \in I BY <2>2
  <2> HIDE DEF I
  <2>5. /\ r \in Request /\ r.op = "migration" /\ r.at = "assign" /\ r.rows = I /\ ~r.made
        /\ r.op = req[s].op
    BY <1>1, <1>2, <1>3, <2>3 DEF Request, At
  <2> HIDE DEF r
  <2>6. Learns(s, r) BY <2>4, <2>5 DEF Learns, Named, Knows, RoleKnown, NoMemberYet
  <2> QED BY <1>2, <1>3, <2>1, <2>6
<1> QED BY <1>4, <1>5

LEMMA ReadsDo ==
  ASSUME First \in User, TypeInv, NEW s \in Slot, Reads(s)
  PROVE  /\ UNCHANGED <<tables, cut>> /\ ~req[s].made
         /\ \E r : Becomes(s, r) /\ Learns(s, r)
BY OnboardReads, LookupReads, MemberReads, MigrationReads DEF Reads

-----------------------------------------------------------------------------
(* What the steps write *)

\* A membership is added, unless the user is gone.
Linked(u, t, o, st) ==
  /\ members' \in Seq(MemberRow)
  /\ \/ users[u] = "none" /\ UNCHANGED members
     \/ LET k == Len(members) + 1
        IN  /\ users[u] # "none"
            /\ k \notin DOMAIN members /\ DOMAIN members' = DOMAIN members \cup {k}
            /\ \A j \in DOMAIN members : members'[j] = members[j]
            /\ members'[k] = [user |-> u, tenant |-> t, role |-> o, store |-> st, live |-> TRUE]

LEMMA NewMemberDoes ==
  ASSUME TypeInv, NEW u \in User, NEW t \in Tenant, NEW o \in Nat,
         NEW st \in Store \cup {Unset, Null}, NewMember(u, t, o, st)
  PROVE  Linked(u, t, o, st)
<1>1. CASE users[u] = "none" BY <1>1, TypeFacts DEF NewMember, Linked, TablesOK
<1>2. CASE users[u] # "none"
  <2> DEFINE row == [user |-> u, tenant |-> t, role |-> o, store |-> st, live |-> TRUE]
  <2>1. row \in MemberRow BY DEF MemberRow
  <2>2. members' = Append(members, row) BY <1>2 DEF NewMember
  <2>3. members \in Seq(MemberRow) BY TypeFacts DEF TablesOK
  <2> HIDE DEF row
  <2>4. /\ members' \in Seq(MemberRow) /\ DOMAIN members' = 1..(Len(members) + 1)
        /\ \A j \in 1..Len(members) : members'[j] = members[j]
        /\ members'[Len(members) + 1] = row
    BY <2>1, <2>2, <2>3, AppendProperties
  <2>5. Len(members) \in Nat /\ DOMAIN members = 1..Len(members) BY RowsAreRows
  <2> QED BY <1>2, <2>4, <2>5 DEF Linked, row
<1> QED BY <1>1, <1>2

\* A membership is written; its user and its tenant stay.
Rewritten(i, row) ==
  /\ i \in Rows /\ row.user = members[i].user /\ row.tenant = members[i].tenant
  /\ members' \in Seq(MemberRow) /\ DOMAIN members' = DOMAIN members /\ members'[i] = row
  /\ \A j \in DOMAIN members \ {i} : members'[j] = members[j]

LEMMA RewriteDoes ==
  ASSUME TypeInv, NEW i \in Rows, NEW row \in MemberRow, members' = [members EXCEPT ![i] = row],
         row.user = members[i].user, row.tenant = members[i].tenant
  PROVE  Rewritten(i, row)
<1>1. i \in DOMAIN members /\ members \in Seq(MemberRow) BY TypeFacts DEF Rows, TablesOK
<1> QED BY <1>1, ExceptSeq DEF Rewritten

\* A role is added, ...
LEMMA RoleAdded ==
  ASSUME TypeInv, NEW row \in RoleRow, roles' = Append(roles, row)
  PROVE  /\ roles' \in Seq(RoleRow) /\ DOMAIN roles \subseteq DOMAIN roles'
         /\ \A o \in DOMAIN roles : roles'[o] = roles[o]
<1>1. roles \in Seq(RoleRow) BY TypeFacts DEF TablesOK
<1>2. /\ roles' \in Seq(RoleRow) /\ DOMAIN roles' = 1..(Len(roles) + 1)
      /\ \A o \in 1..Len(roles) : roles'[o] = roles[o]
  BY <1>1, AppendProperties
<1>3. Len(roles) \in Nat /\ DOMAIN roles = 1..Len(roles) BY RowsAreRows
<1> QED BY <1>2, <1>3

\* ... or one is written.
RoleWrites(s) == UpdateRole(s) \/ StripRole(s) \/ DeleteRole(s)

LEMMA RoleWritesDo ==
  ASSUME TypeInv, NEW s \in Slot, RoleWrites(s), ~Refuse(s)
  PROVE  LET o == req[s].role
         IN  /\ o \in DOMAIN roles /\ req[s].op \in {"updateRole", "removeRole"}
             /\ roles' \in Seq(RoleRow) /\ DOMAIN roles' = DOMAIN roles
             /\ \A p \in DOMAIN roles \ {o} : roles'[p] = roles[p]
             /\ roles'[o].tenant = roles[o].tenant
             /\ roles[o].live => roles'[o].live \/ ~InUse(o)
             /\ UNCHANGED <<users, members, agents, status, session, cut>>
             /\ Finish(s) \/ (req[s].op = "removeRole" /\ Go(s, "delete"))
             /\ ~req[s].made
<1> DEFINE o == req[s].role
<1>1. req[s] \in Request /\ Named(req[s]) /\ roles \in Seq(RoleRow)
  BY TypeFacts DEF TablesOK
<1>2. /\ req[s].op \in {"updateRole", "removeRole"} /\ req[s].at \in {"write", "delete"}
      /\ UNCHANGED <<users, members, agents, status, session>>
      /\ Finish(s) \/ (req[s].op = "removeRole" /\ Go(s, "delete"))
  BY DEF RoleWrites, UpdateRole, StripRole, DeleteRole, Running
<1>3. o \in DOMAIN roles /\ ~req[s].made BY <1>1, <1>2 DEF Named
<1>4. UNCHANGED cut BY <1>2 DEF Finish, Go, Put
<1>5. roles[o] \in RoleRow /\ req[s].name \in RoleName BY <1>1, <1>3, RowsAreRows DEF Request
<1>6. PICK row \in RoleRow :
        /\ roles' = [roles EXCEPT ![o] = row] /\ row.tenant = roles[o].tenant
        /\ roles[o].live => row.live \/ ~InUse(o)
  <2>1. CASE UpdateRole(s)
    <3>1. PICK full \in BOOLEAN :
            roles' = [roles EXCEPT ![o].name = IF req[s].flag THEN req[s].name ELSE @,
                                   ![o].full = full]
      BY <2>1 DEF UpdateRole
    <3> DEFINE row == [roles[o] EXCEPT !.name = IF req[s].flag THEN req[s].name ELSE @,
                                       !.full = full]
    <3>2. row \in RoleRow /\ row.tenant = roles[o].tenant /\ row.live = roles[o].live
      BY <1>5 DEF RoleRow
    <3>3. roles' = [roles EXCEPT ![o] = row] BY <1>3, <1>5, <3>1 DEF RoleRow
    <3> QED BY <3>2, <3>3
  <2>2. CASE StripRole(s)
    <3> DEFINE row == [roles[o] EXCEPT !.full = FALSE]
    <3>1. row \in RoleRow /\ row.tenant = roles[o].tenant /\ row.live = roles[o].live
      BY <1>5 DEF RoleRow
    <3>2. roles' = [roles EXCEPT ![o] = row] BY <1>3, <2>2 DEF StripRole
    <3> QED BY <3>1, <3>2
  <2>3. CASE DeleteRole(s)
    <3> DEFINE row == [roles[o] EXCEPT !.live = FALSE]
    <3>1. row \in RoleRow /\ row.tenant = roles[o].tenant BY <1>5 DEF RoleRow
    <3>2. roles' = [roles EXCEPT ![o] = row] /\ ~InUse(o) BY <1>3, <2>3 DEF DeleteRole
    <3> QED BY <3>1, <3>2
  <2> QED BY <2>1, <2>2, <2>3 DEF RoleWrites
<1>7. /\ roles' \in Seq(RoleRow) /\ DOMAIN roles' = DOMAIN roles /\ roles'[o] = row
      /\ \A p \in DOMAIN roles \ {o} : roles'[p] = roles[p]
  BY <1>1, <1>3, <1>6, ExceptSeq
<1> QED BY <1>2, <1>3, <1>4, <1>6, <1>7

\* A request that goes on without knowing anything, or ends.
Ignorant(r) == ~RoleKnown(r) /\ ~NoMemberYet(r) /\ ~(r.op = "migration" /\ r.at = "assign")
Goes(s, r) ==
  /\ Becomes(s, r) /\ r \in Request /\ Named(r) /\ ~r.made /\ r.op \in {"idle", req[s].op}
  /\ Ignorant(r)

LEMMA GoesIdle ==
  ASSUME First \in User, NEW s \in Slot, Finish(s)
  PROVE  Goes(s, Idle) /\ UNCHANGED cut
<1>1. Becomes(s, Idle) /\ UNCHANGED cut BY DEF Finish, Put, Set, Becomes
<1> QED BY <1>1, IdleIs DEF Goes, Ignorant, RoleKnown, NoMemberYet

LEMMA GoesOn ==
  ASSUME TypeInv, NEW s \in Slot, NEW a \in At, Go(s, a), ~req[s].made,
         Named(req[s]) => Named(Moved(s, a)), Ignorant(Moved(s, a))
  PROVE  Goes(s, Moved(s, a)) /\ UNCHANGED cut
<1>1. Becomes(s, Moved(s, a)) /\ UNCHANGED cut BY DEF Go, Goto, Set, Becomes, Moved
<1> QED BY <1>1, MovedIs, TypeFacts DEF Goes

\* The steps that add a membership.
Links(s) == OnboardLink(s) \/ AddUserLink(s) \/ AssignRoleJoin(s)

LEMMA LinksDo ==
  ASSUME First \in User, TypeInv, NEW s \in Slot, Links(s)
  PROVE  /\ RoleKnown(req[s]) /\ NoMemberYet(req[s])
         /\ UNCHANGED <<users, roles, agents, status, session, cut>>
         /\ \E r : Goes(s, r)
         /\ \E st \in {Unset, Main(req[s].tenant)} :
              Linked(req[s].user, req[s].tenant, req[s].role, st)
<1>1. req[s] \in Request /\ Named(req[s]) BY TypeFacts
<1>2. /\ RoleKnown(req[s]) /\ NoMemberYet(req[s])
      /\ UNCHANGED <<users, roles, agents, status, session>>
  BY DEF Links, OnboardLink, AddUserLink, AssignRoleJoin, Running, RoleKnown, NoMemberYet
<1>3. /\ req[s].user \in User /\ req[s].tenant \in Tenant /\ req[s].role \in Nat
      /\ Main(req[s].tenant) \in Store
  BY <1>1 DEF Request, Main, Store
<1>4. CASE OnboardLink(s)
  <2>1. Goes(s, Idle) /\ UNCHANGED cut BY <1>4, GoesIdle DEF OnboardLink
  <2>2. req[s].store = Main(req[s].tenant) BY <1>1, <1>4 DEF OnboardLink, Running, Named
  <2>3. Linked(req[s].user, req[s].tenant, req[s].role, Main(req[s].tenant))
    BY <1>3, <1>4, <2>2, NewMemberDoes DEF OnboardLink
  <2> QED BY <1>2, <2>1, <2>3
<1>5. CASE AssignRoleJoin(s)
  <2>1. Goes(s, Idle) /\ UNCHANGED cut BY <1>5, GoesIdle DEF AssignRoleJoin
  <2>2. Linked(req[s].user, req[s].tenant, req[s].role, Unset)
    BY <1>3, <1>5, NewMemberDoes DEF AssignRoleJoin
  <2> QED BY <1>2, <2>1, <2>2
<1>6. CASE AddUserLink(s)
  <2> DEFINE r == [req[s] EXCEPT !.at = "token", !.made = FALSE]
  <2>1. Becomes(s, r) /\ UNCHANGED cut BY <1>6 DEF AddUserLink, Put, Set, Becomes
  <2>2. r \in Request /\ r.op = "addUser" /\ r.at = "token" /\ ~r.made /\ r.op = req[s].op
    BY <1>1, <1>6 DEF AddUserLink, Running, Request, At
  <2> HIDE DEF r
  <2>3. Goes(s, r) BY <2>1, <2>2 DEF Goes, Named, Ignorant, RoleKnown, NoMemberYet
  <2>4. Linked(req[s].user, req[s].tenant, req[s].role, Unset)
    BY <1>3, <1>6, NewMemberDoes DEF AddUserLink
  <2> QED BY <1>2, <2>1, <2>3, <2>4
<1> QED BY <1>4, <1>5, <1>6 DEF Links

\* The steps that write the membership that was found.
Writes(s) == AssignRoleUpdate(s) \/ AssignUserToStore(s) \/ UnassignUserFromStore(s)

LEMMA WritesDo ==
  ASSUME First \in User, TypeInv, RowsAreOwn, NEW s \in Slot, Writes(s), ~Refuse(s)
  PROVE  /\ UNCHANGED <<users, roles, agents, status, session, cut>> /\ ~req[s].made
         /\ Goes(s, Idle)
         /\ \E i, row :
              /\ Rewritten(i, row) /\ row.live
              /\ row.store \in Store => row.store[1] = row.tenant
              /\ row.role = members[i].role \/ (RoleKnown(req[s]) /\ row.role = req[s].role)
<1>1. req[s] \in Request /\ Named(req[s]) BY TypeFacts
<1> DEFINE i == Found(s)
           row == IF AssignRoleUpdate(s) THEN [members[i] EXCEPT !.role = req[s].role]
                  ELSE IF AssignUserToStore(s) THEN [members[i] EXCEPT !.store = req[s].store]
                  ELSE [members[i] EXCEPT !.store = Null]
<1>2. /\ i \in Rows /\ Finish(s) /\ UNCHANGED <<users, roles, agents, status, session>>
      /\ members' = [members EXCEPT ![i] = row] /\ req[s].at \in {"assign", "write"}
  BY DEF Writes, AssignRoleUpdate, AssignUserToStore, UnassignUserFromStore, WriteMember, Running
<1>3. Goes(s, Idle) /\ UNCHANGED cut /\ ~req[s].made BY <1>1, <1>2, GoesIdle DEF Named
<1>4. members[i] \in MemberRow /\ members[i].live BY <1>2, RowsAreRows DEF Rows
<1>5. req[s].role \in Nat /\ req[s].store \in Store \cup {Unset, Null} BY <1>1 DEF Request
<1>6. /\ row \in MemberRow /\ row.user = members[i].user /\ row.tenant = members[i].tenant
      /\ row.live
  BY <1>4, <1>5 DEF MemberRow
<1>7. row.role = members[i].role \/ (RoleKnown(req[s]) /\ row.role = req[s].role)
  BY <1>4, <1>5 DEF MemberRow, AssignRoleUpdate, Running, RoleKnown
<1>8. row.store \in Store => row.store[1] = row.tenant
  <2>1. members[i].store \in Store => members[i].store[1] = members[i].tenant
    BY <1>2 DEF RowsAreOwn, Rows
  <2>2. AssignUserToStore(s) =>
          req[s].store[1] = req[s].tenant /\ req[s].tenant = members[i].tenant
    <3> SUFFICES ASSUME AssignUserToStore(s)
                 PROVE  req[s].store[1] = req[s].tenant /\ req[s].tenant = members[i].tenant
      OBVIOUS
    <3>1. Running(s, "assignStore", "write") BY DEF AssignUserToStore
    <3>2. req[s].store[1] = req[s].tenant BY <1>1, <3>1 DEF Named, Running
    <3>3. PICK k \in DOMAIN members : req[s].rows = {k} /\ members[k].tenant = req[s].tenant
      BY <1>1, <3>1 DEF Named, Running
    <3>4. i = k BY <3>3 DEF Found
    <3> QED BY <3>2, <3>3, <3>4
  <2>3. Null \notin Store BY DEF Null, Store, Tenant
  <2> QED BY <1>4, <1>5, <2>1, <2>2, <2>3 DEF MemberRow
<1> HIDE DEF row
<1>9. Rewritten(i, row) BY <1>2, <1>6, RewriteDoes
<1> QED BY <1>2, <1>3, <1>6, <1>7, <1>8, <1>9

\* The membership that goes.
LEMMA DeleteDoes ==
  ASSUME First \in User, TypeInv, NEW s \in Slot, DeleteUser(s), ~Refuse(s)
  PROVE  /\ UNCHANGED <<users, roles, agents, status, session>> /\ ~req[s].made
         /\ Goes(s, Idle) /\ cut \subseteq cut' /\ cut' \subseteq User
         /\ \E i, row :
              /\ Rewritten(i, row) /\ ~row.live /\ row.store = members[i].store
              /\ \/ members[i].user \in cut'
                 \/ \E j \in Rows \ {i} : members[j].user = members[i].user
<1>1. req[s] \in Request /\ Named(req[s]) /\ cut \subseteq User BY TypeFacts DEF TablesOK
<1> DEFINE i == Found(s)
           row == [members[i] EXCEPT !.live = FALSE]
<1>2. /\ i \in Rows /\ UNCHANGED <<users, roles, agents, status, session>>
      /\ members' = [members EXCEPT ![i].live = FALSE] /\ Running(s, "deleteUser", "write")
      /\ req' = [req EXCEPT ![s] = Idle] /\ UNCHANGED <<started, overlap>>
      /\ cut' = IF {j \in Rows \ {i} : members[j].user = req[s].user} = {}
                THEN cut \cup {req[s].user} ELSE cut
  BY DEF DeleteUser
<1>3. Becomes(s, Idle) BY <1>2 DEF Becomes
<1>4. Goes(s, Idle) BY <1>3, IdleIs DEF Goes, Ignorant, RoleKnown, NoMemberYet
<1>5. ~req[s].made BY <1>1, <1>2 DEF Named, Running
<1>6. req[s].user \in User /\ cut \subseteq cut' /\ cut' \subseteq User
  BY <1>1, <1>2 DEF Request
<1>7. members[i].user = req[s].user
  <2>1. PICK k \in DOMAIN members : req[s].rows = {k} /\ members[k].user = req[s].user
    BY <1>1, <1>2 DEF Named, Running
  <2>2. i = k BY <2>1 DEF Found
  <2> QED BY <2>1, <2>2
<1>8. members[i] \in MemberRow BY <1>2, RowsAreRows DEF Rows
<1>9. /\ row \in MemberRow /\ row.user = members[i].user /\ row.tenant = members[i].tenant
      /\ ~row.live /\ row.store = members[i].store
  BY <1>8 DEF MemberRow
<1>10. members' = [members EXCEPT ![i] = row] BY <1>2
<1>11. \/ members[i].user \in cut'
       \/ \E j \in Rows \ {i} : members[j].user = members[i].user
  BY <1>2, <1>7
<1> HIDE DEF row
<1>12. Rewritten(i, row) BY <1>2, <1>9, <1>10, RewriteDoes
<1> QED BY <1>2, <1>4, <1>5, <1>6, <1>9, <1>11, <1>12

\* A row that the migration has written, or logged as failed.
LEMMA AssignDoes ==
  ASSUME TypeInv, NEW s \in Slot, MigrationAssign(s)
  PROVE  /\ UNCHANGED <<users, roles, agents, status, session, cut>> /\ ~req[s].made
         /\ req[s].op = "migration" /\ req[s].at = "assign"
         /\ \E r, i :
              /\ Becomes(s, r) /\ r \in Request /\ Named(r) /\ ~r.made /\ r.op = "migration"
              /\ r.at = "assign" /\ r.rows = req[s].rows \ {i} /\ req[s].failed \subseteq r.failed
              /\ \/ i \in r.failed /\ UNCHANGED members
                 \/ \E row : /\ Rewritten(i, row) /\ row.live /\ row.role = members[i].role
                             /\ row.store = Main(row.tenant) /\ row.store \in Store
<1>1. req[s] \in Request /\ Named(req[s]) BY TypeFacts
<1>2. PICK i \in req[s].rows :
        /\ Running(s, "migration", "assign")
        /\ \/ /\ i \in Rows
              /\ members' = [members EXCEPT ![i].store = Main(members[i].tenant)]
              /\ Put(s, [req[s] EXCEPT !.rows = @ \ {i}])
           \/ /\ UNCHANGED members
              /\ Put(s, [req[s] EXCEPT !.rows = @ \ {i}, !.failed = @ \cup {i}])
        /\ UNCHANGED <<users, roles, agents, status, session>>
  BY DEF MigrationAssign
<1>3. ~req[s].made /\ i \in Nat BY <1>1, <1>2 DEF Named, Running, Request
<1>4. CASE UNCHANGED members /\ Put(s, [req[s] EXCEPT !.rows = @ \ {i}, !.failed = @ \cup {i}])
  <2> DEFINE r == [req[s] EXCEPT !.rows = @ \ {i}, !.failed = @ \cup {i}]
  <2>1. Becomes(s, r) /\ UNCHANGED cut BY <1>4 DEF Put, Set, Becomes
  <2>2. /\ r \in Request /\ ~r.made /\ r.op = "migration" /\ r.at = "assign"
        /\ r.rows = req[s].rows \ {i} /\ req[s].failed \subseteq r.failed /\ i \in r.failed
    BY <1>1, <1>2, <1>3 DEF Request, Running
  <2> HIDE DEF r
  <2>3. Named(r) BY <2>2 DEF Named
  <2> QED BY <1>2, <1>3, <1>4, <2>1, <2>2, <2>3 DEF Running
<1>5. CASE /\ i \in Rows
           /\ members' = [members EXCEPT ![i].store = Main(members[i].tenant)]
           /\ Put(s, [req[s] EXCEPT !.rows = @ \ {i}])
  <2> DEFINE r == [req[s] EXCEPT !.rows = @ \ {i}]
             row == [members[i] EXCEPT !.store = Main(members[i].tenant)]
  <2>1. Becomes(s, r) /\ UNCHANGED cut BY <1>5 DEF Put, Set, Becomes
  <2>2. /\ r \in Request /\ ~r.made /\ r.op = "migration" /\ r.at = "assign"
        /\ r.rows = req[s].rows \ {i} /\ req[s].failed \subseteq r.failed
    BY <1>1, <1>2, <1>3 DEF Request, Running
  <2> HIDE DEF r
  <2>3. Named(r) BY <2>2 DEF Named
  <2>4. members[i] \in MemberRow /\ members[i].live BY <1>5, RowsAreRows DEF Rows
  <2>5. Main(members[i].tenant) \in Store BY <2>4 DEF MemberRow, Main, Store
  <2>6. /\ row \in MemberRow /\ row.user = members[i].user /\ row.tenant = members[i].tenant
        /\ row.live /\ row.role = members[i].role /\ row.store = Main(row.tenant)
        /\ row.store \in Store
    BY <2>4, <2>5 DEF MemberRow
  <2>7. members' = [members EXCEPT ![i] = row] BY <1>5
  <2> HIDE DEF row
  <2>8. Rewritten(i, row) BY <1>5, <2>6, <2>7, RewriteDoes
  <2> QED BY <1>2, <1>3, <2>1, <2>2, <2>3, <2>6, <2>8 DEF Running
<1> QED BY <1>2, <1>4, <1>5

\* The user that is made before it is linked.
Inserts(s) == OnboardCreate(s) \/ AddUserCreate(s) \/ CreateAgentUser(s)

LEMMA InsertsDo ==
  ASSUME TypeInv, NEW s \in Slot, Inserts(s), ~Refuse(s)
  PROVE  /\ UNCHANGED <<members, roles, agents, status, session, cut>> /\ ~req[s].made
         /\ users[req[s].user] = "none" /\ users' \in [User -> UserStatus]
         /\ \A v \in User \ {req[s].user} : users'[v] = users[v]
         /\ \A v \in User : users[v] # "none" => users'[v] # "none"
         /\ req[s].op # "idle"
         /\ \E r :
              /\ Becomes(s, r) /\ r \in Request /\ Named(r) /\ r.made /\ r.op = req[s].op
              /\ r.user = req[s].user /\ r.tenant = req[s].tenant /\ r.role = req[s].role
              /\ (RoleKnown(r) => RoleKnown(req[s])) /\ r.op # "migration"
<1>1. req[s] \in Request /\ Named(req[s]) /\ users \in [User -> UserStatus]
  BY TypeFacts DEF TablesOK
<1>2. PICK a \in {"link", "agent"}, initially \in {"active", "inactive"} :
        /\ InsertUser(s, initially, a) /\ req[s].at = "create"
        /\ req[s].op \in {"onboard", "addUser", "createAgent"}
        /\ a = "link" => req[s].op \in {"onboard", "addUser"}
  BY DEF Inserts, OnboardCreate, AddUserCreate, CreateAgentUser, Running
<1>3. req[s].user \in User BY <1>1 DEF Request
<1>4. /\ users[req[s].user] = "none" /\ users' = [users EXCEPT ![req[s].user] = initially]
      /\ Put(s, [req[s] EXCEPT !.at = a, !.made = TRUE])
      /\ UNCHANGED <<members, roles, agents, status, session>>
  BY <1>2 DEF InsertUser
<1>5. ~req[s].made BY <1>1, <1>2 DEF Named
<1>6. /\ users' \in [User -> UserStatus]
      /\ \A v \in User \ {req[s].user} : users'[v] = users[v]
      /\ \A v \in User : users[v] # "none" => users'[v] # "none"
  BY <1>1, <1>3, <1>4 DEF UserStatus
<1> DEFINE r == [req[s] EXCEPT !.at = a, !.made = TRUE]
<1>7. Becomes(s, r) /\ UNCHANGED cut BY <1>4 DEF Put, Set, Becomes
<1>8. /\ r \in Request /\ r.made /\ r.op = req[s].op /\ r.at = a /\ r.user = req[s].user
      /\ r.tenant = req[s].tenant /\ r.role = req[s].role /\ r.store = req[s].store
  BY <1>1, <1>2 DEF Request, At
<1> HIDE DEF r
<1>9. Named(r) BY <1>1, <1>2, <1>8 DEF Named
<1>10. RoleKnown(r) => RoleKnown(req[s]) BY <1>2, <1>8 DEF RoleKnown
<1> QED BY <1>2, <1>4, <1>5, <1>6, <1>7, <1>8, <1>9, <1>10

\* Steps that leave users and memberships as they are.
Notes(s) ==
  OnboardStatus(s) \/ AddUserEnd(s) \/ CreateRole(s) \/ CreateRoleStatus(s) \/ RoleWrites(s)

LEMMA NotesDo ==
  ASSUME First \in User, TypeInv, NEW s \in Slot, Notes(s), ~Refuse(s)
  PROVE  /\ UNCHANGED <<users, members, agents, session, cut>> /\ ~req[s].made
         /\ status' \in [Tenant -> Status] /\ roles' \in Seq(RoleRow)
         /\ DOMAIN roles \subseteq DOMAIN roles'
         /\ \A o \in DOMAIN roles :
              /\ roles'[o].tenant = roles[o].tenant
              /\ roles[o].live => roles'[o].live \/ ~InUse(o)
         /\ req[s].op # "idle" /\ \E r : Goes(s, r)
<1>1. req[s] \in Request /\ Named(req[s]) BY TypeFacts
<1>2. /\ status \in [Tenant -> Status] /\ roles \in Seq(RoleRow) BY TypeFacts DEF TablesOK
<1>3. {"role", "mail", "status", "delete"} \subseteq At BY DEF At
<1>4. CASE OnboardStatus(s) \/ AddUserEnd(s)
  <2>1. PICK a \in {"role", "mail"} :
          /\ Go(s, a) /\ req[s].at \in {"status", "token"}
          /\ req[s].op \in {"onboard", "addUser"}
          /\ req[s].op = "onboard" <=> a = "role"
    BY <1>4 DEF OnboardStatus, AddUserEnd, Running
  <2>2. UNCHANGED <<users, members, roles, agents, session>> BY <1>4 DEF OnboardStatus, AddUserEnd
  <2>3. status' \in [Tenant -> Status] BY <1>2, <1>4 DEF OnboardStatus, AddUserEnd, Status
  <2>4. ~req[s].made BY <1>1, <2>1 DEF Named
  <2>5. Named(req[s]) => Named(Moved(s, a)) BY <1>3, <2>1, <2>4, MovedIs DEF Named
  <2>6. Ignorant(Moved(s, a)) BY <1>3, <2>1, MovedIs DEF Ignorant, RoleKnown, NoMemberYet
  <2>7. Goes(s, Moved(s, a)) /\ UNCHANGED cut BY <1>3, <2>1, <2>4, <2>5, <2>6, GoesOn
  <2> QED BY <1>2, <2>1, <2>2, <2>3, <2>4, <2>7
<1>5. CASE CreateRoleStatus(s)
  <2>1. Goes(s, Idle) /\ UNCHANGED cut BY <1>5, GoesIdle DEF CreateRoleStatus
  <2>2. /\ Running(s, "createRole", "status")
        /\ UNCHANGED <<users, members, roles, agents, session>>
    BY <1>5 DEF CreateRoleStatus
  <2>3. status' \in [Tenant -> Status] BY <1>2, <1>5 DEF CreateRoleStatus, Status
  <2>4. ~req[s].made BY <1>1, <2>2 DEF Named, Running
  <2> QED BY <1>2, <2>1, <2>2, <2>3, <2>4 DEF Running
<1>6. CASE CreateRole(s)
  <2>0. PICK full \in BOOLEAN :
          roles' = Append(roles, [tenant |-> req[s].tenant, name |-> req[s].name,
                                  full |-> full, live |-> TRUE])
    BY <1>6 DEF CreateRole
  <2> DEFINE row == [tenant |-> req[s].tenant, name |-> req[s].name, full |-> full, live |-> TRUE]
  <2>1. /\ Running(s, "createRole", "write") /\ roles' = Append(roles, row)
        /\ Go(s, "status") \/ Finish(s)
        /\ UNCHANGED <<users, members, agents, status, session>>
    BY <1>6, <2>0 DEF CreateRole
  <2>2. ~req[s].made BY <1>1, <2>1 DEF Named, Running
  <2>3. row \in RoleRow BY <1>1 DEF RoleRow, Request
  <2> HIDE DEF row
  <2>4. /\ roles' \in Seq(RoleRow) /\ DOMAIN roles \subseteq DOMAIN roles'
        /\ \A o \in DOMAIN roles : roles'[o] = roles[o]
    BY <2>1, <2>3, RoleAdded
  <2>5. UNCHANGED cut /\ \E r : Goes(s, r)
    <3>1. CASE Finish(s) BY <3>1, GoesIdle
    <3>2. CASE Go(s, "status")
      <4>1. /\ Named(req[s]) => Named(Moved(s, "status"))
            /\ Ignorant(Moved(s, "status"))
        BY <1>3, <2>1, <2>2, MovedIs DEF Named, Running, Ignorant, RoleKnown, NoMemberYet
      <4> QED BY <1>3, <2>2, <3>2, <4>1, GoesOn
    <3> QED BY <2>1, <3>1, <3>2
  <2> QED BY <1>2, <2>1, <2>2, <2>4, <2>5 DEF Running
<1>7. CASE RoleWrites(s)
  <2> DEFINE o == req[s].role
  <2>1. /\ o \in DOMAIN roles /\ req[s].op \in {"updateRole", "removeRole"}
        /\ roles' \in Seq(RoleRow) /\ DOMAIN roles' = DOMAIN roles
        /\ \A p \in DOMAIN roles \ {o} : roles'[p] = roles[p]
        /\ roles'[o].tenant = roles[o].tenant
        /\ roles[o].live => roles'[o].live \/ ~InUse(o)
        /\ UNCHANGED <<users, members, agents, status, session, cut>>
        /\ Finish(s) \/ (req[s].op = "removeRole" /\ Go(s, "delete"))
        /\ ~req[s].made
    BY <1>7, RoleWritesDo
  <2>2. \E r : Goes(s, r)
    <3>1. CASE Finish(s) BY <3>1, GoesIdle
    <3>2. CASE req[s].op = "removeRole" /\ Go(s, "delete")
      <4>1. /\ Named(req[s]) => Named(Moved(s, "delete"))
            /\ Ignorant(Moved(s, "delete"))
        BY <1>3, <2>1, <3>2, MovedIs DEF Named, Ignorant, RoleKnown, NoMemberYet
      <4> QED BY <1>3, <2>1, <3>2, <4>1, GoesOn
    <3> QED BY <2>1, <3>1, <3>2
  <2> HIDE DEF o
  <2> QED BY <1>2, <2>1, <2>2
<1> QED BY <1>4, <1>5, <1>6, <1>7 DEF Notes

-----------------------------------------------------------------------------
(* What holds whatever overlaps *)

\* Both ways to write memberships forget none of them.
LEMMA LinkedGrows ==
  ASSUME NEW u, NEW t, NEW o, NEW st, Linked(u, t, o, st), UNCHANGED roles
  PROVE  Grow
BY DEF Linked, Grow

LEMMA RewrittenGrows ==
  ASSUME NEW i, NEW row, Rewritten(i, row), UNCHANGED roles
  PROVE  Grow
<1>1. i \in DOMAIN members BY DEF Rewritten, Rows
<1> QED BY <1>1 DEF Rewritten, Grow

\* A step strands nobody that neither a failure nor deleteUser did.
LEMMA StrandedKept ==
  ASSUME TypeInv, StrandedByFailure, NEW s \in Slot, NEW r, req' = [req EXCEPT ![s] = r],
         agents \subseteq agents', cut \subseteq cut',
         \A u \in User : users'[u] # "none" => users[u] # "none" \/ (r.made /\ r.user = u),
         \A i \in Rows : (\E j \in Rows' : members'[j].user = members[i].user)
                         \/ members[i].user \in cut',
         req[s].made => \/ r.made /\ r.user = req[s].user
                        \/ users'[req[s].user] = "none"
                        \/ \E j \in Rows' : members'[j].user = req[s].user
                        \/ req[s].user \in agents' \cup cut'
  PROVE  StrandedByFailure'
<1> SUFFICES ASSUME NEW u \in User, users'[u] # "none"
             PROVE  \/ \E i \in Rows' : members'[i].user = u
                    \/ u \in agents' \cup cut'
                    \/ \E o \in Slot : req'[o].made /\ req'[o].user = u
  BY DEF StrandedByFailure
<1>1. req'[s] = r /\ \A o \in Slot \ {s} : req'[o] = req[o] BY TypeFacts
<1>2. CASE r.made /\ r.user = u BY <1>1, <1>2
<1>3. CASE users[u] # "none"
  <2>1. \/ \E i \in Rows : members[i].user = u
        \/ u \in agents \cup cut
        \/ \E o \in Slot : req[o].made /\ req[o].user = u
    BY <1>3 DEF StrandedByFailure
  <2>2. CASE \E o \in Slot : req[o].made /\ req[o].user = u
    <3>1. PICK o \in Slot : req[o].made /\ req[o].user = u BY <2>2
    <3>2. CASE o = s BY <1>1, <3>1, <3>2
    <3>3. CASE o # s BY <1>1, <3>1, <3>3
    <3> QED BY <3>2, <3>3
  <2> QED BY <2>1, <2>2
<1> QED BY <1>2, <1>3

\* A step that leaves users and memberships alone strands nobody.
LEMMA StrandedStill ==
  ASSUME TypeInv, StrandedByFailure, NEW s \in Slot, NEW r, req' = [req EXCEPT ![s] = r],
         ~req[s].made, UNCHANGED <<users, members, agents, cut>>
  PROVE  StrandedByFailure'
<1>1. /\ Rows' = Rows /\ members' = members /\ users' = users /\ agents' = agents
      /\ cut' = cut
  BY DEF Rows
<1>2. \A i \in Rows : \E j \in Rows' : members'[j].user = members[i].user BY <1>1
<1> QED BY <1>1, <1>2, StrandedKept

LEMMA MemberLinks ==
  ASSUME First \in User, MemberInv, NEW s \in Slot, Links(s)
  PROVE  MemberInv'
<1>1. /\ TypeInv /\ RowsAreOwn /\ SessionsAreOwn /\ NobodyIsNoMember /\ StrandedByFailure
  BY DEF MemberInv
<1>2. PICK r : Goes(s, r) BY <1>1, LinksDo
<1>3. PICK st \in {Unset, Main(req[s].tenant)} :
        Linked(req[s].user, req[s].tenant, req[s].role, st)
  BY <1>1, LinksDo
<1>4. UNCHANGED <<users, roles, agents, status, session, cut>> BY <1>1, LinksDo
<1>5. /\ req' = [req EXCEPT ![s] = r] /\ UNCHANGED <<started, overlap>>
      /\ r \in Request /\ Named(r) /\ ~r.made
  BY <1>2 DEF Goes, Becomes
<1>6. TablesOK' BY <1>1, <1>3, <1>4, TypeFacts DEF TablesOK, Linked
<1>7. Grow BY <1>3, <1>4, LinkedGrows
<1>8. TypeInv' BY <1>1, <1>5, <1>6, <1>7, Served, TypeFacts
<1>10. SessionsAreOwn' BY <1>1, <1>4 DEF SessionsAreOwn
<1>11. CASE users[req[s].user] = "none"
  <2>1. UNCHANGED members BY <1>3, <1>11 DEF Linked
  <2>2. Rows' = Rows BY <2>1 DEF Rows
  <2>3. RowsAreOwn' /\ NobodyIsNoMember'
    BY <1>1, <1>4, <2>1, <2>2 DEF RowsAreOwn, NobodyIsNoMember
  <2>4. StrandedByFailure' BY <1>1, <1>4, <1>5, <1>11, <2>1, <2>2, StrandedKept
  <2> QED BY <1>8, <1>10, <2>3, <2>4 DEF MemberInv
<1>12. CASE users[req[s].user] # "none"
  <2> DEFINE k == Len(members) + 1
  <2>1. /\ k \notin DOMAIN members /\ DOMAIN members' = DOMAIN members \cup {k}
        /\ \A j \in DOMAIN members : members'[j] = members[j]
        /\ members'[k] = [user |-> req[s].user, tenant |-> req[s].tenant, role |-> req[s].role,
                          store |-> st, live |-> TRUE]
    BY <1>3, <1>12 DEF Linked
  <2> HIDE DEF k
  <2>2. Rows' = Rows \cup {k} BY <2>1 DEF Rows
  <2>3. \A i \in Rows : members'[i] = members[i] BY <2>1 DEF Rows
  <2>4. NobodyIsNoMember' BY <1>1, <1>4, <1>12, <2>1, <2>2, <2>3 DEF NobodyIsNoMember
  <2>5. st \in Store => st[1] = req[s].tenant BY DEF Unset, Store, Tenant, Main
  <2>6. RowsAreOwn' BY <1>1, <2>1, <2>5 DEF RowsAreOwn
  <2>7. \A i \in Rows : \E j \in Rows' : members'[j].user = members[i].user BY <2>2, <2>3
  <2>8. k \in Rows' /\ members'[k].user = req[s].user BY <2>1, <2>2
  <2>9. agents \subseteq agents' /\ cut \subseteq cut' /\ users' = users BY <1>4
  <2>10. StrandedByFailure' BY <1>1, <1>5, <2>7, <2>8, <2>9, StrandedKept
  <2> QED BY <1>8, <1>10, <2>4, <2>6, <2>10 DEF MemberInv
<1> QED BY <1>11, <1>12

\* A membership that is written keeps a store of its tenant, and its user when
\* it is not the one that goes.
LEMMA MemberRewrites ==
  ASSUME MemberInv, NEW s \in Slot, ~req[s].made, NEW r \in Request, Named(r), Becomes(s, r),
         UNCHANGED <<users, roles, agents, status, session>>,
         cut \subseteq cut', cut' \subseteq User, NEW i, NEW row, Rewritten(i, row),
         row.store \in Store => row.store[1] = row.tenant,
         \/ row.live \/ members[i].user \in cut'
         \/ \E j \in Rows \ {i} : members[j].user = members[i].user
  PROVE  MemberInv'
<1>1. /\ TypeInv /\ RowsAreOwn /\ SessionsAreOwn /\ NobodyIsNoMember /\ StrandedByFailure
  BY DEF MemberInv
<1>2. req' = [req EXCEPT ![s] = r] /\ UNCHANGED <<started, overlap>> BY DEF Becomes
<1>3. /\ i \in Rows /\ i \in DOMAIN members
      /\ row.user = members[i].user /\ row.tenant = members[i].tenant
      /\ DOMAIN members' = DOMAIN members /\ members'[i] = row
      /\ \A j \in DOMAIN members \ {i} : members'[j] = members[j]
  BY DEF Rewritten, Rows
<1>4. TablesOK' BY <1>1, TypeFacts DEF TablesOK, Rewritten
<1>5. Grow BY RewrittenGrows
<1>6. TypeInv' BY <1>1, <1>2, <1>4, <1>5, Served, TypeFacts
<1>8. SessionsAreOwn' BY <1>1 DEF SessionsAreOwn
<1>9. Rows' \subseteq Rows /\ Rows \ {i} \subseteq Rows' /\ (row.live => i \in Rows')
  BY <1>3 DEF Rows
<1>10. \A j \in Rows : members'[j].user = members[j].user BY <1>3 DEF Rows
<1>11. NobodyIsNoMember' BY <1>1, <1>9, <1>10 DEF NobodyIsNoMember
<1>12. RowsAreOwn' BY <1>1, <1>3 DEF RowsAreOwn
<1>13. \A j \in Rows : \/ \E k \in Rows' : members'[k].user = members[j].user
                       \/ members[j].user \in cut'
  BY <1>9, <1>10
<1>14. StrandedByFailure' BY <1>1, <1>2, <1>13, StrandedKept
<1> QED BY <1>6, <1>8, <1>11, <1>12, <1>14 DEF MemberInv

\* A step that writes no table.
LEMMA MemberStill ==
  ASSUME MemberInv, NEW s \in Slot, ~req[s].made, NEW r \in Request, Named(r),
         req' = [req EXCEPT ![s] = r], started' \in Nat, overlap' \in BOOLEAN,
         UNCHANGED <<tables, cut>>
  PROVE  MemberInv'
<1>1. /\ TypeInv /\ RowsAreOwn /\ SessionsAreOwn /\ NobodyIsNoMember /\ StrandedByFailure
  BY DEF MemberInv
<1>2. UNCHANGED <<users, members, roles, agents, status, session, cut>> BY DEF tables
<1>3. Grow BY <1>2 DEF Grow
<1>4. TablesOK' BY <1>1, <1>2, TypeFacts DEF TablesOK
<1>5. TypeInv' BY <1>1, <1>3, <1>4, Served
<1>7. Rows' = Rows BY <1>2 DEF Rows
<1>8. RowsAreOwn' /\ SessionsAreOwn' /\ NobodyIsNoMember'
  BY <1>1, <1>2, <1>7 DEF RowsAreOwn, SessionsAreOwn, NobodyIsNoMember
<1>9. StrandedByFailure' BY <1>1, <1>2, StrandedStill
<1> QED BY <1>5, <1>8, <1>9 DEF MemberInv

LEMMA MemberRefused ==
  ASSUME First \in User, MemberInv, NEW s \in Slot, Refuse(s), req[s].at \notin {"link", "agent"}
  PROVE  MemberInv'
<1>1. TypeInv BY DEF MemberInv
<1>2. ~req[s].made BY <1>1, TypeFacts DEF Named
<1>3. UNCHANGED <<tables, cut>> BY DEF Refuse, Finish, Put
<1>4. req' = [req EXCEPT ![s] = Idle] /\ UNCHANGED <<started, overlap>>
  BY DEF Refuse, Finish, Put, Set
<1> QED BY <1>1, <1>2, <1>3, <1>4, MemberStill, IdleIs, TypeFacts

\* A step that writes roles or statuses.
LEMMA MemberNotes ==
  ASSUME First \in User, MemberInv, NEW s \in Slot, Notes(s), ~Refuse(s)
  PROVE  MemberInv'
<1>1. /\ TypeInv /\ RowsAreOwn /\ SessionsAreOwn /\ NobodyIsNoMember /\ StrandedByFailure
  BY DEF MemberInv
<1>2. /\ UNCHANGED <<users, members, agents, session, cut>> /\ ~req[s].made
      /\ status' \in [Tenant -> Status] /\ roles' \in Seq(RoleRow)
      /\ DOMAIN roles \subseteq DOMAIN roles'
      /\ \A o \in DOMAIN roles :
           roles'[o].tenant = roles[o].tenant
  BY <1>1, NotesDo
<1>3. PICK r : Goes(s, r) BY <1>1, NotesDo
<1>4. /\ req' = [req EXCEPT ![s] = r] /\ UNCHANGED <<started, overlap>>
      /\ r \in Request /\ Named(r)
  BY <1>3 DEF Goes, Becomes
<1>5. Grow BY <1>2 DEF Grow
<1>6. TablesOK' BY <1>1, <1>2, TypeFacts DEF TablesOK
<1>7. TypeInv' BY <1>1, <1>4, <1>5, <1>6, Served, TypeFacts
<1>9. Rows' = Rows BY <1>2 DEF Rows
<1>10. RowsAreOwn' /\ SessionsAreOwn' /\ NobodyIsNoMember'
  BY <1>1, <1>2, <1>9 DEF RowsAreOwn, SessionsAreOwn, NobodyIsNoMember
<1>11. StrandedByFailure' BY <1>1, <1>2, <1>4, StrandedStill
<1> QED BY <1>7, <1>10, <1>11 DEF MemberInv

\* A step that writes users or agents.
LEMMA MemberUsers ==
  ASSUME MemberInv, NEW s \in Slot, NEW r \in Request, Named(r), Becomes(s, r),
         UNCHANGED <<members, roles, status, session>>,
         users' \in [User -> UserStatus], agents \subseteq agents', agents' \subseteq User,
         cut \subseteq cut', cut' \subseteq User,
         \A i \in Rows : users'[members[i].user] # "none",
         \A u \in User : users'[u] # "none" => users[u] # "none" \/ (r.made /\ r.user = u),
         req[s].made => req[s].user \in agents' \cup cut'
  PROVE  MemberInv'
<1>1. /\ TypeInv /\ RowsAreOwn /\ SessionsAreOwn /\ NobodyIsNoMember /\ StrandedByFailure
  BY DEF MemberInv
<1>2. req' = [req EXCEPT ![s] = r] /\ UNCHANGED <<started, overlap>> BY DEF Becomes
<1>3. Grow BY DEF Grow
<1>4. TablesOK' BY <1>1, TypeFacts DEF TablesOK
<1>5. TypeInv' BY <1>1, <1>2, <1>3, <1>4, Served, TypeFacts
<1>7. Rows' = Rows BY DEF Rows
<1>8. RowsAreOwn' /\ SessionsAreOwn' /\ NobodyIsNoMember'
  BY <1>1, <1>7 DEF RowsAreOwn, SessionsAreOwn, NobodyIsNoMember
<1>9. \A i \in Rows : \E j \in Rows' : members'[j].user = members[i].user BY <1>7
<1>10. StrandedByFailure' BY <1>1, <1>2, <1>9, StrandedKept
<1> QED BY <1>5, <1>8, <1>10 DEF MemberInv

LEMMA MemberInserts ==
  ASSUME MemberInv, NEW s \in Slot, Inserts(s), ~Refuse(s)
  PROVE  MemberInv'
<1>1. TypeInv /\ NobodyIsNoMember BY DEF MemberInv
<1>2. /\ UNCHANGED <<members, roles, agents, status, session, cut>> /\ ~req[s].made
      /\ users' \in [User -> UserStatus]
      /\ \A v \in User \ {req[s].user} : users'[v] = users[v]
      /\ \A v \in User : users[v] # "none" => users'[v] # "none"
  BY <1>1, InsertsDo
<1>3. PICK r : Becomes(s, r) /\ r \in Request /\ Named(r) /\ r.made /\ r.user = req[s].user
  BY <1>1, InsertsDo
<1>4. agents \subseteq User /\ cut \subseteq User BY <1>1, TypeFacts DEF TablesOK
<1>5. \A i \in Rows : members[i].user \in User BY <1>1, RowsAreRows DEF Rows, MemberRow
<1>6. \A i \in Rows : users'[members[i].user] # "none" BY <1>1, <1>2, <1>5 DEF NobodyIsNoMember
<1>7. \A u \in User : users'[u] # "none" => users[u] # "none" \/ (r.made /\ r.user = u)
  BY <1>2, <1>3
<1> QED BY <1>2, <1>3, <1>4, <1>6, <1>7, MemberUsers

\* A user is deleted by sendMail, is an agent, or is left by a failure.
LEMMA MemberEnds ==
  ASSUME First \in User, MemberInv, NEW s \in Slot, AddUserMail(s) \/ CreateAgent(s) \/ Fail(s)
  PROVE  MemberInv'
<1>1. TypeInv /\ NobodyIsNoMember BY DEF MemberInv
<1>2. req[s] \in Request /\ Named(req[s]) /\ req[s].user \in User BY <1>1, TypeFacts DEF Request
<1>3. agents \subseteq User /\ cut \subseteq User /\ users \in [User -> UserStatus]
  BY <1>1, TypeFacts DEF TablesOK
<1>4. Becomes(s, Idle) /\ Idle \in Request /\ Named(Idle)
  BY IdleIs DEF AddUserMail, CreateAgent, Fail, Finish, Put, Set, Becomes
<1>5. CASE AddUserMail(s)
  <2>1. /\ UNCHANGED <<members, roles, agents, status, session, cut>>
        /\ Running(s, "addUser", "mail")
        /\ \/ UNCHANGED users
           \/ /\ ~\E i \in Rows : members[i].user = req[s].user
              /\ users' = [users EXCEPT ![req[s].user] = "none"]
    BY <1>5 DEF AddUserMail, Finish, Put
  <2>2. ~req[s].made BY <1>2, <2>1 DEF Named, Running
  <2>3. users' \in [User -> UserStatus] BY <1>3, <2>1 DEF UserStatus
  <2>4. \A u \in User : users'[u] # "none" => users[u] # "none" BY <1>2, <1>3, <2>1
  <2>5. \A i \in Rows : members[i].user \in User BY <1>1, RowsAreRows DEF Rows, MemberRow
  <2>6. \A i \in Rows : users'[members[i].user] # "none"
    BY <1>1, <1>3, <2>1, <2>5 DEF NobodyIsNoMember
  <2> QED BY <1>3, <1>4, <2>1, <2>2, <2>3, <2>4, <2>6, MemberUsers
<1>6. CASE CreateAgent(s)
  <2>1. UNCHANGED <<users, members, roles, status, session, cut>>
    BY <1>6 DEF CreateAgent, Finish, Put
  <2>2. agents' = agents \cup {req[s].user} BY <1>6 DEF CreateAgent
  <2>3. agents' \subseteq User BY <1>2, <1>3, <2>2
  <2> QED BY <1>1, <1>3, <1>4, <2>1, <2>2, <2>3, MemberUsers DEF NobodyIsNoMember
<1>7. CASE Fail(s)
  <2>1. UNCHANGED <<users, members, roles, agents, status, session>> BY <1>7 DEF Fail, tables
  <2>2. cut' = IF req[s].made /\ req[s].at \in {"link", "agent"}
               THEN cut \cup {req[s].user} ELSE cut
    BY <1>7 DEF Fail
  <2>3. req[s].made => req[s].user \in cut' BY <1>2, <2>2 DEF Named
  <2>4. cut \subseteq cut' /\ cut' \subseteq User BY <1>2, <1>3, <2>2
  <2> QED BY <1>1, <1>3, <1>4, <2>1, <2>3, <2>4, MemberUsers DEF NobodyIsNoMember
<1> QED BY <1>5, <1>6, <1>7

\* A login carries the store of a membership.
LEMMA MemberLogins ==
  ASSUME MemberInv, NEW u \in User, Login(u) \/ SelectTenantLogin(u)
  PROVE  MemberInv'
<1>1. /\ TypeInv /\ RowsAreOwn /\ SessionsAreOwn /\ NobodyIsNoMember /\ StrandedByFailure
  BY DEF MemberInv
<1>2. /\ UNCHANGED <<users, members, roles, agents, status, req, started, overlap, cut>>
      /\ \E i \in Rows : Enter(u, i)
  BY DEF Login, SelectTenantLogin, MembersOf, OfTenant
<1>3. PICK i \in Rows : Enter(u, i) BY <1>2
<1>4. i \in DOMAIN members /\ members[i] \in MemberRow BY <1>1, RowsAreRows DEF Rows
<1> DEFINE new == [tenant |-> members[i].tenant, store |-> members[i].store, on |-> TRUE]
           Sessions == [tenant : Tenant, store : Store \cup {Unset, Null}, on : BOOLEAN]
<1>5. session \in [User -> Sessions] BY <1>1, TypeFacts DEF TablesOK
<1>6. session' = [session EXCEPT ![u] = new] BY <1>3 DEF Enter
<1>7. /\ new \in Sessions
      /\ new.store \in Store => new.store[1] = new.tenant
  BY <1>1, <1>4 DEF MemberRow, RowsAreOwn
<1>8. session' \in [User -> Sessions] /\ SessionsAreOwn'
  <2> HIDE DEF new, Sessions
  <2>1. session' \in [User -> Sessions] BY <1>5, <1>6, <1>7
  <2>2. \A v \in User : session'[v] = IF v = u THEN new ELSE session[v] BY <1>5, <1>6
  <2> QED BY <1>1, <1>7, <2>1, <2>2 DEF SessionsAreOwn
<1>9. TypeOK' BY <1>1, <1>2, <1>8 DEF TypeInv, TypeOK, RequestsOK
<1>10. \A s \in Slot : Named(req[s])' BY <1>1, <1>2 DEF TypeInv, Named
<1>11. Rows' = Rows /\ LiveRoles' = LiveRoles BY <1>2 DEF Rows, LiveRoles
<1>12. RowsAreOwn' /\ NobodyIsNoMember' /\ StrandedByFailure'
  BY <1>1, <1>2, <1>11 DEF RowsAreOwn, NobodyIsNoMember, StrandedByFailure
<1> QED BY <1>8, <1>9, <1>10, <1>12 DEF MemberInv, TypeInv

\* A request of slot s does one of these.
LEMMA StepsAre ==
  ASSUME NEW s \in Slot, Start(s) \/ Fail(s) \/ Registering(s) \/ Roles(s) \/ Members(s)
  PROVE  \/ Start(s) \/ Fail(s) \/ Reads(s) \/ Links(s) \/ Writes(s) \/ DeleteUser(s)
         \/ MigrationAssign(s) \/ Inserts(s) \/ Notes(s) \/ AddUserMail(s) \/ CreateAgent(s)
BY DEF Registering, Roles, Members, Reads, Links, Writes, Inserts, Notes, RoleWrites

\* Where the steps that may be refused are.
LEMMA RefusedWhere ==
  ASSUME TypeInv, NEW s \in Slot,
         Reads(s) \/ Writes(s) \/ DeleteUser(s) \/ Inserts(s) \/ Notes(s)
  PROVE  req[s].op # "idle" /\ req[s].at \notin {"link", "agent"}
BY DEF Reads, OnboardVerify, OnboardRole, OnboardStore, OnboardUser, AddUserFind, AddUserRole,
   CreateAgentFind, CreateRoleFind, UpdateRoleFind, AssignRoleFind, AssignRoleUser,
   AssignRoleMember, MemberStep, FindMember, AssignStoreFind, MigrationRead, MigrationEnd, Writes,
   AssignRoleUpdate, AssignUserToStore, UnassignUserFromStore, DeleteUser, Inserts, OnboardCreate,
   AddUserCreate, CreateAgentUser, Notes, OnboardStatus, AddUserEnd, CreateRole,
   CreateRoleStatus, RoleWrites, UpdateRole, StripRole, DeleteRole, Running

LEMMA MemberNext ==
  ASSUME First \in User, MemberInv, [Next]_vars
  PROVE  MemberInv'
<1>1. TypeInv /\ RowsAreOwn BY DEF MemberInv
<1>2. CASE UNCHANGED vars
  <2>1. UNCHANGED <<users, members, roles, agents, status, session, req, started, overlap, cut>>
    BY <1>2 DEF vars, tables
  <2>2. Rows' = Rows /\ LiveRoles' = LiveRoles BY <2>1 DEF Rows, LiveRoles
  <2>3. TypeOK' BY <1>1, <2>1 DEF TypeInv, TypeOK, RequestsOK
  <2>4. \A s \in Slot : Named(req[s])' BY <1>1, <2>1 DEF TypeInv, Named
  <2>5. /\ RowsAreOwn' /\ SessionsAreOwn' /\ NobodyIsNoMember'
        /\ StrandedByFailure'
    BY <2>1, <2>2 DEF MemberInv, RowsAreOwn, SessionsAreOwn, NobodyIsNoMember,
       StrandedByFailure
  <2> QED BY <2>3, <2>4, <2>5 DEF MemberInv, TypeInv
<1>3. ASSUME NEW u \in User, Login(u) \/ SelectTenantLogin(u) PROVE MemberInv'
  BY <1>3, MemberLogins
<1>4. ASSUME NEW s \in Slot, Start(s) PROVE MemberInv'
  <2>1. PICK r : Fresh(r) /\ Begin(s, r) BY <1>1, <1>4, Starts
  <2>2. /\ req' = [req EXCEPT ![s] = r] /\ UNCHANGED <<tables, cut>> /\ req[s].op = "idle"
        /\ started' \in Nat /\ overlap' \in BOOLEAN
    BY <1>1, <2>1, TypeFacts DEF Begin, Accept, Busy
  <2>3. ~req[s].made BY <1>1, <2>2, TypeFacts DEF Named
  <2> QED BY <2>1, <2>2, <2>3, MemberStill DEF Fresh
<1>5. ASSUME NEW s \in Slot, Reads(s) PROVE MemberInv'
  <2>1. PICK r : Becomes(s, r) /\ Learns(s, r) BY <1>1, <1>5, ReadsDo
  <2>2. UNCHANGED <<tables, cut>> /\ ~req[s].made BY <1>1, <1>5, ReadsDo
  <2>3. started' \in Nat /\ overlap' \in BOOLEAN BY <1>1, <2>1, TypeFacts DEF Becomes
  <2> QED BY <2>1, <2>2, <2>3, MemberStill DEF Learns, Becomes
<1>6. ASSUME NEW s \in Slot, Writes(s) \/ DeleteUser(s) \/ MigrationAssign(s), ~Refuse(s)
      PROVE  MemberInv'
  <2>1. cut \subseteq User BY <1>1, TypeFacts DEF TablesOK
  <2>2. CASE Writes(s)
    <3>1. PICK i, row : /\ Rewritten(i, row) /\ row.live
                        /\ row.store \in Store => row.store[1] = row.tenant
      BY <1>1, <1>6, <2>2, WritesDo
    <3>2. /\ UNCHANGED <<users, roles, agents, status, session>> /\ ~req[s].made
          /\ Goes(s, Idle) /\ cut' = cut
      BY <1>1, <1>6, <2>2, WritesDo
    <3> QED BY <2>1, <3>1, <3>2, MemberRewrites DEF Goes
  <2>3. CASE DeleteUser(s)
    <3>1. PICK i, row : /\ Rewritten(i, row) /\ row.store = members[i].store
                        /\ \/ members[i].user \in cut'
                           \/ \E j \in Rows \ {i} : members[j].user = members[i].user
      BY <1>1, <1>6, <2>3, DeleteDoes
    <3>2. /\ UNCHANGED <<users, roles, agents, status, session>> /\ ~req[s].made
          /\ Goes(s, Idle) /\ cut \subseteq cut' /\ cut' \subseteq User
      BY <1>1, <1>6, <2>3, DeleteDoes
    <3>3. row.store \in Store => row.store[1] = row.tenant
      BY <1>1, <3>1 DEF Rewritten, RowsAreOwn, Rows
    <3> QED BY <3>1, <3>2, <3>3, MemberRewrites DEF Goes
  <2>4. CASE MigrationAssign(s)
    <3>1. PICK r, i :
            /\ Becomes(s, r) /\ r \in Request /\ Named(r)
            /\ \/ UNCHANGED members
               \/ \E row : Rewritten(i, row) /\ row.live /\ row.store = Main(row.tenant)
      BY <1>1, <2>4, AssignDoes
    <3>2. UNCHANGED <<users, roles, agents, status, session, cut>> /\ ~req[s].made
      BY <1>1, <2>4, AssignDoes
    <3>3. CASE UNCHANGED members
      <4>1. UNCHANGED <<tables, cut>> BY <3>2, <3>3 DEF tables
      <4> QED BY <1>1, <3>1, <3>2, <4>1, MemberStill, TypeFacts DEF Becomes
    <3>4. CASE \E row : Rewritten(i, row) /\ row.live /\ row.store = Main(row.tenant)
      <4>1. PICK row : Rewritten(i, row) /\ row.live /\ row.store = Main(row.tenant) BY <3>4
      <4>2. row.store[1] = row.tenant BY <4>1 DEF Main
      <4> QED BY <2>1, <3>1, <3>2, <4>1, <4>2, MemberRewrites
    <3> QED BY <3>1, <3>3, <3>4
  <2> QED BY <1>6, <2>2, <2>3, <2>4
<1>7. ASSUME NEW s \in Slot, Start(s) \/ Fail(s) \/ Registering(s) \/ Roles(s) \/ Members(s)
      PROVE  MemberInv'
  <2>1. CASE Refuse(s) /\ (Writes(s) \/ DeleteUser(s) \/ Inserts(s) \/ Notes(s))
    BY <1>1, <2>1, RefusedWhere, MemberRefused
  <2>2. CASE MigrationAssign(s) /\ Refuse(s)
    <3>1. req[s].at = "assign" BY <1>1, <2>2, AssignDoes
    <3> QED BY <2>2, <3>1, MemberRefused
  <2> QED BY <1>4, <1>5, <1>6, <1>7, <2>1, <2>2, StepsAre, MemberLinks, MemberInserts,
             MemberNotes, MemberEnds
<1> QED BY <1>2, <1>3, <1>7 DEF Next

LEMMA MemberInit ==
  ASSUME First \in User, Init
  PROVE  MemberInv
<1>1. /\ First \in User /\ users = [u \in User |-> IF u = First THEN "active" ELSE "none"]
      /\ DOMAIN members = {1} /\ members[1] = [user |-> First, tenant |-> Old, role |-> 1,
                                               store |-> Main(Old), live |-> TRUE]
      /\ \A s \in Slot : req[s] = Idle
  BY DEF Init, InitRequests
<1>2. DOMAIN roles = {1, 2}
      /\ roles[1] = [tenant |-> Old, name |-> "Admin", full |-> TRUE, live |-> TRUE]
      /\ roles[2] = [tenant |-> New, name |-> "Admin", full |-> TRUE, live |-> TRUE]
  BY DEF Init
<1>3. members \in Seq(MemberRow)
  <2> DEFINE row == [user |-> First, tenant |-> Old, role |-> 1, store |-> Main(Old), live |-> TRUE]
  <2>1. row \in MemberRow BY DEF MemberRow, Main, Store, Tenant
  <2>2. members = <<row>> BY DEF Init
  <2> HIDE DEF row
  <2> QED BY <2>1, <2>2
<1>4. roles \in Seq(RoleRow)
  <2> DEFINE a == [tenant |-> Old, name |-> "Admin", full |-> TRUE, live |-> TRUE]
             b == [tenant |-> New, name |-> "Admin", full |-> TRUE, live |-> TRUE]
  <2>1. a \in RoleRow /\ b \in RoleRow BY DEF RoleRow, RoleName, Tenant
  <2>2. roles = <<a, b>> BY DEF Init
  <2> HIDE DEF a, b
  <2> QED BY <2>1, <2>2
<1>5. /\ users \in [User -> UserStatus] /\ agents \subseteq User /\ cut \subseteq User
      /\ status \in [Tenant -> Status]
      /\ session \in [User -> [tenant : Tenant, store : Store \cup {Unset, Null}, on : BOOLEAN]]
  BY <1>1 DEF Init, UserStatus, Status, Tenant, NoSession
<1>6. RequestsOK(Request) BY <1>1, IdleIs DEF Init, InitRequests, RequestsOK
<1>7. TypeInv BY <1>1, <1>3, <1>4, <1>5, <1>6, IdleIs DEF TypeInv, TypeOK
<1>8. Rows = {1} /\ 1 \in LiveRoles /\ 2 \in LiveRoles BY <1>1, <1>2 DEF Rows, LiveRoles
<1>9. RowsAreOwn /\ NobodyIsNoMember /\ StrandedByFailure
  BY <1>1, <1>8 DEF RowsAreOwn, NobodyIsNoMember, StrandedByFailure, Main
<1>11. SessionsAreOwn BY DEF Init, NoSession, SessionsAreOwn, Unset, Store
<1> QED BY <1>7, <1>9, <1>11 DEF MemberInv

-----------------------------------------------------------------------------
(* What holds without an overlap *)

\* What all requests know, and what it is good for.
Settled == (\A s \in Slot : Knows(req[s])) /\ OneRow /\ Readable(Rows)

LEMMA IgnorantKnows ==
  ASSUME NEW r, Ignorant(r)
  PROVE  Knows(r)'
BY DEF Ignorant, Knows, RoleKnown, NoMemberYet

LEMMA KnowsSame ==
  ASSUME NEW r, Knows(r), UNCHANGED <<members, roles>>
  PROVE  Knows(r)'
<1>1. Rows' = Rows /\ LiveRoles' = LiveRoles BY DEF Rows, LiveRoles
<1>2. \A u, t : MembersOf(u, t)' = MembersOf(u, t) BY <1>1 DEF MembersOf, OfTenant
<1> QED BY <1>1, <1>2 DEF Knows, RoleKnown, NoMemberYet

LEMMA KnowsItself ==
  ASSUME NEW o, NEW r, req'[o] = r, Knows(r)'
  PROVE  Knows(req[o])'
BY DEF Knows, RoleKnown, NoMemberYet

\* Memberships that stay as they are stay the only ones, with their roles.
LEMMA RowsStay ==
  ASSUME OneRow, Readable(Rows), UNCHANGED members,
         \A o \in DOMAIN roles : roles[o].live => roles'[o].live \/ ~InUse(o),
         DOMAIN roles \subseteq DOMAIN roles'
  PROVE  OneRow' /\ Readable(Rows)'
<1>1. Rows' = Rows BY DEF Rows
<1>2. OneRow' BY <1>1 DEF OneRow
<1>3. ASSUME NEW i \in Rows PROVE members'[i].role \in LiveRoles'
  <2>1. members[i].role \in LiveRoles BY DEF Readable
  <2>2. InUse(members[i].role) BY DEF InUse
  <2> QED BY <2>1, <2>2 DEF LiveRoles
<1> QED BY <1>1, <1>2, <1>3 DEF Readable

\* A step of the only request there is.
LEMMA AloneStep ==
  ASSUME TypeInv, Alone, NEW s \in Slot, Busy(s), NEW r, Becomes(s, r),
         r.op \in {"idle", req[s].op}, ~overlap => Knows(r)' /\ OneRow' /\ Readable(Rows)'
  PROVE  Alone' /\ (~overlap' => Settled')
<1>1. req'[s] = r /\ \A o \in Slot \ {s} : req'[o] = req[o] BY TypeFacts DEF Becomes
<1>2. \A o \in Slot : Busy(o)' => Busy(o) BY <1>1 DEF Busy
<1>3. Alone' /\ UNCHANGED overlap BY <1>2 DEF Alone, Becomes
<1>4. ASSUME ~overlap, NEW o \in Slot PROVE Knows(req[o])'
  <2>1. CASE o = s BY <1>1, <1>4, <2>1, KnowsItself
  <2>2. CASE o # s
    <3>1. PICK q : q = req[o] OBVIOUS
    <3>2. q.op = "idle" BY <1>4, <2>2, <3>1 DEF Alone, Busy
    <3>3. Knows(q)' BY <3>2, IgnorantKnows DEF Ignorant, RoleKnown, NoMemberYet
    <3> QED BY <1>1, <2>2, <3>1, <3>3, KnowsItself
  <2> QED BY <2>1, <2>2
<1> QED BY <1>3, <1>4 DEF Settled

LEMMA AloneLinks ==
  ASSUME First \in User, AloneInv, NEW s \in Slot, Links(s)
  PROVE  Alone' /\ (~overlap' => Settled')
<1>1. TypeInv /\ Alone BY DEF AloneInv, MemberInv
<1>2. /\ RoleKnown(req[s]) /\ NoMemberYet(req[s]) /\ UNCHANGED roles
  BY <1>1, LinksDo
<1>3. PICK r : Goes(s, r) BY <1>1, LinksDo
<1>4. PICK st : Linked(req[s].user, req[s].tenant, req[s].role, st) BY <1>1, LinksDo
<1>5. Busy(s) BY <1>2 DEF Busy, RoleKnown
<1>6. Knows(r)' BY <1>3, IgnorantKnows DEF Goes
<1>7. ASSUME ~overlap PROVE OneRow' /\ Readable(Rows)'
  <2>1. /\ req[s].role \in LiveRoles /\ MembersOf(req[s].user, req[s].tenant) = {}
        /\ OneRow /\ Readable(Rows)
    BY <1>2, <1>7 DEF AloneInv, Knows
  <2>2. LiveRoles' = LiveRoles BY <1>2 DEF LiveRoles
  <2>3. CASE UNCHANGED members
    <3>1. Rows' = Rows BY <2>3 DEF Rows
    <3> QED BY <2>1, <2>2, <2>3, <3>1 DEF OneRow, Readable
  <2>4. ASSUME NEW k, k \notin DOMAIN members, DOMAIN members' = DOMAIN members \cup {k},
               \A j \in DOMAIN members : members'[j] = members[j],
               members'[k] = [user |-> req[s].user, tenant |-> req[s].tenant,
                              role |-> req[s].role, store |-> st, live |-> TRUE]
        PROVE  OneRow' /\ Readable(Rows)'
    <3>1. Rows' = Rows \cup {k} BY <2>4 DEF Rows
    <3>2. k \notin Rows /\ \A i \in Rows : members'[i] = members[i] BY <2>4 DEF Rows
    <3>3. \A i \in Rows : ~(members[i].user = req[s].user /\ members[i].tenant = req[s].tenant)
      BY <2>1 DEF MembersOf, OfTenant
    <3>4. OneRow' BY <2>1, <2>4, <3>1, <3>2, <3>3 DEF OneRow
    <3>5. Readable(Rows)' BY <2>1, <2>2, <2>4, <3>1, <3>2 DEF Readable
    <3> QED BY <3>4, <3>5
  <2> QED BY <1>4, <2>3, <2>4 DEF Linked
<1> QED BY <1>1, <1>3, <1>5, <1>6, <1>7, AloneStep DEF Goes

\* A membership that is written keeps its user and its tenant.
LEMMA RowsRewritten ==
  ASSUME OneRow, Readable(Rows), UNCHANGED roles, NEW i, NEW row, Rewritten(i, row),
         row.live => row.role \in LiveRoles
  PROVE  OneRow' /\ Readable(Rows)'
<1>1. /\ i \in Rows /\ i \in DOMAIN members /\ row.user = members[i].user
      /\ row.tenant = members[i].tenant
      /\ DOMAIN members' = DOMAIN members /\ members'[i] = row
      /\ \A j \in DOMAIN members \ {i} : members'[j] = members[j]
  BY DEF Rewritten, Rows
<1>2. Rows' \subseteq Rows /\ (i \in Rows' => row.live) BY <1>1 DEF Rows
<1>3. \A j \in Rows : members'[j].user = members[j].user /\ members'[j].tenant = members[j].tenant
  BY <1>1 DEF Rows
<1>4. OneRow' BY <1>2, <1>3 DEF OneRow
<1>5. ASSUME NEW j \in Rows' PROVE members'[j].role \in LiveRoles'
  <2>1. LiveRoles' = LiveRoles /\ j \in Rows BY <1>2 DEF LiveRoles
  <2>2. CASE j = i BY <1>1, <1>2, <2>1, <2>2
  <2>3. CASE j # i BY <1>1, <2>1, <2>3 DEF Readable, Rows
  <2> QED BY <2>2, <2>3
<1> QED BY <1>4, <1>5 DEF Readable

LEMMA AloneWrites ==
  ASSUME First \in User, AloneInv, NEW s \in Slot, Writes(s) \/ DeleteUser(s), ~Refuse(s)
  PROVE  Alone' /\ (~overlap' => Settled')
<1>1. TypeInv /\ Alone /\ RowsAreOwn BY DEF AloneInv, MemberInv
<1>2. Goes(s, Idle) /\ UNCHANGED roles BY <1>1, WritesDo, DeleteDoes
<1>3. Busy(s) BY <1>1, RefusedWhere DEF Busy
<1>4. PICK r : r = Idle OBVIOUS
<1>5. Knows(r)' BY <1>2, <1>4, IgnorantKnows DEF Goes
<1>6. ASSUME ~overlap PROVE OneRow' /\ Readable(Rows)'
  <2>1. OneRow /\ Readable(Rows) /\ (RoleKnown(req[s]) => req[s].role \in LiveRoles)
    BY <1>6 DEF AloneInv, Knows
  <2>2. PICK i, row :
          /\ Rewritten(i, row)
          /\ \/ ~row.live \/ row.role = members[i].role
             \/ RoleKnown(req[s]) /\ row.role = req[s].role
    BY <1>1, WritesDo, DeleteDoes
  <2>3. row.live => row.role \in LiveRoles BY <2>1, <2>2 DEF Rewritten, Readable
  <2> QED BY <1>2, <2>1, <2>2, <2>3, RowsRewritten
<1> QED BY <1>1, <1>2, <1>3, <1>4, <1>5, <1>6, AloneStep DEF Goes

\* The migration has written or logged all but the rows it still has to write.
LEMMA AloneAssigns ==
  ASSUME AloneInv, NEW s \in Slot, MigrationAssign(s)
  PROVE  Alone' /\ (~overlap' => Settled')
<1>1. TypeInv /\ Alone BY DEF AloneInv, MemberInv
<1>2. UNCHANGED roles /\ req[s].op = "migration" /\ req[s].at = "assign" BY <1>1, AssignDoes
<1>3. PICK r, i :
        /\ Becomes(s, r) /\ r.op = "migration" /\ r.at = "assign" /\ r.rows = req[s].rows \ {i}
        /\ req[s].failed \subseteq r.failed
        /\ \/ i \in r.failed /\ UNCHANGED members
           \/ \E row : /\ Rewritten(i, row) /\ row.live /\ row.role = members[i].role
                       /\ row.store \in Store
  BY <1>1, AssignDoes
<1>4. ASSUME ~overlap PROVE Knows(r)' /\ OneRow' /\ Readable(Rows)'
  <2>1. /\ OneRow /\ Readable(Rows)
        /\ NullMatchesUnset =>
             \A j \in Rows : members[j].store \in Store \/ j \in req[s].rows \cup req[s].failed
    BY <1>2, <1>4 DEF AloneInv, Knows
  <2>2. CASE i \in r.failed /\ UNCHANGED members
    <3>1. Rows' = Rows /\ LiveRoles' = LiveRoles BY <1>2, <2>2 DEF Rows, LiveRoles
    <3>2. Knows(r)' BY <1>3, <2>1, <2>2, <3>1 DEF Knows, RoleKnown, NoMemberYet
    <3> QED BY <2>1, <2>2, <3>1, <3>2 DEF OneRow, Readable
  <2>3. ASSUME NEW row, Rewritten(i, row), row.live, row.role = members[i].role,
               row.store \in Store
        PROVE  Knows(r)' /\ OneRow' /\ Readable(Rows)'
    <3>1. row.role \in LiveRoles BY <2>1, <2>3 DEF Rewritten, Readable
    <3>2. OneRow' /\ Readable(Rows)' BY <1>2, <2>1, <2>3, <3>1, RowsRewritten
    <3>3. Rows' \subseteq Rows /\ members'[i] = row /\ \A j \in Rows \ {i} : members'[j] = members[j]
      BY <2>3 DEF Rewritten, Rows
    <3>4. Knows(r)' BY <1>3, <2>1, <2>3, <3>3 DEF Knows, RoleKnown, NoMemberYet
    <3> QED BY <3>2, <3>4
  <2> QED BY <1>3, <2>2, <2>3
<1>5. Busy(s) BY <1>2 DEF Busy
<1> QED BY <1>1, <1>2, <1>3, <1>4, <1>5, AloneStep

\* Who has just been made is no member.
LEMMA AloneInserts ==
  ASSUME AloneInv, NEW s \in Slot, Inserts(s), ~Refuse(s)
  PROVE  Alone' /\ (~overlap' => Settled')
<1>1. TypeInv /\ Alone /\ NobodyIsNoMember BY DEF AloneInv, MemberInv
<1>2. UNCHANGED <<members, roles>> /\ users[req[s].user] = "none" /\ req[s].op # "idle"
  BY <1>1, InsertsDo
<1>3. PICK r :
        /\ Becomes(s, r) /\ r.op = req[s].op /\ r.user = req[s].user /\ r.role = req[s].role
        /\ (RoleKnown(r) => RoleKnown(req[s])) /\ r.op # "migration"
  BY <1>1, InsertsDo
<1>4. ASSUME ~overlap PROVE Knows(r)' /\ OneRow' /\ Readable(Rows)'
  <2>1. /\ OneRow /\ Readable(Rows)
        /\ RoleKnown(req[s]) => req[s].role \in LiveRoles
    BY <1>4 DEF AloneInv, Knows
  <2>2. MembersOf(r.user, r.tenant) = {}
    BY <1>1, <1>2, <1>3 DEF NobodyIsNoMember, MembersOf, OfTenant
  <2>3. Knows(r) BY <1>3, <2>1, <2>2 DEF Knows
  <2>4. Knows(r)' BY <1>2, <2>3, KnowsSame
  <2>5. OneRow' /\ Readable(Rows)' BY <1>2, <2>1, RowsStay
  <2> QED BY <2>4, <2>5
<1>5. Busy(s) BY <1>2 DEF Busy
<1> QED BY <1>1, <1>3, <1>4, <1>5, AloneStep

LEMMA AloneNotes ==
  ASSUME First \in User, AloneInv, NEW s \in Slot, Notes(s), ~Refuse(s)
  PROVE  Alone' /\ (~overlap' => Settled')
<1>1. TypeInv /\ Alone BY DEF AloneInv, MemberInv
<1>2. /\ UNCHANGED members /\ DOMAIN roles \subseteq DOMAIN roles'
      /\ \A o \in DOMAIN roles : roles[o].live => roles'[o].live \/ ~InUse(o)
      /\ req[s].op # "idle"
  BY <1>1, NotesDo
<1>3. PICK r : Goes(s, r) BY <1>1, NotesDo
<1>4. Knows(r)' BY <1>3, IgnorantKnows DEF Goes
<1>5. ~overlap => OneRow' /\ Readable(Rows)' BY <1>2, RowsStay DEF AloneInv
<1>6. Busy(s) BY <1>2 DEF Busy
<1> QED BY <1>1, <1>3, <1>4, <1>5, <1>6, AloneStep DEF Goes

\* A step that leaves memberships and roles alone.
LEMMA AloneStill ==
  ASSUME AloneInv, NEW s \in Slot, NEW r, Becomes(s, r), r.op \in {"idle", req[s].op},
         UNCHANGED <<members, roles>>, Knows(req[s]) => Knows(r)
  PROVE  Alone' /\ (~overlap' => Settled')
<1>1. TypeInv /\ Alone BY DEF AloneInv, MemberInv
<1>2. req'[s] = r /\ \A o \in Slot \ {s} : req'[o] = req[o] BY <1>1, TypeFacts DEF Becomes
<1>3. \A o \in Slot : Busy(o)' => Busy(o) BY <1>2 DEF Busy
<1>4. Alone' /\ UNCHANGED overlap BY <1>1, <1>3 DEF Alone, Becomes
<1>5. ASSUME ~overlap PROVE Settled'
  <2>1. (\A o \in Slot : Knows(req[o])) /\ OneRow /\ Readable(Rows) BY <1>5 DEF AloneInv
  <2>2. OneRow' /\ Readable(Rows)' BY <2>1, RowsStay
  <2>3. ASSUME NEW o \in Slot PROVE Knows(req[o])'
    <3>1. PICK q : q = IF o = s THEN r ELSE req[o] OBVIOUS
    <3>2. req'[o] = q BY <1>2, <3>1
    <3>3. Knows(q) BY <2>1, <3>1
    <3>4. Knows(q)' BY <3>3, KnowsSame
    <3> QED BY <3>2, <3>4, KnowsItself
  <2> QED BY <2>2, <2>3 DEF Settled
<1> QED BY <1>4, <1>5

LEMMA AloneReads ==
  ASSUME First \in User, AloneInv, NEW s \in Slot, Reads(s)
  PROVE  Alone' /\ (~overlap' => Settled')
<1>1. TypeInv BY DEF AloneInv, MemberInv
<1>2. UNCHANGED <<tables, cut>> BY <1>1, ReadsDo
<1>3. PICK r : Becomes(s, r) /\ Learns(s, r) BY <1>1, ReadsDo
<1> QED BY <1>2, <1>3, AloneStill DEF Learns, tables

LEMMA AloneEnds ==
  ASSUME First \in User, AloneInv, NEW s \in Slot,
         Refuse(s) \/ AddUserMail(s) \/ CreateAgent(s) \/ Fail(s)
  PROVE  Alone' /\ (~overlap' => Settled')
<1>1. Becomes(s, Idle) /\ UNCHANGED <<members, roles>>
  BY DEF Refuse, AddUserMail, CreateAgent, Fail, Finish, Put, Set, Becomes, tables
<1> QED BY <1>1, AloneStill, IdleIs

\* A request that arrives while another runs overlaps with it.
LEMMA AloneAccepts ==
  ASSUME AloneInv, NEW s \in Slot, NEW r, Begin(s, r), Knows(r)
  PROVE  Alone' /\ (~overlap' => Settled')
<1>1. TypeInv /\ Alone BY DEF AloneInv, MemberInv
<1>2. req \in [Slot -> Request] /\ overlap \in BOOLEAN BY <1>1, TypeFacts
<1>3. /\ req' = [req EXCEPT ![s] = r] /\ UNCHANGED <<members, roles>>
      /\ overlap' = (overlap \/ \E o \in Slot \ {s} : Busy(o))
  BY DEF Begin, Accept, tables
<1>4. req'[s] = r /\ \A o \in Slot \ {s} : req'[o] = req[o] BY <1>2, <1>3
<1>5. ~overlap' => ~overlap /\ \A o \in Slot \ {s} : ~Busy(o) BY <1>2, <1>3
<1>6. Alone' BY <1>4, <1>5 DEF Alone, Busy
<1>7. ASSUME ~overlap' PROVE Settled'
  <2>1. (\A o \in Slot : Knows(req[o])) /\ OneRow /\ Readable(Rows) BY <1>5, <1>7 DEF AloneInv
  <2>2. OneRow' /\ Readable(Rows)' BY <1>3, <2>1, RowsStay
  <2>3. ASSUME NEW o \in Slot PROVE Knows(req[o])'
    <3>1. PICK q : q = IF o = s THEN r ELSE req[o] OBVIOUS
    <3>2. req'[o] = q BY <1>4, <3>1
    <3>3. Knows(q) BY <2>1, <3>1
    <3>4. Knows(q)' BY <1>3, <3>3, KnowsSame
    <3> QED BY <3>2, <3>4, KnowsItself
  <2> QED BY <2>2, <2>3 DEF Settled
<1> QED BY <1>6, <1>7

LEMMA AloneNext ==
  ASSUME First \in User, AloneInv, [Next]_vars
  PROVE  AloneInv'
<1>1. MemberInv /\ MemberInv' /\ TypeInv /\ Alone /\ (~overlap => Settled)
  BY MemberNext DEF AloneInv, MemberInv, Settled
<1> SUFFICES Alone' /\ (~overlap' => Settled') BY <1>1 DEF AloneInv, Settled
<1>2. CASE UNCHANGED <<members, roles, req, overlap>>
  <2>1. Alone' BY <1>1, <1>2 DEF Alone, Busy
  <2>2. ASSUME ~overlap PROVE Settled'
    <3>1. (\A o \in Slot : Knows(req[o])) /\ OneRow /\ Readable(Rows) BY <1>1, <2>2 DEF Settled
    <3>2. OneRow' /\ Readable(Rows)' BY <1>2, <3>1, RowsStay
    <3>3. ASSUME NEW o \in Slot PROVE Knows(req[o])'
      <4>1. PICK q : q = req[o] OBVIOUS
      <4>2. Knows(q)' BY <1>2, <3>1, <4>1, KnowsSame
      <4> QED BY <1>2, <4>1, <4>2, KnowsItself
    <3> QED BY <3>2, <3>3 DEF Settled
  <2> QED BY <1>2, <2>1, <2>2
<1>3. CASE UNCHANGED vars BY <1>2, <1>3 DEF vars, tables
<1>4. ASSUME NEW u \in User, Login(u) \/ SelectTenantLogin(u)
      PROVE  UNCHANGED <<members, roles, req, overlap>>
  BY <1>4 DEF Login, SelectTenantLogin
<1>5. ASSUME NEW s \in Slot, Start(s) \/ Fail(s) \/ Registering(s) \/ Roles(s) \/ Members(s)
      PROVE  Alone' /\ (~overlap' => Settled')
  <2>1. CASE Start(s)
    <3>1. PICK r : Fresh(r) /\ Begin(s, r) BY <1>1, <2>1, Starts
    <3> QED BY <3>1, AloneAccepts DEF Fresh
  <2>2. CASE Reads(s) BY <2>2, AloneReads
  <2>3. CASE Refuse(s) \/ AddUserMail(s) \/ CreateAgent(s) \/ Fail(s) BY <2>3, AloneEnds
  <2> QED BY <1>5, <2>1, <2>2, <2>3, StepsAre, AloneLinks, AloneWrites,
             AloneAssigns, AloneInserts, AloneNotes
<1> QED BY <1>2, <1>3, <1>4, <1>5 DEF Next

LEMMA AloneInit ==
  ASSUME First \in User, Init
  PROVE  AloneInv
<1>1. MemberInv BY MemberInit
<1>2. /\ \A s \in Slot : req[s] = Idle
      /\ DOMAIN members = {1} /\ members[1].role = 1
      /\ DOMAIN roles = {1, 2} /\ roles[1].live
  BY DEF Init, InitRequests
<1>3. Alone BY <1>2 DEF Alone, Busy, Idle
<1>4. \A s \in Slot : Knows(req[s]) BY <1>2, IdleIs
<1>5. OneRow BY <1>2 DEF OneRow, Rows
<1>6. Readable(Rows) BY <1>2 DEF Readable, Rows, LiveRoles
<1> QED BY <1>1, <1>3, <1>4, <1>5, <1>6 DEF AloneInv

-----------------------------------------------------------------------------
(* What follows *)

LEMMA AtMostOne ==
  ASSUME NEW R, \A i, j \in R : i = j
  PROVE  Cardinality(R) <= 1
<1>1. CASE R = {} BY <1>1, FS_EmptySet
<1>2. CASE R # {}
  <2>1. PICK i \in R : R = {i} BY <1>2
  <2> QED BY <2>1, FS_Singleton
<1> QED BY <1>1, <1>2

LEMMA MeansStoreIsOwn == MemberInv => StoreIsOwn
<1> SUFFICES ASSUME RowsAreOwn, SessionsAreOwn PROVE StoreIsOwn BY DEF MemberInv
<1>1. ASSUME NEW u \in User, NEW t \in Tenant, NEW st \in GetUserDefaultStore(u, t)
      PROVE  st[1] = t
  <2>1. PICK i \in MembersOf(u, t) :
          st = IF members[i].store \in Store THEN members[i].store ELSE Main(t)
    BY DEF GetUserDefaultStore
  <2>2. i \in DOMAIN members /\ members[i].tenant = t BY DEF MembersOf, OfTenant, Rows
  <2> QED BY <2>1, <2>2 DEF RowsAreOwn, Main
<1>2. ASSUME NEW u \in User, NEW t \in Tenant, NEW st \in Store, UserHasStoreAccess(u, t, st)
      PROVE  st[1] = t
  <2>1. PICK i \in MembersOf(u, t) : st = members[i].store
    BY <1>2 DEF UserHasStoreAccess, GetUserStore
  <2>2. i \in DOMAIN members /\ members[i].tenant = t BY DEF MembersOf, OfTenant, Rows
  <2> QED BY <2>1, <2>2 DEF RowsAreOwn
<1> QED BY <1>1, <1>2 DEF StoreIsOwn, SessionsAreOwn

LEMMA MeansOne == AloneInv => OneMembership
<1> SUFFICES ASSUME OneRow, NEW u \in User, NEW t \in Tenant
             PROVE  Cardinality(MembersOf(u, t)) <= 1
  BY DEF AloneInv, OneMembership
<1>1. \A i, j \in MembersOf(u, t) : i = j BY DEF MembersOf, OfTenant, OneRow
<1> QED BY <1>1, AtMostOne

LEMMA MeansRole == AloneInv => MemberHasRole
BY DEF AloneInv, MemberHasRole

LEMMA MeansAssigned == AloneInv => EverybodyAssigned
<1> SUFFICES ASSUME NEW s \in Slot, Knows(req[s]), Running(s, "migration", "assign"),
                    req[s].rows = {}, NullMatchesUnset
             PROVE  \A i \in Rows : members[i].store \in Store \/ i \in req[s].failed
  BY DEF AloneInv, EverybodyAssigned
<1> QED BY DEF Knows, Running

\* Whatever overlaps or fails, a user works in stores of its tenant only: the
\* default one, the ones it has access to, and the one in its JWT.
THEOREM OwnStoreCorrect ==
  ASSUME First \in User
  PROVE  Spec => []StoreIsOwn
<1>1. Init => MemberInv BY MemberInit
<1>2. MemberInv /\ [Next]_vars => MemberInv' BY MemberNext
<1> QED BY <1>1, <1>2, MeansStoreIsOwn, PTL DEF Spec

\* Who is left without a membership is an agent, or a failure or deleteUser
\* left it: no request that ends by itself does.
THEOREM StrandedCorrect ==
  ASSUME First \in User
  PROVE  Spec => []StrandedByFailure
<1>1. Init => MemberInv BY MemberInit
<1>2. MemberInv /\ [Next]_vars => MemberInv' BY MemberNext
<1>3. MemberInv => StrandedByFailure BY DEF MemberInv
<1> QED BY <1>1, <1>2, <1>3, PTL DEF Spec

\* As long as no two requests overlap a user is a member of a tenant once,
\* with a role that exists, and with a store once the migration has ended, but
\* for those it logged as failed.
THEOREM MembershipCorrect ==
  ASSUME First \in User
  PROVE  Spec => [](OneMembership /\ MemberHasRole /\ EverybodyAssigned)
<1>1. Init => AloneInv BY AloneInit
<1>2. AloneInv /\ [Next]_vars => AloneInv' BY AloneNext
<1>3. AloneInv => OneMembership /\ MemberHasRole /\ EverybodyAssigned
  BY MeansOne, MeansRole, MeansAssigned
<1> QED BY <1>1, <1>2, <1>3, PTL DEF Spec
=============================================================================

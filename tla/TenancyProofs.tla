----------------------------- MODULE TenancyProofs -----------------------------
(***************************************************************************)
(* Proofs about Tenancy: every table keeps its shape, a final domain comes *)
(* with the role Admin, a tenant has one main store and keeps it, and the  *)
(* migration misses nobody, for any companies, slots and numbers of        *)
(* requests.                                                               *)
(***************************************************************************)
EXTENDS Tenancy, SequenceTheorems, FiniteSetTheorems, TLAPS

-----------------------------------------------------------------------------
(* Requests *)

\* The tables, without the requests.
TablesOK ==
  /\ tenants \in [Tenant -> TenantRow]
  /\ admin \subseteq Tenant
  /\ stores \in Seq(StoreRow)

\* The request r names a tenant if it is about one.
Names(r) == r.op \notin {"idle", "migration"} => r.tenants # {}

\* The request of slot s becomes r.
Becomes(s, r) == req' = [req EXCEPT ![s] = r] /\ UNCHANGED <<started, overlap>>

\* What TypeInv says of the tables and of the request in a slot.
LEMMA TypeFacts ==
  ASSUME TypeInv, NEW s \in Slot
  PROVE  /\ TablesOK
         /\ req \in [Slot -> Request] /\ req[s] \in Request /\ Names(req[s])
         /\ started \in Nat /\ overlap \in BOOLEAN
BY DEF TypeInv, TypeOK, RequestsOK, TablesOK, RequestsName, Names

\* The rows are numbered, and each is one.
LEMMA RowsAreRows ==
  ASSUME TypeInv
  PROVE  /\ stores \in Seq(StoreRow) /\ Len(stores) \in Nat /\ DOMAIN stores = 1..Len(stores)
         /\ \A i \in DOMAIN stores : stores[i] \in StoreRow
<1>1. stores \in Seq(StoreRow) BY DEF TypeInv, TypeOK
<1> QED BY <1>1, LenProperties, ElementOfSeq

\* A step of the request in slot s.
LEMMA RequestServed ==
  ASSUME TypeInv, NEW s \in Slot, NEW r \in Request, Names(r), TablesOK',
         req' = [req EXCEPT ![s] = r], started' \in Nat, overlap' \in BOOLEAN
  PROVE  TypeInv'
<1>1. req \in [Slot -> Request] /\ RequestsName BY DEF TypeInv, TypeOK, RequestsOK
<1>2. req' \in [Slot -> Request] BY <1>1
<1>3. TypeOK' BY <1>2 DEF TypeOK, TablesOK, RequestsOK
<1>4. RequestsName' BY <1>1 DEF RequestsName, Names
<1> QED BY <1>3, <1>4 DEF TypeInv

LEMMA TypeBecomes ==
  ASSUME TypeInv, NEW s \in Slot, NEW r \in Request, Names(r), TablesOK', Becomes(s, r)
  PROVE  TypeInv'
<1>1. started \in Nat /\ overlap \in BOOLEAN BY TypeFacts
<1> QED BY <1>1, RequestServed DEF Becomes

LEMMA IdleIsRequest == Idle \in Request /\ Names(Idle) /\ Idle.op = "idle"
BY DEF Idle, Request, Op, At, Names, DefaultName, Name, StoreClass

LEMMA TypeEnds ==
  ASSUME TypeInv, NEW s \in Slot, Finish(s), TablesOK'
  PROVE  TypeInv'
BY IdleIsRequest, TypeBecomes DEF Finish, Becomes

LEMMA TypeRefused ==
  ASSUME TypeInv, NEW s \in Slot, Refuse(s)
  PROVE  TypeInv'
<1>1. TablesOK' BY TypeFacts DEF TablesOK, Refuse, tables
<1> QED BY <1>1, TypeEnds DEF Refuse

\* A request that goes on to step a.
LEMMA TypeGoes ==
  ASSUME TypeInv, NEW s \in Slot, NEW a \in At, Goto(s, a), TablesOK'
  PROVE  TypeInv'
<1> DEFINE r == [req[s] EXCEPT !.at = a]
<1>1. r \in Request /\ Names(r) BY TypeFacts DEF Request, Names
<1>2. Becomes(s, r) BY DEF Goto, Set, Becomes
<1> QED BY <1>1, <1>2, TypeBecomes

LEMMA TypeAccepted ==
  ASSUME TypeInv, NEW s \in Slot, NEW r \in Request, Begin(s, r), Names(r)
  PROVE  TypeInv'
<1>1. TablesOK /\ started \in Nat /\ overlap \in BOOLEAN BY TypeFacts
<1>2. /\ req' = [req EXCEPT ![s] = r] /\ started' = started + 1 /\ UNCHANGED tables
      /\ overlap' \in BOOLEAN
  BY <1>1 DEF Begin, Accept
<1>3. TablesOK' BY <1>1, <1>2 DEF TablesOK, tables
<1>4. started' \in Nat BY <1>1, <1>2
<1> QED BY <1>2, <1>3, <1>4, RequestServed

\* The tenant of a request that is about one.
LEMMA TenantNamed ==
  ASSUME TypeInv, NEW s \in Slot, req[s].op \notin {"idle", "migration"}
  PROVE  TenantOf(s) \in Tenant /\ tenants[TenantOf(s)] \in TenantRow
<1>1. TablesOK /\ req[s] \in Request /\ Names(req[s]) BY TypeFacts
<1>2. req[s].tenants # {} /\ req[s].tenants \subseteq Tenant BY <1>1 DEF Names, Request
<1>3. TenantOf(s) \in Tenant BY <1>2 DEF TenantOf
<1> QED BY <1>1, <1>3 DEF TablesOK

\* What a request is when it arrives: whoever manages stores names a store of
\* a tenant that was provisioned.
Manager(r) ==
  r.op \in {"createStore", "updateStore", "removeStore"} =>
    /\ About(r) \in admin
    /\ r.op # "createStore" => r.store \in Rows /\ stores[r.store].tenant = About(r)
Fresh(r) ==
  /\ r \in Request /\ Names(r) /\ Manager(r)
  /\ r.at = "find" \/ (r.at = "write" /\ r.op \in {"updateTenant", "removeTenant"})

LEMMA Starts ==
  ASSUME TypeInv, NEW s \in Slot, Start(s)
  PROVE  \E r : Fresh(r) /\ Begin(s, r)
<1>1. admin \subseteq Tenant /\ \A i \in Rows : i \in Nat /\ stores[i].tenant \in Tenant
  <2>1. admin \subseteq Tenant BY DEF TypeInv, TypeOK
  <2>2. ASSUME NEW i \in Rows PROVE i \in Nat /\ stores[i].tenant \in Tenant
    <3>1. i \in DOMAIN stores BY DEF Rows
    <3>2. i \in Nat /\ stores[i] \in StoreRow BY <3>1, RowsAreRows
    <3> QED BY <3>2 DEF StoreRow
  <2> QED BY <2>1, <2>2
<1> USE DEF Ask, Idle, Request, Op, At, Names, Manager, About, Fresh, DefaultName, Name, StoreClass
<1>2. CASE AskCreateTenant(s)
  <2>1. PICK t \in Tenant : Begin(s, Ask("createTenant", "find", t)) BY <1>2 DEF AskCreateTenant
  <2>2. Fresh(Ask("createTenant", "find", t)) OBVIOUS
  <2> QED BY <2>1, <2>2
<1>3. CASE AskAgreedAmount(s)
  <2>1. PICK t \in Tenant : Begin(s, Ask("agreedAmount", "find", t)) BY <1>3 DEF AskAgreedAmount
  <2>2. Fresh(Ask("agreedAmount", "find", t)) OBVIOUS
  <2> QED BY <2>1, <2>2
<1>4. CASE AskUpdateTenant(s)
  <2>1. PICK t \in Tenant : Begin(s, Ask("updateTenant", "write", t)) BY <1>4 DEF AskUpdateTenant
  <2>2. Fresh(Ask("updateTenant", "write", t)) OBVIOUS
  <2> QED BY <2>1, <2>2
<1>5. CASE AskRemoveTenant(s)
  <2>1. PICK t \in Tenant : Begin(s, Ask("removeTenant", "write", t)) BY <1>5 DEF AskRemoveTenant
  <2>2. Fresh(Ask("removeTenant", "write", t)) OBVIOUS
  <2> QED BY <2>1, <2>2
<1>6. CASE AskCreateStore(s)
  <2>1. PICK t \in admin, n \in Name, c \in StoreClass :
          Begin(s, [Ask("createStore", "find", t) EXCEPT !.name = n, !.class = c])
    BY <1>6 DEF AskCreateStore
  <2>2. (CHOOSE u \in {t} : TRUE) = t OBVIOUS
  <2>3. Fresh([Ask("createStore", "find", t) EXCEPT !.name = n, !.class = c]) BY <1>1, <2>2
  <2> QED BY <2>1, <2>3
<1>7. CASE AskUpdateStore(s)
  <2>1. PICK i \in Rows, n \in Name, c \in StoreClass :
          /\ stores[i].tenant \in admin
          /\ Begin(s, [Ask("updateStore", "find", stores[i].tenant)
                         EXCEPT !.store = i, !.name = n, !.class = c])
    BY <1>7 DEF AskUpdateStore
  <2>2. (CHOOSE u \in {stores[i].tenant} : TRUE) = stores[i].tenant OBVIOUS
  <2>3. Fresh([Ask("updateStore", "find", stores[i].tenant)
                 EXCEPT !.store = i, !.name = n, !.class = c])
    BY <1>1, <2>1, <2>2
  <2> QED BY <2>1, <2>3
<1>8. CASE AskRemoveStore(s)
  <2>1. PICK i \in Rows :
          /\ stores[i].tenant \in admin
          /\ Begin(s, [Ask("removeStore", "find", stores[i].tenant) EXCEPT !.store = i])
    BY <1>8 DEF AskRemoveStore
  <2>2. (CHOOSE u \in {stores[i].tenant} : TRUE) = stores[i].tenant OBVIOUS
  <2>3. Fresh([Ask("removeStore", "find", stores[i].tenant) EXCEPT !.store = i])
    BY <1>1, <2>1, <2>2
  <2> QED BY <2>1, <2>3
<1>9. CASE RunMigration(s)
  <2>1. Begin(s, [Idle EXCEPT !.op = "migration", !.at = "find"]) BY <1>9 DEF RunMigration
  <2>2. Fresh([Idle EXCEPT !.op = "migration", !.at = "find"]) OBVIOUS
  <2> QED BY <2>1, <2>2
<1> QED BY <1>2, <1>3, <1>4, <1>5, <1>6, <1>7, <1>8, <1>9 DEF Start

-----------------------------------------------------------------------------
(* What the steps write *)

\* A row is added to the stores.
Inserts(t, c) ==
  /\ stores' \in Seq(StoreRow)
  /\ DOMAIN stores' = DOMAIN stores \cup {Len(stores) + 1} /\ Len(stores) + 1 \notin DOMAIN stores
  /\ \A j \in DOMAIN stores : stores'[j] = stores[j]
  /\ \E n \in Name : stores'[Len(stores) + 1] = NewStore(t, n, c)

LEMMA InsertDoes ==
  ASSUME TypeInv, NEW t \in Tenant, NEW n \in Name, NEW c \in StoreClass, InsertStore(t, n, c)
  PROVE  Inserts(t, c)
<1>1. NewStore(t, n, c) \in StoreRow BY DEF NewStore, StoreRow
<1>2. stores' = Append(stores, NewStore(t, n, c)) BY DEF InsertStore
<1> HIDE DEF NewStore
<1>3. /\ stores' \in Seq(StoreRow) /\ DOMAIN stores' = 1..(Len(stores) + 1)
      /\ \A j \in 1..Len(stores) : stores'[j] = stores[j]
      /\ stores'[Len(stores) + 1] = NewStore(t, n, c)
  BY <1>1, <1>2, RowsAreRows, AppendProperties
<1>4. Len(stores) \in Nat /\ DOMAIN stores = 1..Len(stores) BY RowsAreRows
<1> QED BY <1>3, <1>4 DEF Inserts

\* A row of the stores is written; it stays with its tenant.
Rewrites(i, class, state) ==
  /\ i \in Rows
  /\ stores' \in Seq(StoreRow) /\ DOMAIN stores' = DOMAIN stores
  /\ \A j \in DOMAIN stores \ {i} : stores'[j] = stores[j]
  /\ stores'[i].tenant = stores[i].tenant /\ stores'[i].class = class /\ stores'[i].state = state

LEMMA RewriteDoes ==
  ASSUME TypeInv, NEW i \in Rows, NEW row \in StoreRow, stores' = [stores EXCEPT ![i] = row],
         row.tenant = stores[i].tenant
  PROVE  Rewrites(i, row.class, row.state)
<1>1. i \in DOMAIN stores BY DEF Rows
<1>2. /\ stores' \in Seq(StoreRow) /\ DOMAIN stores' = DOMAIN stores /\ stores'[i] = row
      /\ \A j \in DOMAIN stores \ {i} : stores'[j] = stores[j]
  BY <1>1, RowsAreRows, ExceptSeq
<1> QED BY <1>2 DEF Rewrites

\* The rows of a tenant go with it.
Removes(t) ==
  /\ stores' \in Seq(StoreRow) /\ DOMAIN stores' = DOMAIN stores
  /\ \A j \in DOMAIN stores :
       stores'[j] = IF stores[j].tenant = t THEN [stores[j] EXCEPT !.state = "gone"] ELSE stores[j]
  /\ tenants' = [tenants EXCEPT ![t] = NoTenant]
  /\ admin' = admin \ {t}

LEMMA RemoveTenantDoes ==
  ASSUME TypeInv, NEW s \in Slot, RemoveTenant(s), ~Refuse(s)
  PROVE  TenantOf(s) \in Tenant /\ Removes(TenantOf(s)) /\ Finish(s)
<1> DEFINE t == TenantOf(s)
           row(j) == IF stores[j].tenant = t THEN [stores[j] EXCEPT !.state = "gone"]
                     ELSE stores[j]
<1>1. t \in Tenant BY TenantNamed DEF RemoveTenant, Running
<1>2. /\ stores' = [j \in DOMAIN stores |-> row(j)]
      /\ tenants' = [tenants EXCEPT ![t] = NoTenant] /\ admin' = admin \ {t} /\ Finish(s)
  BY DEF RemoveTenant
<1>3. \A j \in DOMAIN stores : stores[j] \in StoreRow BY RowsAreRows
<1>4. \A j \in DOMAIN stores : row(j) \in StoreRow BY <1>3 DEF StoreRow
<1> HIDE DEF row
<1>5. DOMAIN stores = 1..Len(stores) /\ Len(stores) \in Nat BY RowsAreRows
<1>6. stores' \in Seq(StoreRow) BY <1>2, <1>4, <1>5, IsASeq
<1> QED BY <1>1, <1>2, <1>6 DEF Removes, row

\* The transactions of createTenant and onboardCompanyAgreedAmount.
Provisions(t) ==
  /\ t \in Tenant /\ admin' = admin \cup {t}
  /\ \/ UNCHANGED stores /\ NotDeleted(MainRows(t)) # {}
     \/ Inserts(t, "MAIN") /\ NotDeleted(MainRows(t)) = {}
  /\ tenants' \in [Tenant -> TenantRow]
  /\ \A u \in Tenant \ {t} : tenants'[u] = tenants[u]

LEMMA ProvisionDoes ==
  ASSUME TypeInv, NEW s \in Slot, CreateTenantProvision(s) \/ AgreedAmountProvision(s)
  PROVE  Provisions(TenantOf(s)) /\ Finish(s)
<1> DEFINE t == TenantOf(s)
<1>1. /\ t \in Tenant /\ tenants[t] \in TenantRow
      /\ tenants \in [Tenant -> TenantRow]
  BY TenantNamed, TypeFacts DEF CreateTenantProvision, AgreedAmountProvision, Running, TablesOK
<1>2. Provision(t) /\ Finish(s) BY DEF CreateTenantProvision, AgreedAmountProvision
<1> HIDE DEF t
<1>3. /\ admin' = admin \cup {t}
      /\ \/ UNCHANGED stores /\ NotDeleted(MainRows(t)) # {}
         \/ InsertStore(t, DefaultName, "MAIN") /\ NotDeleted(MainRows(t)) = {}
  BY <1>2 DEF Provision
<1>4. DefaultName \in Name /\ "MAIN" \in StoreClass BY DEF Name, StoreClass
<1>5. tenants' \in {tenants, [tenants EXCEPT ![t] = [tenants[t] EXCEPT !.final = TRUE]]}
  BY <1>1 DEF CreateTenantProvision, AgreedAmountProvision, t
<1>6. [tenants[t] EXCEPT !.final = TRUE] \in TenantRow BY <1>1 DEF TenantRow
<1>7. tenants' \in [Tenant -> TenantRow] /\ \A u \in Tenant \ {t} : tenants'[u] = tenants[u]
  BY <1>1, <1>5, <1>6
<1>8. InsertStore(t, DefaultName, "MAIN") => Inserts(t, "MAIN") BY <1>1, <1>4, InsertDoes
<1> QED BY <1>1, <1>2, <1>3, <1>7, <1>8 DEF Provisions, t

\* The row of a tenant is written.
Alters(t) ==
  /\ t \in Tenant /\ UNCHANGED <<admin, stores>>
  /\ tenants' \in [Tenant -> TenantRow]
  /\ \A u \in Tenant \ {t} : tenants'[u] = tenants[u]
  /\ tenants'[t].final => tenants[t].final

LEMMA AlterDoes ==
  ASSUME TypeInv, NEW s \in Slot, ~Refuse(s),
         CreateTenantWrite(s) \/ AgreedAmountFind(s) \/ ChangeTenant(s)
  PROVE  /\ Alters(TenantOf(s))
         /\ req[s].op \in {"createTenant", "agreedAmount", "updateTenant"}
         /\ Finish(s) \/ Goto(s, "provision")
<1> DEFINE t == TenantOf(s)
<1>1. /\ t \in Tenant /\ tenants[t] \in TenantRow
      /\ tenants \in [Tenant -> TenantRow]
  BY TenantNamed, TypeFacts DEF CreateTenantWrite, AgreedAmountFind, ChangeTenant, Running,
     TablesOK
<1>2. \/ tenants' = [tenants EXCEPT ![t] = NewTenant]
      \/ \E multi \in BOOLEAN :
           tenants' = [tenants EXCEPT ![t] = [tenants[t] EXCEPT !.multi = multi]]
  BY <1>1 DEF CreateTenantWrite, AgreedAmountFind, ChangeTenant, UpdateTenant
<1>3. /\ UNCHANGED <<admin, stores>>
      /\ Finish(s) \/ Goto(s, "provision")
      /\ req[s].op \in {"createTenant", "agreedAmount", "updateTenant"}
  BY DEF CreateTenantWrite, AgreedAmountFind, ChangeTenant, Running
<1>4. NewTenant \in TenantRow /\ ~NewTenant.final BY DEF NewTenant, TenantRow
<1>5. \A multi \in BOOLEAN : /\ [tenants[t] EXCEPT !.multi = multi] \in TenantRow
                             /\ [tenants[t] EXCEPT !.multi = multi].final = tenants[t].final
  BY <1>1 DEF TenantRow
<1> HIDE DEF t, NewTenant
<1>6. CASE tenants' = [tenants EXCEPT ![t] = NewTenant]
  <2>1. Alters(t) BY <1>1, <1>3, <1>4, <1>6 DEF Alters
  <2> QED BY <1>3, <2>1 DEF t
<1>7. ASSUME NEW multi \in BOOLEAN,
             tenants' = [tenants EXCEPT ![t] = [tenants[t] EXCEPT !.multi = multi]]
      PROVE  Alters(t)
  <2> DEFINE row == [tenants[t] EXCEPT !.multi = multi]
  <2>1. row \in TenantRow /\ row.final = tenants[t].final BY <1>5
  <2> HIDE DEF row
  <2> QED BY <1>1, <1>3, <1>7, <2>1 DEF Alters, row
<1> QED BY <1>2, <1>3, <1>6, <1>7 DEF t

\* Stores that are written.
LEMMA CreateStoreDoes ==
  ASSUME TypeInv, NEW s \in Slot, CreateStoreWrite(s), ~Refuse(s)
  PROVE  /\ Running(s, "createStore", "write") /\ TenantOf(s) \in Tenant
         /\ Inserts(TenantOf(s), req[s].class) /\ req[s].class \in StoreClass
         /\ Finish(s) /\ UNCHANGED <<tenants, admin>>
<1>1. TenantOf(s) \in Tenant BY TenantNamed DEF CreateStoreWrite, Running
<1>2. req[s].name \in Name /\ req[s].class \in StoreClass BY TypeFacts DEF Request
<1> QED BY <1>1, <1>2, InsertDoes DEF CreateStoreWrite

LEMMA UpdateStoreDoes ==
  ASSUME TypeInv, NEW s \in Slot, UpdateStoreWrite(s), ~Refuse(s)
  PROVE  /\ Running(s, "updateStore", "write")
         /\ Rewrites(req[s].store, req[s].class, stores[req[s].store].state)
         /\ Finish(s) /\ UNCHANGED <<tenants, admin>>
<1> DEFINE i == req[s].store
           row == [stores[i] EXCEPT !.name = req[s].name, !.class = req[s].class]
<1>1. /\ Running(s, "updateStore", "write") /\ i \in Rows /\ Finish(s)
      /\ UNCHANGED <<tenants, admin>>
      /\ stores' = [stores EXCEPT ![i].name = req[s].name, ![i].class = req[s].class]
  BY DEF UpdateStoreWrite
<1>2. i \in DOMAIN stores /\ stores[i] \in StoreRow BY <1>1, RowsAreRows DEF Rows
<1>3. req[s].name \in Name /\ req[s].class \in StoreClass BY TypeFacts DEF Request
<1>4. stores' = [stores EXCEPT ![i] = row] BY <1>1, <1>2
<1>5. /\ row \in StoreRow /\ row.tenant = stores[i].tenant
      /\ row.class = req[s].class /\ row.state = stores[i].state
  BY <1>2, <1>3 DEF StoreRow
<1> HIDE DEF row
<1> QED BY <1>1, <1>4, <1>5, RewriteDoes

LEMMA RemoveStoreDoes ==
  ASSUME TypeInv, NEW s \in Slot, RemoveStoreWrite(s), ~Refuse(s)
  PROVE  /\ Running(s, "removeStore", "write")
         /\ Rewrites(req[s].store, stores[req[s].store].class, "removed")
         /\ Finish(s) /\ UNCHANGED <<tenants, admin>>
<1> DEFINE i == req[s].store
           row == [stores[i] EXCEPT !.state = "removed"]
<1>1. /\ Running(s, "removeStore", "write") /\ i \in Rows /\ Finish(s)
      /\ UNCHANGED <<tenants, admin>>
      /\ stores' = [stores EXCEPT ![i].state = "removed"]
  BY DEF RemoveStoreWrite
<1>2. i \in DOMAIN stores /\ stores[i] \in StoreRow BY <1>1, RowsAreRows DEF Rows
<1>3. stores' = [stores EXCEPT ![i] = row] BY <1>1, <1>2
<1>4. /\ row \in StoreRow /\ row.tenant = stores[i].tenant
      /\ row.class = stores[i].class /\ row.state = "removed"
  BY <1>2 DEF StoreRow
<1> HIDE DEF row
<1> QED BY <1>1, <1>3, <1>4, RewriteDoes

\* The request of the migration, once it has dealt with a company.
Served(r, t) == [r EXCEPT !.tenants = @ \ {t}]
Logged(r, t) == [r EXCEPT !.tenants = @ \ {t}, !.failed = @ \cup {t}]

LEMMA MigrationDoes ==
  ASSUME TypeInv, NEW s \in Slot, MigrationWrite(s)
  PROVE  \E t \in req[s].tenants :
           /\ t \in Tenant /\ Running(s, "migration", "write")
           /\ \/ Inserts(t, "MAIN") /\ Becomes(s, Served(req[s], t))
              \/ UNCHANGED stores /\ Becomes(s, Logged(req[s], t))
           /\ UNCHANGED <<tenants, admin>>
<1>1. PICK t \in req[s].tenants :
        /\ Running(s, "migration", "write")
        /\ \/ /\ InsertStore(t, DefaultName, "MAIN")
              /\ req' = [req EXCEPT ![s].tenants = @ \ {t}]
           \/ /\ UNCHANGED stores
              /\ req' = [req EXCEPT ![s].tenants = @ \ {t}, ![s].failed = @ \cup {t}]
        /\ UNCHANGED <<tenants, admin, started, overlap>>
  BY DEF MigrationWrite
<1>2. t \in Tenant BY TypeFacts DEF Request
<1>3. DefaultName \in Name /\ "MAIN" \in StoreClass BY DEF Name, StoreClass
<1>4. InsertStore(t, DefaultName, "MAIN") => Inserts(t, "MAIN") BY <1>2, <1>3, InsertDoes
<1>5. req \in [Slot -> Request] BY TypeFacts
<1>6. \/ InsertStore(t, DefaultName, "MAIN") /\ Becomes(s, Served(req[s], t))
      \/ UNCHANGED stores /\ Becomes(s, Logged(req[s], t))
  BY <1>1, <1>5 DEF Becomes, Served, Logged
<1> QED BY <1>1, <1>2, <1>4, <1>6

\* A step that only reads: it refuses, ends or goes on.
Reads(s) ==
  \/ CreateTenantFind(s) \/ ProvisionFails(s) \/ CreateStoreFind(s) \/ CreateStoreName(s)
  \/ CreateStoreMain(s) \/ UpdateStoreFind(s) \/ UpdateStoreName(s) \/ UpdateStoreMain(s)
  \/ RemoveStoreFind(s) \/ RemoveStoreMain(s) \/ MigrationFind(s) \/ MigrationEnd(s)

\* The requests of updateStore and of the migration, once they have read.
Read(s) ==
  [req[s] EXCEPT !.at = IF stores[req[s].store].name # req[s].name THEN "name" ELSE "main",
                 !.was = stores[req[s].store].class]
Listed(s) ==
  [req[s] EXCEPT !.at = "write",
                 !.tenants = Unserved]

LEMMA ReadsDo ==
  ASSUME TypeInv, NEW s \in Slot, Reads(s)
  PROVE  /\ UNCHANGED tables
         /\ \/ Finish(s)
            \/ Running(s, "createTenant", "find") /\ Goto(s, "write")
            \/ Running(s, "createStore", "find") /\ Goto(s, "name")
            \/ /\ Running(s, "createStore", "name")
               /\ Goto(s, IF req[s].class = "MAIN" THEN "main" ELSE "write")
            \/ /\ Running(s, "createStore", "main") /\ Goto(s, "write")
               /\ MainRows(TenantOf(s)) = {}
            \/ /\ Running(s, "updateStore", "find") /\ req[s].store \in Rows
               /\ Becomes(s, Read(s))
            \/ Running(s, "updateStore", "name") /\ Goto(s, "main")
            \/ /\ Running(s, "updateStore", "main") /\ Goto(s, "write")
               /\ req[s].was = "MAIN" /\ req[s].class # "MAIN" => Others(req[s]) # {}
               /\ req[s].was # "MAIN" /\ req[s].class = "MAIN" => Others(req[s]) = {}
            \/ /\ Running(s, "removeStore", "find") /\ req[s].store \in Rows
               /\ Goto(s, IF stores[req[s].store].class = "MAIN" THEN "main" ELSE "write")
            \/ /\ Running(s, "removeStore", "main") /\ Goto(s, "write")
               /\ Others(req[s]) # {}
            \/ Running(s, "migration", "find") /\ Becomes(s, Listed(s))
<1>1. req \in [Slot -> Request] /\ req[s] \in Request BY TypeFacts
<1>2. CASE CreateTenantFind(s) BY <1>2 DEF CreateTenantFind, Refuse
<1>3. CASE ProvisionFails(s) BY <1>3 DEF ProvisionFails, Refuse
<1>4. CASE CreateStoreFind(s) BY <1>4 DEF CreateStoreFind, Refuse
<1>5. CASE CreateStoreName(s) BY <1>5 DEF CreateStoreName, Refuse
<1>6. CASE CreateStoreMain(s) BY <1>6 DEF CreateStoreMain, Refuse
<1>7. CASE UpdateStoreFind(s)
  <2>1. CASE Refuse(s) BY <2>1 DEF Refuse
  <2>2. CASE ~Refuse(s)
    <3>1. /\ Running(s, "updateStore", "find") /\ req[s].store \in Rows /\ UNCHANGED tables
          /\ req' = [req EXCEPT ![s].at = IF stores[req[s].store].name # req[s].name
                                          THEN "name" ELSE "main",
                                ![s].was = stores[req[s].store].class]
          /\ UNCHANGED <<started, overlap>>
      BY <1>7, <2>2 DEF UpdateStoreFind, Found
    <3>2. Becomes(s, Read(s)) BY <1>1, <3>1 DEF Becomes, Read
    <3> QED BY <3>1, <3>2
  <2> QED BY <2>1, <2>2
<1>8. CASE UpdateStoreName(s) BY <1>8 DEF UpdateStoreName, Refuse
<1>9. CASE UpdateStoreMain(s) BY <1>9 DEF UpdateStoreMain, Refuse, Others, About, TenantOf
<1>10. CASE RemoveStoreFind(s) BY <1>10 DEF RemoveStoreFind, Refuse, Found
<1>11. CASE RemoveStoreMain(s) BY <1>11 DEF RemoveStoreMain, Refuse, Others, About, TenantOf
<1>12. CASE MigrationFind(s)
  <2>1. /\ Running(s, "migration", "find") /\ UNCHANGED tables
        /\ req' = [req EXCEPT ![s].at = "write", ![s].tenants = Unserved]
        /\ UNCHANGED <<started, overlap>>
    BY <1>12 DEF MigrationFind
  <2>2. Becomes(s, Listed(s)) BY <1>1, <2>1 DEF Becomes, Listed
  <2> QED BY <2>1, <2>2
<1>13. CASE MigrationEnd(s) BY <1>13 DEF MigrationEnd, Refuse
<1> QED BY <1>2, <1>3, <1>4, <1>5, <1>6, <1>7, <1>8, <1>9, <1>10, <1>11, <1>12, <1>13
    DEF Reads

-----------------------------------------------------------------------------
(* Types *)

LEMMA TypeReads ==
  ASSUME TypeInv, NEW s \in Slot, Reads(s)
  PROVE  TypeInv'
<1>1. TablesOK /\ req[s] \in Request /\ Names(req[s]) BY TypeFacts
<1>2. TablesOK' BY <1>1, ReadsDo DEF TablesOK, tables
<1>3. CASE Finish(s) BY <1>2, <1>3, TypeEnds
<1>4. ASSUME NEW a \in {"name", "main", "write"}, Goto(s, a) PROVE TypeInv'
  <2>1. a \in At BY DEF At
  <2> QED BY <1>2, <1>4, <2>1, TypeGoes
<1>5. CASE req[s].store \in Rows /\ Becomes(s, Read(s))
  <2>1. stores[req[s].store] \in StoreRow BY <1>5, RowsAreRows DEF Rows
  <2>2. stores[req[s].store].class \in StoreClass BY <2>1 DEF StoreRow
  <2>3. Read(s) \in Request /\ Names(Read(s)) BY <1>1, <2>2 DEF Read, Request, Names, At
  <2> QED BY <1>2, <1>5, <2>3, TypeBecomes
<1>6. CASE Running(s, "migration", "find") /\ Becomes(s, Listed(s))
  <2>1. PICK T \in SUBSET Tenant : T = Unserved BY DEF Unserved
  <2>2. [req[s] EXCEPT !.at = "write", !.tenants = T] \in Request BY <1>1 DEF Request, At
  <2>3. Listed(s) \in Request BY <2>1, <2>2 DEF Listed
  <2>4. Names(Listed(s)) BY <1>1, <1>6 DEF Listed, Names, Running, Request
  <2> QED BY <1>2, <1>6, <2>3, <2>4, TypeBecomes
<1> QED BY <1>3, <1>4, <1>5, <1>6, ReadsDo

LEMMA TypeTenants ==
  ASSUME TypeInv, NEW s \in Slot,
         CreateTenantWrite(s) \/ AgreedAmountFind(s) \/ ChangeTenant(s) \/ RemoveTenant(s)
         \/ CreateTenantProvision(s) \/ AgreedAmountProvision(s)
  PROVE  TypeInv'
<1>1. TablesOK BY TypeFacts
<1>2. CASE Refuse(s) BY <1>2, TypeRefused
<1>3. CASE RemoveTenant(s) /\ ~Refuse(s)
  <2>1. NoTenant \in TenantRow BY DEF NoTenant, TenantRow
  <2>2. Removes(TenantOf(s)) /\ Finish(s) BY <1>3, RemoveTenantDoes
  <2>3. TablesOK' BY <1>1, <2>1, <2>2 DEF TablesOK, Removes
  <2> QED BY <2>2, <2>3, TypeEnds
<1>4. CASE CreateTenantProvision(s) \/ AgreedAmountProvision(s)
  <2>1. Provisions(TenantOf(s)) /\ Finish(s) BY <1>4, ProvisionDoes
  <2>2. TablesOK' BY <1>1, <2>1 DEF TablesOK, Provisions, Inserts
  <2> QED BY <2>1, <2>2, TypeEnds
<1>5. CASE (CreateTenantWrite(s) \/ AgreedAmountFind(s) \/ ChangeTenant(s)) /\ ~Refuse(s)
  <2>1. Alters(TenantOf(s)) /\ (Finish(s) \/ Goto(s, "provision")) BY <1>5, AlterDoes
  <2>2. TablesOK' BY <1>1, <2>1 DEF TablesOK, Alters
  <2>3. "provision" \in At BY DEF At
  <2> QED BY <2>1, <2>2, <2>3, TypeEnds, TypeGoes
<1> QED BY <1>2, <1>3, <1>4, <1>5

LEMMA TypeStores ==
  ASSUME TypeInv, NEW s \in Slot,
         CreateStoreWrite(s) \/ UpdateStoreWrite(s) \/ RemoveStoreWrite(s)
  PROVE  TypeInv'
<1>1. TablesOK BY TypeFacts
<1>2. CASE Refuse(s) BY <1>2, TypeRefused
<1>3. CASE ~Refuse(s)
  <2>1. Finish(s) /\ UNCHANGED <<tenants, admin>> /\ stores' \in Seq(StoreRow)
    BY <1>3, CreateStoreDoes, UpdateStoreDoes, RemoveStoreDoes DEF Inserts, Rewrites
  <2>2. TablesOK' BY <1>1, <2>1 DEF TablesOK
  <2> QED BY <2>1, <2>2, TypeEnds
<1> QED BY <1>2, <1>3

LEMMA TypeMigration ==
  ASSUME TypeInv, NEW s \in Slot, MigrationWrite(s)
  PROVE  TypeInv'
<1>1. TablesOK /\ req[s] \in Request /\ Names(req[s]) BY TypeFacts
<1>2. PICK t \in req[s].tenants :
        /\ t \in Tenant /\ Running(s, "migration", "write")
        /\ Inserts(t, "MAIN") \/ UNCHANGED stores
        /\ Becomes(s, Served(req[s], t)) \/ Becomes(s, Logged(req[s], t))
        /\ UNCHANGED <<tenants, admin>>
  BY MigrationDoes
<1>3. TablesOK' BY <1>1, <1>2 DEF TablesOK, Inserts
<1>4. Served(req[s], t) \in Request /\ Names(Served(req[s], t))
  BY <1>1, <1>2 DEF Request, Names, Running, Served
<1>5. Logged(req[s], t) \in Request /\ Names(Logged(req[s], t))
  BY <1>1, <1>2 DEF Request, Names, Running, Logged
<1> QED BY <1>2, <1>3, <1>4, <1>5, TypeBecomes

LEMMA TypeCrash ==
  ASSUME TypeInv, Crash
  PROVE  TypeInv'
<1>1. req' = [s \in Slot |-> Idle] /\ UNCHANGED <<tables, started, overlap>> BY DEF Crash
<1> QED BY <1>1, IdleIsRequest
    DEF TypeInv, TypeOK, RequestsOK, RequestsName, Names, tables

LEMMA TypeNext == TypeInv /\ [Next]_vars => TypeInv'
<1> SUFFICES ASSUME TypeInv, [Next]_vars PROVE TypeInv' OBVIOUS
<1>1. CASE UNCHANGED vars
  BY <1>1 DEF vars, tables, TypeInv, TypeOK, RequestsOK, RequestsName
<1>2. CASE Crash BY <1>2, TypeCrash
<1>3. ASSUME NEW s \in Slot, Start(s) \/ Provisioning(s) \/ StoreStep(s) \/ Migration(s)
      PROVE  TypeInv'
  <2>1. CASE Start(s) BY <2>1, Starts, TypeAccepted DEF Fresh
  <2>2. CASE Provisioning(s) BY <2>2, TypeReads, TypeTenants DEF Provisioning, Reads
  <2>3. CASE StoreStep(s) BY <2>3, TypeReads, TypeStores DEF StoreStep, Reads
  <2>4. CASE Migration(s) BY <2>4, TypeReads, TypeMigration DEF Migration, Reads
  <2> QED BY <1>3, <2>1, <2>2, <2>3, <2>4
<1> QED BY <1>1, <1>2, <1>3 DEF Next

LEMMA TypeInit ==
  ASSUME Legacy \subseteq Tenant, Init
  PROVE  TypeInv
<1>1. OldTenant \in TenantRow /\ NoTenant \in TenantRow BY DEF OldTenant, NoTenant, TenantRow
<1>2. tenants = [t \in Tenant |-> IF t \in admin THEN OldTenant ELSE NoTenant] /\ stores = <<>>
      /\ admin \subseteq Tenant
  BY DEF Init
<1> HIDE DEF OldTenant, NoTenant
<1>3. tenants \in [Tenant -> TenantRow] BY <1>1, <1>2
<1>4. RequestsOK(Request) /\ RequestsName
  BY IdleIsRequest DEF Init, InitRequests, RequestsOK, RequestsName
<1> QED BY <1>2, <1>3, <1>4 DEF TypeInv, TypeOK

\* Every table and every request keeps its shape, whatever the requests, the
\* migration and the restarts interleave.
THEOREM TypeCorrect ==
  ASSUME Legacy \subseteq Tenant
  PROVE  Spec => []TypeOK
<1>1. Init => TypeInv BY TypeInit
<1>2. TypeInv => TypeOK BY DEF TypeInv
<1> QED BY <1>1, TypeNext, <1>2, PTL DEF Spec

-----------------------------------------------------------------------------
(* A final domain comes with the role Admin *)

FinalInv == TypeInv /\ FinalHasAdmin

LEMMA FinalNext == FinalInv /\ [Next]_vars => FinalInv'
<1> SUFFICES ASSUME FinalInv, [Next]_vars PROVE FinalInv' OBVIOUS
<1>1. TypeInv' /\ TypeInv /\ FinalHasAdmin BY TypeNext DEF FinalInv
<1> SUFFICES FinalHasAdmin' BY <1>1 DEF FinalInv
<1>2. CASE UNCHANGED <<tenants, admin>> BY <1>1, <1>2 DEF FinalHasAdmin
<1>3. ASSUME NEW t, Alters(t) PROVE FinalHasAdmin' BY <1>1, <1>3 DEF Alters, FinalHasAdmin
<1>4. ASSUME NEW t, Provisions(t) PROVE FinalHasAdmin'
  BY <1>1, <1>4 DEF Provisions, FinalHasAdmin
<1>5. ASSUME NEW t, Removes(t) PROVE FinalHasAdmin'
  BY <1>1, <1>5 DEF Removes, FinalHasAdmin, NoTenant, TypeInv, TypeOK
<1>6. ASSUME NEW s \in Slot, Start(s) \/ Provisioning(s) \/ StoreStep(s) \/ Migration(s),
             ~UNCHANGED <<tenants, admin>>
      PROVE  FinalHasAdmin'
  <2>1. ~Refuse(s) /\ ~Reads(s) BY <1>1, <1>6, ReadsDo DEF Refuse, tables
  <2>2. ~Start(s) BY <1>1, <1>6, Starts DEF Begin, tables
  <2>3. CASE Provisioning(s)
    BY <1>1, <1>3, <1>4, <1>5, <2>1, <2>3, AlterDoes, ProvisionDoes, RemoveTenantDoes
       DEF Provisioning, Reads
  <2>4. CASE StoreStep(s)
    BY <1>1, <1>6, <2>1, <2>4, CreateStoreDoes, UpdateStoreDoes, RemoveStoreDoes
       DEF StoreStep, Reads
  <2>5. CASE Migration(s) BY <1>1, <1>6, <2>1, <2>5, MigrationDoes DEF Migration, Reads
  <2> QED BY <1>6, <2>2, <2>3, <2>4, <2>5
<1> QED BY <1>2, <1>6 DEF Next, vars, Crash, tables

LEMMA FinalInit ==
  ASSUME Legacy \subseteq Tenant, Init
  PROVE  FinalInv
BY TypeInit DEF Init, FinalInv, FinalHasAdmin, NoTenant

\* Whatever fails, overlaps or is cut by a restart, a company whose domain is
\* final has the role Admin: the transaction that makes the one makes the
\* other, and they go together.
THEOREM FinalCorrect ==
  ASSUME Legacy \subseteq Tenant
  PROVE  Spec => []FinalHasAdmin
<1>1. Init => FinalInv BY FinalInit
<1>2. FinalInv => FinalHasAdmin BY DEF FinalInv
<1> QED BY <1>1, FinalNext, <1>2, PTL DEF Spec

-----------------------------------------------------------------------------
(* The main stores *)

LEMMA MainsAre ==
  /\ \A t : \A i : i \in MainRows(t) <=> /\ i \in DOMAIN stores /\ stores[i].state # "gone"
                                         /\ stores[i].tenant = t /\ stores[i].class = "MAIN"
  /\ \A t : \A i : i \in Live(MainRows(t)) <=> i \in MainRows(t) /\ stores[i].state = "live"
BY DEF MainRows, OfTenant, Rows, Live

LEMMA MainsAreNext ==
  /\ \A t : \A i : i \in MainRows(t)' <=> /\ i \in DOMAIN stores' /\ stores'[i].state # "gone"
                                          /\ stores'[i].tenant = t /\ stores'[i].class = "MAIN"
  /\ \A t : \A i : i \in Live(MainRows(t))' <=> i \in MainRows(t)' /\ stores'[i].state = "live"
BY DEF MainRows, OfTenant, Rows, Live

\* A main store is added, ...
LEMMA MainsInserted ==
  ASSUME NEW t, NEW c, Inserts(t, c)
  PROVE  LET k == Len(stores) + 1
         IN  \A u : /\ MainRows(u)' = IF u = t /\ c = "MAIN" THEN MainRows(u) \cup {k}
                                      ELSE MainRows(u)
                    /\ Live(MainRows(u))' = IF u = t /\ c = "MAIN" THEN Live(MainRows(u)) \cup {k}
                                            ELSE Live(MainRows(u))
<1> DEFINE k == Len(stores) + 1
<1>1. /\ DOMAIN stores' = DOMAIN stores \cup {k} /\ k \notin DOMAIN stores
      /\ \A j \in DOMAIN stores : stores'[j] = stores[j]
      /\ stores'[k].tenant = t /\ stores'[k].class = c /\ stores'[k].state = "live"
  BY DEF Inserts, NewStore
<1> HIDE DEF k
<1>2. ASSUME NEW u
      PROVE  /\ MainRows(u)' = IF u = t /\ c = "MAIN" THEN MainRows(u) \cup {k}
                               ELSE MainRows(u)
             /\ Live(MainRows(u))' = IF u = t /\ c = "MAIN" THEN Live(MainRows(u)) \cup {k}
                                     ELSE Live(MainRows(u))
  <2>1. \A i : i \in MainRows(u)' <=> i \in MainRows(u) \/ (i = k /\ u = t /\ c = "MAIN")
    BY <1>1, MainsAre, MainsAreNext
  <2>2. \A i : i \in Live(MainRows(u))' <=>
                 i \in Live(MainRows(u)) \/ (i = k /\ u = t /\ c = "MAIN")
    BY <1>1, <2>1, MainsAre, MainsAreNext
  <2> QED BY <2>1, <2>2
<1> QED BY <1>2 DEF k

\* ... a row is written, ...
LEMMA MainsRewritten ==
  ASSUME NEW i, NEW c, NEW state, state # "gone", Rewrites(i, c, state)
  PROVE  \A u :
           /\ MainRows(u)' = IF u # stores[i].tenant THEN MainRows(u)
                             ELSE IF c = "MAIN" THEN MainRows(u) \cup {i}
                             ELSE MainRows(u) \ {i}
           /\ Live(MainRows(u))' = IF u # stores[i].tenant THEN Live(MainRows(u))
                                   ELSE IF c = "MAIN" /\ state = "live"
                                   THEN Live(MainRows(u)) \cup {i}
                                   ELSE Live(MainRows(u)) \ {i}
<1>1. /\ i \in DOMAIN stores /\ DOMAIN stores' = DOMAIN stores
      /\ \A j \in DOMAIN stores \ {i} : stores'[j] = stores[j]
      /\ stores'[i].tenant = stores[i].tenant /\ stores'[i].class = c /\ stores'[i].state = state
  BY DEF Rewrites, Rows
<1>2. ASSUME NEW u
      PROVE  /\ MainRows(u)' = IF u # stores[i].tenant THEN MainRows(u)
                               ELSE IF c = "MAIN" THEN MainRows(u) \cup {i}
                               ELSE MainRows(u) \ {i}
             /\ Live(MainRows(u))' = IF u # stores[i].tenant THEN Live(MainRows(u))
                                     ELSE IF c = "MAIN" /\ state = "live"
                                     THEN Live(MainRows(u)) \cup {i}
                                     ELSE Live(MainRows(u)) \ {i}
  <2>1. \A j : j \in MainRows(u)' <=>
                 IF j = i THEN u = stores[i].tenant /\ c = "MAIN" ELSE j \in MainRows(u)
    BY <1>1, MainsAre, MainsAreNext
  <2>2. \A j : j \in Live(MainRows(u))' <=>
                 IF j = i THEN u = stores[i].tenant /\ c = "MAIN" /\ state = "live"
                 ELSE j \in Live(MainRows(u))
    BY <1>1, <2>1, MainsAre, MainsAreNext
  <2>3. u # stores[i].tenant => i \notin MainRows(u) /\ i \notin Live(MainRows(u)) BY MainsAre
  <2> QED BY <2>1, <2>2, <2>3
<1> QED BY <1>2

\* ... or all the rows of a tenant go.
LEMMA MainsRemoved ==
  ASSUME TypeInv, NEW t, Removes(t)
  PROVE  \A u : /\ MainRows(u)' = IF u = t THEN {} ELSE MainRows(u)
                /\ Live(MainRows(u))' = IF u = t THEN {} ELSE Live(MainRows(u))
<1>1. \A j \in DOMAIN stores : stores[j] \in StoreRow BY RowsAreRows
<1>2. \A j \in DOMAIN stores :
        /\ stores'[j].tenant = stores[j].tenant /\ stores'[j].class = stores[j].class
        /\ stores'[j].state = IF stores[j].tenant = t THEN "gone" ELSE stores[j].state
  BY <1>1 DEF Removes, StoreRow
<1>3. DOMAIN stores' = DOMAIN stores BY DEF Removes
<1>4. ASSUME NEW u
      PROVE  /\ MainRows(u)' = IF u = t THEN {} ELSE MainRows(u)
             /\ Live(MainRows(u))' = IF u = t THEN {} ELSE Live(MainRows(u))
  <2>1. \A j : j \in MainRows(u)' <=> u # t /\ j \in MainRows(u)
    BY <1>2, <1>3, MainsAre, MainsAreNext
  <2>2. \A j : j \in Live(MainRows(u))' <=> u # t /\ j \in Live(MainRows(u))
    BY <1>2, <1>3, <2>1, MainsAre, MainsAreNext
  <2> QED BY <2>1, <2>2
<1> QED BY <1>4

LEMMA MainsSame ==
  ASSUME UNCHANGED stores
  PROVE  \A u : MainRows(u)' = MainRows(u) /\ Live(MainRows(u))' = Live(MainRows(u))
BY DEF MainRows, OfTenant, Rows, Live

-----------------------------------------------------------------------------
(* One main store, and always one *)

\* What StoreInv says of the tables, without an overlap.
Mains == OneIsMain /\ MainIsLive /\ AdminHasMain

LEMMA MainsKept ==
  ASSUME Mains, UNCHANGED stores, admin' \subseteq admin
  PROVE  Mains'
BY MainsSame DEF Mains, OneIsMain, MainIsLive, AdminHasMain

\* A main store is added where none works.
LEMMA MainAdded ==
  ASSUME Mains, NEW t \in Tenant, Inserts(t, "MAIN"), Live(MainRows(t)) = {},
         admin' \subseteq admin \cup {t}
  PROVE  Mains' /\ Live(MainRows(t))' # {}
<1> DEFINE k == Len(stores) + 1
<1>1. \A u : /\ MainRows(u)' = IF u = t THEN MainRows(u) \cup {k} ELSE MainRows(u)
             /\ Live(MainRows(u))' = IF u = t THEN Live(MainRows(u)) \cup {k}
                                     ELSE Live(MainRows(u))
  BY MainsInserted
<1> HIDE DEF k
<1>2. OneIsMain' BY <1>1 DEF Mains, OneIsMain
<1>3. MainIsLive' BY <1>1 DEF Mains, MainIsLive
<1>4. AdminHasMain' BY <1>1 DEF Mains, AdminHasMain
<1> QED BY <1>1, <1>2, <1>3, <1>4 DEF Mains

LEMMA MainProvisioned ==
  ASSUME Mains, NullMatchesUnset, NEW t, Provisions(t)
  PROVE  Mains'
<1>1. t \in Tenant /\ admin' = admin \cup {t} /\ NotDeleted(MainRows(t)) = Live(MainRows(t))
  BY DEF Provisions, NotDeleted
<1>2. CASE Inserts(t, "MAIN") /\ NotDeleted(MainRows(t)) = {} BY <1>1, <1>2, MainAdded
<1>3. CASE UNCHANGED stores /\ NotDeleted(MainRows(t)) # {}
  <2>1. Live(MainRows(t)) # {} /\ Live(MainRows(t)) \subseteq MainRows(t)
    BY <1>1, <1>3 DEF Live
  <2> QED BY <1>1, <1>3, <2>1, MainsSame DEF Mains, OneIsMain, MainIsLive, AdminHasMain
<1> QED BY <1>2, <1>3 DEF Provisions

LEMMA MainTenantRemoved ==
  ASSUME Mains, TypeInv, NEW t, Removes(t)
  PROVE  Mains'
<1>1. admin' = admin \ {t} BY DEF Removes
<1> QED BY <1>1, MainsRemoved DEF Mains, OneIsMain, MainIsLive, AdminHasMain

LEMMA MainCreated ==
  ASSUME Mains, TypeInv, NEW s \in Slot, Knows(req[s]), CreateStoreWrite(s), ~Refuse(s)
  PROVE  Mains'
<1> DEFINE t == TenantOf(s)
<1>1. /\ Running(s, "createStore", "write") /\ t \in Tenant /\ Inserts(t, req[s].class)
      /\ UNCHANGED admin
  BY CreateStoreDoes
<1>2. CASE req[s].class = "MAIN"
  <2>1. MainRows(t) = {} BY <1>1, <1>2 DEF Knows, CreateKnows, About, TenantOf, Running
  <2>2. Live(MainRows(t)) = {} BY <2>1 DEF Live
  <2> QED BY <1>1, <1>2, <2>2, MainAdded
<1>3. CASE req[s].class # "MAIN"
  <2>1. \A u : MainRows(u)' = MainRows(u) /\ Live(MainRows(u))' = Live(MainRows(u))
    BY <1>1, <1>3, MainsInserted
  <2> QED BY <1>1, <2>1 DEF Mains, OneIsMain, MainIsLive, AdminHasMain
<1> QED BY <1>2, <1>3

LEMMA MainUpdated ==
  ASSUME Mains, TypeInv, NEW s \in Slot, Knows(req[s]), UpdateStoreWrite(s), ~Refuse(s)
  PROVE  Mains'
<1>0. PICK i, t, c : i = req[s].store /\ t = stores[i].tenant /\ c = req[s].class OBVIOUS
<1>1. /\ Running(s, "updateStore", "write") /\ Rewrites(i, c, stores[i].state)
      /\ UNCHANGED admin /\ i \in Rows
  BY <1>0, UpdateStoreDoes DEF Rewrites
<1>2. i \in DOMAIN stores /\ stores[i].state # "gone" BY <1>1 DEF Rows
<1>3. t = About(req[s]) /\ req[s].was = stores[i].class /\ t \in admin
  BY <1>0, <1>1 DEF Knows, UpdateKnows, ManagerKnows, Running
<1>4. /\ stores[i].class = "MAIN" /\ c # "MAIN" => MainRows(t) \ {i} # {}
      /\ stores[i].class # "MAIN" /\ c = "MAIN" => MainRows(t) \ {i} = {}
  BY <1>0, <1>1, <1>3 DEF Knows, UpdateKnows, Others, Running
<1>5. \A u : /\ MainRows(u)' = IF u # t THEN MainRows(u)
                               ELSE IF c = "MAIN" THEN MainRows(u) \cup {i}
                               ELSE MainRows(u) \ {i}
             /\ Live(MainRows(u))' = IF u # t THEN Live(MainRows(u))
                                     ELSE IF c = "MAIN" /\ stores[i].state = "live"
                                     THEN Live(MainRows(u)) \cup {i}
                                     ELSE Live(MainRows(u)) \ {i}
  BY <1>0, <1>1, <1>2, MainsRewritten
<1>6. /\ i \in MainRows(t) <=> stores[i].class = "MAIN"
      /\ i \in Live(MainRows(t)) <=> stores[i].class = "MAIN" /\ stores[i].state = "live"
      /\ Live(MainRows(t)) \subseteq MainRows(t)
  BY <1>0, <1>2, MainsAre
<1>7. CASE c # "MAIN"
  <2>1. \A u : /\ MainRows(u)' = IF u # t THEN MainRows(u) ELSE MainRows(u) \ {i}
               /\ Live(MainRows(u))' = IF u # t THEN Live(MainRows(u))
                                       ELSE Live(MainRows(u)) \ {i}
    BY <1>5, <1>7
  <2>2. MainRows(t) # {} => MainRows(t) \ {i} # {} BY <1>4, <1>6, <1>7
  <2>3. OneIsMain' BY <2>1 DEF Mains, OneIsMain
  <2>4. MainIsLive' BY <2>1 DEF Mains, MainIsLive
  <2>5. AdminHasMain' BY <1>1, <2>1, <2>2 DEF Mains, AdminHasMain
  <2> QED BY <2>3, <2>4, <2>5 DEF Mains
<1>8. CASE c = "MAIN" /\ stores[i].class = "MAIN"
  <2>1. \A u : MainRows(u)' = MainRows(u) /\ Live(MainRows(u))' = Live(MainRows(u))
    BY <1>5, <1>6, <1>8
  <2> QED BY <1>1, <2>1 DEF Mains, OneIsMain, MainIsLive, AdminHasMain
<1>9. CASE c = "MAIN" /\ stores[i].class # "MAIN"
  <2>1. MainRows(t) = {} /\ Live(MainRows(t)) = {} BY <1>4, <1>6, <1>9
  <2>2. t \in Tenant => t \in Legacy BY <1>3, <2>1 DEF Mains, AdminHasMain
  <2>3. \A u : /\ MainRows(u)' = IF u # t THEN MainRows(u) ELSE {i}
               /\ u # t => Live(MainRows(u))' = Live(MainRows(u))
               /\ Live(MainRows(t))' \subseteq {i}
    BY <1>5, <1>9, <2>1
  <2>4. OneIsMain'
    <3> SUFFICES ASSUME NEW u \in Tenant, NEW j \in Live(MainRows(u))', NEW k \in Live(MainRows(u))'
                 PROVE  j = k
      BY DEF OneIsMain
    <3>1. CASE u = t BY <2>3, <3>1
    <3>2. CASE u # t BY <2>3, <3>2 DEF Mains, OneIsMain
    <3> QED BY <3>1, <3>2
  <2>5. MainIsLive' BY <2>2, <2>3 DEF Mains, MainIsLive
  <2>6. AdminHasMain' BY <1>1, <2>2, <2>3 DEF Mains, AdminHasMain
  <2> QED BY <2>4, <2>5, <2>6 DEF Mains
<1> QED BY <1>7, <1>8, <1>9

LEMMA MainStoreRemoved ==
  ASSUME Mains, TypeInv, NEW s \in Slot, Knows(req[s]), RemoveStoreWrite(s), ~Refuse(s)
  PROVE  Mains'
<1>0. PICK i, t, c : i = req[s].store /\ t = stores[i].tenant /\ c = stores[i].class OBVIOUS
<1>1. /\ Running(s, "removeStore", "write") /\ Rewrites(i, c, "removed")
      /\ UNCHANGED admin /\ i \in Rows
  BY <1>0, RemoveStoreDoes DEF Rewrites
<1>2. i \in DOMAIN stores /\ stores[i].state # "gone" BY <1>1 DEF Rows
<1>3. t = About(req[s]) BY <1>0, <1>1 DEF Knows, RemoveKnows, Running
<1>4. c = "MAIN" => MainRows(t) \ {i} # {}
  BY <1>0, <1>1, <1>3 DEF Knows, RemoveKnows, Others, Running
<1>5. /\ \A u : MainRows(u)' = IF u # t THEN MainRows(u)
                               ELSE IF c = "MAIN" THEN MainRows(u) \cup {i}
                               ELSE MainRows(u) \ {i}
      /\ \A u : Live(MainRows(u))' = IF u # t THEN Live(MainRows(u))
                                     ELSE Live(MainRows(u)) \ {i}
  BY <1>0, <1>1, MainsRewritten
<1>6. (i \in MainRows(t) <=> c = "MAIN") /\ Live(MainRows(t)) \subseteq MainRows(t)
  BY <1>0, <1>2, MainsAre
<1>7. \A u : MainRows(u)' = MainRows(u) BY <1>5, <1>6
<1>8. OneIsMain' BY <1>5 DEF Mains, OneIsMain
<1>9. AdminHasMain' BY <1>1, <1>7 DEF Mains, AdminHasMain
<1>10. MainIsLive'
  <2>1. ASSUME t \in Tenant \ Legacy PROVE i \notin MainRows(t)
    <3>1. MainRows(t) = Live(MainRows(t)) BY <2>1 DEF Mains, MainIsLive
    <3>2. \A j, k \in MainRows(t) : j = k BY <2>1, <3>1 DEF Mains, OneIsMain
    <3> QED BY <1>4, <1>6, <3>2
  <2>2. t \in Tenant \ Legacy => Live(MainRows(t))' = Live(MainRows(t)) BY <1>5, <1>6, <2>1
  <2>3. \A u : u # t => Live(MainRows(u))' = Live(MainRows(u)) BY <1>5
  <2> QED BY <1>7, <2>2, <2>3 DEF Mains, MainIsLive
<1> QED BY <1>8, <1>9, <1>10 DEF Mains

LEMMA MainMigrated ==
  ASSUME Mains, TypeInv, NEW s \in Slot, Knows(req[s]), MigrationWrite(s)
  PROVE  Mains'
<1>1. PICK t \in req[s].tenants :
        /\ t \in Tenant /\ Running(s, "migration", "write")
        /\ Inserts(t, "MAIN") \/ UNCHANGED stores
        /\ UNCHANGED admin
  BY MigrationDoes
<1>2. Live(MainRows(t)) = {} BY <1>1 DEF Knows, MigrationKnows, Running
<1> QED BY <1>1, <1>2, MainAdded, MainsKept

-----------------------------------------------------------------------------
(* What a request knows when it runs alone *)

Apart == ~overlap /\ NullMatchesUnset

LEMMA KnowsSame ==
  ASSUME NEW r, Knows(r), UNCHANGED tables
  PROVE  Knows(r)'
<1>1. UNCHANGED <<tenants, admin, stores>> BY DEF tables
<1>2. \A u : MainRows(u)' = MainRows(u) /\ Live(MainRows(u))' = Live(MainRows(u))
  BY <1>1, MainsSame
<1>3. Rows' = Rows BY <1>1 DEF Rows
<1>5. ManagerKnows(r)' BY <1>1 DEF Knows, ManagerKnows
<1>6. CreateKnows(r)' BY <1>1, <1>2 DEF Knows, CreateKnows
<1>7. UpdateKnows(r)' BY <1>1, <1>2, <1>3 DEF Knows, UpdateKnows, Others
<1>8. RemoveKnows(r)' BY <1>1, <1>2, <1>3 DEF Knows, RemoveKnows, Others
<1>9. MigrationKnows(r)' BY <1>1, <1>2 DEF Knows, MigrationKnows
<1> QED BY <1>5, <1>6, <1>7, <1>8, <1>9 DEF Knows

\* Requests about tenants, and slots without one, know nothing of the stores.
LEMMA KnowsNothing ==
  ASSUME NEW r, r.op \in {"idle", "createTenant", "agreedAmount", "updateTenant", "removeTenant"}
  PROVE  Knows(r) /\ Knows(r)'
BY DEF Knows, ManagerKnows, CreateKnows, UpdateKnows, RemoveKnows, MigrationKnows

LEMMA KnowsFresh ==
  ASSUME NEW r, Fresh(r)
  PROVE  Knows(r)
BY DEF Fresh, Manager, Knows, ManagerKnows, CreateKnows, UpdateKnows, RemoveKnows,
   MigrationKnows

\* Without an overlap, the request of slot s is the only one.
LEMMA KnowsOfOne ==
  ASSUME TypeInv, Alone, ~overlap, NEW s \in Slot, NEW r, req' = [req EXCEPT ![s] = r],
         Busy(s) \/ \A o \in Slot \ {s} : ~Busy(o), Knows(r)'
  PROVE  \A o \in Slot : Knows(req[o])'
<1>1. req' [s] = r /\ \A o \in Slot \ {s} : req'[o] = req[o] BY TypeFacts
<1>2. \A o \in Slot \ {s} : ~Busy(o) BY DEF Alone
<1>3. ASSUME NEW o \in Slot PROVE Knows(req[o])'
  <2>1. CASE o = s
    <3>1. req'[o] = r BY <1>1, <2>1
    <3> QED BY <3>1 DEF Knows, ManagerKnows, CreateKnows, UpdateKnows, RemoveKnows,
            MigrationKnows, About, Others
  <2>2. CASE o # s
    <3>1. req'[o].op = "idle" BY <1>1, <1>2, <2>2 DEF Busy
    <3> QED BY <3>1 DEF Knows, ManagerKnows, CreateKnows, UpdateKnows, RemoveKnows,
            MigrationKnows
  <2> QED BY <2>1, <2>2
<1> QED BY <1>3

\* What the reads teach.
LEMMA KnowsRead ==
  ASSUME TypeInv, Apart, NEW s \in Slot, Knows(req[s]), Reads(s)
  PROVE  \E r : Becomes(s, r) /\ Knows(r) /\ r.op \in {"idle", req[s].op}
<1>1. req[s] \in Request BY TypeFacts
<1> DEFINE r(a) == [req[s] EXCEPT !.at = a]
<1>2. \A a : /\ r(a).op = req[s].op /\ r(a).at = a /\ r(a).tenants = req[s].tenants
             /\ r(a).store = req[s].store /\ r(a).class = req[s].class /\ r(a).was = req[s].was
  BY <1>1 DEF Request
<1>3. \A a : Goto(s, a) => Becomes(s, r(a)) BY DEF Goto, Set, Becomes
<1> HIDE DEF r
<1>4. \A a : About(r(a)) = About(req[s]) /\ Others(r(a)) = Others(req[s])
  BY <1>2 DEF About, Others
<1> USE DEF Running
<1>5. CASE Finish(s)
  <2>1. Becomes(s, Idle) BY <1>5 DEF Finish, Becomes
  <2> QED BY <2>1, IdleIsRequest, KnowsNothing
<1>6. CASE Running(s, "createTenant", "find") /\ Goto(s, "write")
  <2>1. Knows(r("write")) BY <1>2, <1>6, KnowsNothing
  <2> QED BY <1>2, <1>3, <1>6, <2>1
<1>7. ASSUME req[s].op = "createStore", NEW a \in {"name", "main", "write"}, Goto(s, a),
             a = "write" => req[s].class # "MAIN" \/ MainRows(TenantOf(s)) = {}
      PROVE  \E q : Becomes(s, q) /\ Knows(q) /\ q.op \in {"idle", req[s].op}
  <2>1. TenantOf(s) = About(req[s]) BY DEF TenantOf, About
  <2>2. CreateKnows(r(a)) BY <1>2, <1>4, <1>7, <2>1 DEF CreateKnows
  <2>3. ManagerKnows(r(a)) BY <1>2, <1>4, <1>7 DEF ManagerKnows, Knows
  <2>4. Knows(r(a)) BY <1>2, <1>7, <2>2, <2>3 DEF Knows, UpdateKnows, RemoveKnows, MigrationKnows
  <2> QED BY <1>2, <1>3, <1>7, <2>4
<1>8. CASE Running(s, "updateStore", "find") /\ req[s].store \in Rows /\ Becomes(s, Read(s))
  <2> DEFINE q == Read(s)
  <2>1. /\ q.op = "updateStore" /\ q.at \in {"name", "main"} /\ q.tenants = req[s].tenants
        /\ q.store = req[s].store /\ q.class = req[s].class /\ q.was = stores[req[s].store].class
    BY <1>1, <1>8 DEF Read, Request
  <2>2. About(q) = About(req[s]) BY <2>1 DEF About
  <2> HIDE DEF q
  <2>3. UpdateKnows(q) BY <1>8, <2>1, <2>2 DEF UpdateKnows, Knows
  <2>4. ManagerKnows(q) BY <1>8, <2>1, <2>2 DEF ManagerKnows, Knows
  <2>5. Knows(q) BY <2>1, <2>3, <2>4 DEF Knows, CreateKnows, RemoveKnows, MigrationKnows
  <2> QED BY <1>8, <2>1, <2>5 DEF q
<1>9. ASSUME req[s].op = "updateStore", req[s].at \in {"name", "main"},
             NEW a \in {"main", "write"}, Goto(s, a),
             a = "write" =>
               /\ req[s].was = "MAIN" /\ req[s].class # "MAIN" => Others(req[s]) # {}
               /\ req[s].was # "MAIN" /\ req[s].class = "MAIN" => Others(req[s]) = {}
      PROVE  \E q : Becomes(s, q) /\ Knows(q) /\ q.op \in {"idle", req[s].op}
  <2>1. UpdateKnows(r(a)) BY <1>2, <1>4, <1>9 DEF UpdateKnows, Knows
  <2>2. ManagerKnows(r(a)) BY <1>2, <1>4, <1>9 DEF ManagerKnows, Knows
  <2>3. Knows(r(a)) BY <1>2, <1>9, <2>1, <2>2 DEF Knows, CreateKnows, RemoveKnows, MigrationKnows
  <2> QED BY <1>2, <1>3, <1>9, <2>3
<1>10. ASSUME req[s].op = "removeStore", NEW a \in {"main", "write"}, Goto(s, a),
              a = "write" => stores[req[s].store].class # "MAIN" \/ Others(req[s]) # {}
       PROVE  \E q : Becomes(s, q) /\ Knows(q) /\ q.op \in {"idle", req[s].op}
  <2>1. RemoveKnows(r(a)) BY <1>2, <1>4, <1>10 DEF RemoveKnows, Knows
  <2>2. ManagerKnows(r(a)) BY <1>2, <1>4, <1>10 DEF ManagerKnows, Knows
  <2>3. Knows(r(a)) BY <1>2, <1>10, <2>1, <2>2 DEF Knows, CreateKnows, UpdateKnows, MigrationKnows
  <2> QED BY <1>2, <1>3, <1>10, <2>3
<1>11. CASE Running(s, "migration", "find") /\ Becomes(s, Listed(s))
  <2> DEFINE q == Listed(s)
             T == {t \in Tenant : tenants[t].exists /\ NotDeleted(MainRows(t)) = {}}
  <2>1. q.op = "migration" /\ q.tenants = T BY <1>1, <1>11 DEF Listed, Request, Unserved
  <2>2. \A t : NotDeleted(MainRows(t)) = Live(MainRows(t)) BY DEF NotDeleted, Apart
  <2>3. \A t : t \in T <=> t \in Tenant /\ tenants[t].exists /\ Live(MainRows(t)) = {} BY <2>2
  <2> HIDE DEF q, T
  <2>4. MigrationKnows(q) BY <2>1, <2>3 DEF MigrationKnows
  <2>5. Knows(q) BY <2>1, <2>4 DEF Knows, ManagerKnows, CreateKnows, UpdateKnows, RemoveKnows
  <2> QED BY <1>11, <2>1, <2>5 DEF q
<1> QED BY <1>5, <1>6, <1>7, <1>8, <1>9, <1>10, <1>11, ReadsDo

LEMMA KnowsMigrated ==
  ASSUME TypeInv, NEW s \in Slot, Knows(req[s]), MigrationWrite(s)
  PROVE  \E r : Becomes(s, r) /\ Knows(r)' /\ r.op = req[s].op /\ Busy(s)
<1>1. PICK t \in req[s].tenants :
        /\ t \in Tenant /\ Running(s, "migration", "write")
        /\ \/ Inserts(t, "MAIN") /\ Becomes(s, Served(req[s], t))
           \/ UNCHANGED stores /\ Becomes(s, Logged(req[s], t))
        /\ UNCHANGED <<tenants, admin>>
  BY MigrationDoes
<1>2. PICK r : /\ Becomes(s, r)
               /\ \/ Inserts(t, "MAIN") /\ r = Served(req[s], t)
                  \/ UNCHANGED stores /\ r = Logged(req[s], t)
  BY <1>1
<1>3. /\ r.op = "migration" /\ r.at = "write" /\ r.tenants = req[s].tenants \ {t}
      /\ r.op = req[s].op /\ Busy(s) /\ req[s].failed \subseteq r.failed
      /\ Inserts(t, "MAIN") \/ t \in r.failed
  BY <1>1, <1>2, TypeFacts DEF Request, Running, Busy, Served, Logged
<1>4. /\ \A u \in req[s].tenants : Live(MainRows(u)) = {}
      /\ \A u \in Tenant : tenants[u].exists /\ Live(MainRows(u)) = {} =>
           u \in req[s].tenants \cup req[s].failed
  BY <1>1 DEF Knows, MigrationKnows, Running
<1>5. \A u : u # t => Live(MainRows(u))' = Live(MainRows(u))
  BY <1>1, MainsInserted, MainsSame
<1>6. Live(MainRows(t))' # {} \/ t \in r.failed
  <2>1. Inserts(t, "MAIN") => Live(MainRows(t))' # {} BY MainsInserted
  <2> QED BY <1>3, <2>1
<1>7. \A u \in r.tenants : Live(MainRows(u))' = {} BY <1>3, <1>4, <1>5
<1>8. \A u \in Tenant : tenants'[u].exists /\ Live(MainRows(u))' = {} =>
        u \in r.tenants \cup r.failed
  BY <1>1, <1>3, <1>4, <1>5, <1>6
<1>9. MigrationKnows(r)' BY <1>3, <1>7, <1>8 DEF MigrationKnows
<1>10. Knows(r)' BY <1>3, <1>9 DEF Knows, ManagerKnows, CreateKnows, UpdateKnows, RemoveKnows
<1> QED BY <1>2, <1>3, <1>10

-----------------------------------------------------------------------------
(* The main stores, step by step *)

LEMMA AloneKept ==
  ASSUME Alone, TypeInv, NEW s \in Slot, NEW r, Becomes(s, r), r.op \in {"idle", req[s].op}
  PROVE  Alone'
<1>1. req'[s] = r /\ \A o \in Slot \ {s} : req'[o] = req[o] BY TypeFacts DEF Becomes
<1>2. \A o \in Slot : Busy(o)' => Busy(o) BY <1>1 DEF Busy
<1> QED BY <1>2 DEF Alone, Becomes

LEMMA AloneAccepted ==
  ASSUME TypeInv, NEW s \in Slot, NEW r, Begin(s, r)
  PROVE  /\ Alone' /\ (~overlap' => ~overlap /\ \A o \in Slot \ {s} : ~Busy(o))
         /\ req' = [req EXCEPT ![s] = r] /\ UNCHANGED tables
<1>1. req \in [Slot -> Request] /\ overlap \in BOOLEAN BY TypeFacts
<1>2. /\ req' = [req EXCEPT ![s] = r] /\ UNCHANGED tables
      /\ overlap' = (overlap \/ \E o \in Slot \ {s} : Busy(o))
  BY DEF Begin, Accept
<1>3. \A o \in Slot \ {s} : req'[o] = req[o] BY <1>1, <1>2
<1>4. ~overlap' => ~overlap /\ \A o \in Slot \ {s} : ~Busy(o) BY <1>1, <1>2
<1>5. Alone' BY <1>3, <1>4 DEF Alone, Busy
<1> QED BY <1>2, <1>4, <1>5

\* What all requests know.
AllKnow == \A s \in Slot : Knows(req[s])

LEMMA KnowsItself ==
  ASSUME NEW o, NEW r, req'[o] = r, Knows(r)'
  PROVE  Knows(req[o])'
BY DEF Knows, ManagerKnows, CreateKnows, UpdateKnows, RemoveKnows, MigrationKnows, About, Others

\* A step that writes nothing.
LEMMA KnowsStill ==
  ASSUME TypeInv, AllKnow, NEW s \in Slot, NEW r, req' = [req EXCEPT ![s] = r], Knows(r),
         UNCHANGED tables
  PROVE  AllKnow'
<1> SUFFICES ASSUME NEW o \in Slot PROVE Knows(req[o])' BY DEF AllKnow
<1>1. PICK q : q = IF o = s THEN r ELSE req[o] OBVIOUS
<1>2. req'[o] = q BY <1>1, TypeFacts
<1>3. Knows(q) BY <1>1 DEF AllKnow
<1>4. Knows(q)' BY <1>3, KnowsSame
<1> QED BY <1>2, <1>4, KnowsItself

LEMMA StoreReads ==
  ASSUME StoreInv, NEW s \in Slot, Reads(s)
  PROVE  Alone' /\ UNCHANGED overlap /\ (Apart => AllKnow' /\ Mains')
<1>1. TypeInv /\ Alone /\ (Apart => AllKnow /\ Mains)
  BY DEF StoreInv, Apart, AllKnow, Mains
<1>2. UNCHANGED tables BY <1>1, ReadsDo
<1>3. CASE Apart
  <2>1. PICK r : Becomes(s, r) /\ Knows(r) /\ r.op \in {"idle", req[s].op}
    BY <1>1, <1>3, KnowsRead DEF AllKnow
  <2>2. AllKnow' BY <1>1, <1>2, <1>3, <2>1, KnowsStill DEF Becomes
  <2>3. Mains' BY <1>1, <1>2, <1>3, MainsKept DEF tables
  <2> QED BY <1>1, <2>1, <2>2, <2>3, AloneKept DEF Becomes
<1>4. CASE ~Apart
  <2>1. \E r : Becomes(s, r) /\ r.op \in {"idle", req[s].op}
    <3>1. req[s] \in Request BY <1>1, TypeFacts
    <3>2. \A a : [req[s] EXCEPT !.at = a].op = req[s].op BY <3>1 DEF Request
    <3>3. \A a : Goto(s, a) => Becomes(s, [req[s] EXCEPT !.at = a]) BY DEF Goto, Set, Becomes
    <3>4. Finish(s) => Becomes(s, Idle) /\ Idle.op = "idle" BY DEF Finish, Becomes, Idle
    <3>5. Read(s).op = req[s].op /\ Listed(s).op = req[s].op BY <3>1 DEF Request, Read, Listed
    <3> QED BY <1>1, <3>2, <3>3, <3>4, <3>5, ReadsDo
  <2> QED BY <1>1, <1>4, <2>1, AloneKept DEF Becomes
<1> QED BY <1>3, <1>4

\* A step that writes is a step of the only request.
LEMMA StoreWrote ==
  ASSUME TypeInv, Alone, NEW s \in Slot, Busy(s), NEW r, Becomes(s, r),
         r.op \in {"idle", req[s].op}, Apart => Knows(r)' /\ Mains'
  PROVE  Alone' /\ UNCHANGED overlap /\ (Apart => AllKnow' /\ Mains')
<1>1. Alone' /\ UNCHANGED overlap BY AloneKept DEF Becomes
<1>2. CASE Apart
  <2>1. Knows(r)' /\ Mains' BY <1>2
  <2>2. AllKnow' BY <1>2, <2>1, KnowsOfOne DEF Becomes, AllKnow, Apart
  <2> QED BY <1>1, <2>1, <2>2
<1> QED BY <1>1, <1>2

LEMMA StoreEnds ==
  ASSUME TypeInv, Alone, NEW s \in Slot, Busy(s), Finish(s), Apart => Mains'
  PROVE  Alone' /\ UNCHANGED overlap /\ (Apart => AllKnow' /\ Mains')
<1>1. Becomes(s, Idle) /\ Idle.op = "idle" BY DEF Finish, Becomes, Idle
<1>2. PICK r : r = Idle OBVIOUS
<1>3. Knows(r)' BY <1>1, <1>2, KnowsNothing
<1> QED BY <1>1, <1>2, <1>3, StoreWrote

LEMMA StoreRefused ==
  ASSUME StoreInv, NEW s \in Slot, Refuse(s)
  PROVE  Alone' /\ UNCHANGED overlap /\ (Apart => AllKnow' /\ Mains')
<1>1. TypeInv /\ Alone /\ (Apart => AllKnow /\ Mains)
  BY DEF StoreInv, Apart, AllKnow, Mains
<1>2. Becomes(s, Idle) /\ Idle.op = "idle" /\ UNCHANGED tables
  BY DEF Refuse, Finish, Becomes, Idle
<1>3. Knows(Idle) BY <1>2, KnowsNothing
<1>4. Apart => AllKnow' BY <1>1, <1>2, <1>3, KnowsStill DEF Becomes
<1>5. Apart => Mains' BY <1>1, <1>2, MainsKept DEF tables
<1> QED BY <1>1, <1>2, <1>4, <1>5, AloneKept DEF Becomes

Writes(s) ==
  \/ CreateTenantWrite(s) \/ CreateTenantProvision(s) \/ AgreedAmountFind(s)
  \/ AgreedAmountProvision(s) \/ ChangeTenant(s) \/ RemoveTenant(s) \/ CreateStoreWrite(s)
  \/ UpdateStoreWrite(s) \/ RemoveStoreWrite(s) \/ MigrationWrite(s)

LEMMA StoreWrites ==
  ASSUME StoreInv, NEW s \in Slot, Writes(s)
  PROVE  Alone' /\ UNCHANGED overlap /\ (Apart => AllKnow' /\ Mains')
<1>1. TypeInv /\ Alone /\ (Apart => Mains /\ Knows(req[s]) /\ NullMatchesUnset)
  BY DEF StoreInv, Apart, Mains
<1>2. CASE Refuse(s) BY <1>2, StoreRefused
<1>3. CASE (CreateTenantWrite(s) \/ AgreedAmountFind(s) \/ ChangeTenant(s)) /\ ~Refuse(s)
  <2>1. /\ Alters(TenantOf(s)) /\ (Finish(s) \/ Goto(s, "provision"))
        /\ req[s].op \in {"createTenant", "agreedAmount", "updateTenant"}
    BY <1>1, <1>3, AlterDoes
  <2>2. Apart => Mains' BY <1>1, <2>1, MainsKept DEF Alters
  <2>3. Busy(s) BY <2>1 DEF Busy
  <2>4. CASE Goto(s, "provision")
    <3>1. PICK r : r = [req[s] EXCEPT !.at = "provision"] OBVIOUS
    <3>2. Becomes(s, r) BY <2>4, <3>1 DEF Goto, Set, Becomes
    <3>3. r.op = req[s].op BY <1>1, <3>1, TypeFacts DEF Request
    <3>4. Knows(r)' BY <2>1, <3>3, KnowsNothing
    <3> QED BY <1>1, <2>2, <2>3, <3>2, <3>3, <3>4, StoreWrote
  <2> QED BY <1>1, <2>1, <2>2, <2>3, <2>4, StoreEnds
<1>4. CASE CreateTenantProvision(s) \/ AgreedAmountProvision(s)
  <2>1. Provisions(TenantOf(s)) /\ Finish(s) BY <1>1, <1>4, ProvisionDoes
  <2>2. Apart => Mains' BY <1>1, <2>1, MainProvisioned
  <2>3. Busy(s) BY <1>4 DEF Busy, CreateTenantProvision, AgreedAmountProvision, Running
  <2> QED BY <1>1, <2>1, <2>2, <2>3, StoreEnds
<1>5. CASE RemoveTenant(s) /\ ~Refuse(s)
  <2>1. Removes(TenantOf(s)) /\ Finish(s) BY <1>1, <1>5, RemoveTenantDoes
  <2>2. Apart => Mains' BY <1>1, <2>1, MainTenantRemoved
  <2>3. Busy(s) BY <1>5 DEF Busy, RemoveTenant, Running
  <2> QED BY <1>1, <2>1, <2>2, <2>3, StoreEnds
<1>6. CASE (CreateStoreWrite(s) \/ UpdateStoreWrite(s) \/ RemoveStoreWrite(s)) /\ ~Refuse(s)
  <2>1. Finish(s) /\ Busy(s)
    BY <1>1, <1>6, CreateStoreDoes, UpdateStoreDoes, RemoveStoreDoes DEF Busy, Running
  <2>2. Apart => Mains' BY <1>1, <1>6, MainCreated, MainUpdated, MainStoreRemoved
  <2> QED BY <1>1, <2>1, <2>2, StoreEnds
<1>7. CASE MigrationWrite(s)
  <2>1. PICK r : Becomes(s, r) /\ r.op = req[s].op /\ Busy(s) /\ (Apart => Knows(r)')
    <3>1. CASE Apart BY <1>1, <1>7, <3>1, KnowsMigrated
    <3>2. CASE ~Apart
      <4>1. \E r : Becomes(s, r) /\ r.op = req[s].op
        <5>1. req[s] \in Request BY <1>1, TypeFacts
        <5>2. \A t : Served(req[s], t).op = req[s].op /\ Logged(req[s], t).op = req[s].op
          BY <5>1 DEF Request, Served, Logged
        <5> QED BY <1>1, <1>7, <5>2, MigrationDoes
      <4>2. Busy(s) BY <1>7 DEF Busy, MigrationWrite, Running
      <4> QED BY <3>2, <4>1, <4>2
    <3> QED BY <3>1, <3>2
  <2>2. Apart => Mains' BY <1>1, <1>7, MainMigrated
  <2> QED BY <1>1, <2>1, <2>2, StoreWrote
<1> QED BY <1>2, <1>3, <1>4, <1>5, <1>6, <1>7 DEF Writes

LEMMA StoreNext == StoreInv /\ [Next]_vars => StoreInv'
<1> SUFFICES ASSUME StoreInv, [Next]_vars PROVE StoreInv' OBVIOUS
<1>1. /\ TypeInv /\ TypeInv' /\ FinalHasAdmin' /\ Alone
      /\ (Apart => AllKnow /\ Mains)
  BY FinalNext DEF FinalInv, StoreInv, Apart, AllKnow, Mains
<1> SUFFICES Alone' /\ (Apart' => AllKnow' /\ Mains')
  BY <1>1 DEF StoreInv, Apart, AllKnow, Mains
<1>2. CASE UNCHANGED vars
  <2>1. UNCHANGED <<tables, req, overlap>> BY <1>2 DEF vars, tables
  <2>2. Alone' BY <1>1, <2>1 DEF Alone, Busy
  <2>3. Apart => Mains' BY <1>1, <2>1, MainsKept DEF tables
  <2>4. ASSUME Apart, NEW s \in Slot PROVE Knows(req[s])'
    <3>1. PICK r : r = req[s] OBVIOUS
    <3>2. Knows(r)' BY <1>1, <2>1, <2>4, <3>1, KnowsSame DEF AllKnow
    <3> QED BY <2>1, <3>1, <3>2, KnowsItself
  <2> QED BY <2>1, <2>2, <2>3, <2>4 DEF Apart, AllKnow
<1>3. CASE Crash
  <2>1. UNCHANGED <<tables, overlap>> /\ req' = [s \in Slot |-> Idle] BY <1>3 DEF Crash
  <2>2. Alone' BY <2>1 DEF Alone, Busy, Idle
  <2>3. Apart => Mains' BY <1>1, <2>1, MainsKept DEF tables
  <2>4. ASSUME NEW s \in Slot PROVE Knows(req[s])'
    <3>1. PICK r : r = Idle OBVIOUS
    <3>2. Knows(r)' /\ req'[s] = r BY <2>1, <3>1, KnowsNothing, IdleIsRequest
    <3> QED BY <3>2, KnowsItself
  <2> QED BY <2>1, <2>2, <2>3, <2>4 DEF Apart, AllKnow
<1>4. ASSUME NEW s \in Slot, Start(s) \/ Provisioning(s) \/ StoreStep(s) \/ Migration(s)
      PROVE  Alone' /\ (Apart' => AllKnow' /\ Mains')
  <2>1. CASE Start(s)
    <3>1. PICK r : Begin(s, r) /\ Fresh(r) BY <1>1, <2>1, Starts
    <3>2. /\ Alone' /\ (~overlap' => ~overlap /\ \A o \in Slot \ {s} : ~Busy(o))
          /\ req' = [req EXCEPT ![s] = r] /\ UNCHANGED tables
      BY <1>1, <3>1, AloneAccepted
    <3>3. Knows(r) BY <3>1, KnowsFresh
    <3>4. Apart' => AllKnow' BY <1>1, <3>2, <3>3, KnowsStill DEF Apart
    <3>5. Apart' => Mains' BY <1>1, <3>2, MainsKept DEF Apart, tables
    <3> QED BY <3>2, <3>4, <3>5
  <2>2. CASE Reads(s) BY <2>2, StoreReads DEF Apart
  <2>3. CASE Writes(s) BY <2>3, StoreWrites DEF Apart
  <2> QED BY <1>4, <2>1, <2>2, <2>3 DEF Provisioning, StoreStep, Migration, Reads, Writes
<1> QED BY <1>2, <1>3, <1>4 DEF Next

LEMMA StoreInit ==
  ASSUME Legacy \subseteq Tenant, Init
  PROVE  StoreInv
<1>1. TypeInv /\ FinalHasAdmin BY FinalInit DEF FinalInv
<1>2. stores = <<>> /\ admin \subseteq Legacy /\ \A s \in Slot : req[s].op = "idle"
  BY DEF Init, InitRequests, Idle
<1>3. DOMAIN stores = {} BY <1>2
<1>4. \A t : MainRows(t) = {} /\ Live(MainRows(t)) = {} BY <1>3, MainsAre
<1>5. \A s \in Slot : Knows(req[s]) BY <1>2, KnowsNothing
<1>6. Alone BY <1>2 DEF Alone, Busy
<1> QED BY <1>1, <1>2, <1>4, <1>5, <1>6 DEF StoreInv, OneIsMain, MainIsLive, AdminHasMain

LEMMA AtMostOne ==
  ASSUME NEW R, \A i, j \in R : i = j
  PROVE  Cardinality(R) <= 1
<1>1. CASE R = {} BY <1>1, FS_EmptySet
<1>2. CASE R # {}
  <2>1. PICK i \in R : R = {i} BY <1>2
  <2> QED BY <2>1, FS_Singleton
<1> QED BY <1>1, <1>2

LEMMA StoreMeansOne == StoreInv => OneMainStore
<1> SUFFICES ASSUME OneIsMain, NEW t \in Tenant PROVE Cardinality(Live(MainRows(t))) <= 1
  BY DEF StoreInv, OneMainStore
<1> QED BY AtMostOne DEF OneIsMain

LEMMA StoreMeansKept == StoreInv => MainStoreKept
<1> SUFFICES ASSUME FinalHasAdmin, MainIsLive, AdminHasMain, NEW t \in Tenant \ Legacy,
                    tenants[t].final
             PROVE  Live(MainRows(t)) # {}
  BY DEF StoreInv, MainStoreKept
<1> QED BY DEF FinalHasAdmin, MainIsLive, AdminHasMain

LEMMA StoreMeansCovered == StoreInv => MigrationCovers
<1> SUFFICES ASSUME NullMatchesUnset, NEW s \in Slot, Knows(req[s]), req[s].tenants = {},
                    Running(s, "migration", "write"), NEW t \in Unserved
             PROVE  t \in req[s].failed
  BY DEF StoreInv, MigrationCovers
<1>1. t \in Tenant /\ tenants[t].exists /\ Live(MainRows(t)) = {} BY DEF Unserved, NotDeleted
<1> QED BY <1>1 DEF Knows, MigrationKnows, Running

\* A tenant has at most one main store that is not removed, whatever requests
\* arrive one after the other, and whatever fails or restarts between two of
\* their steps.
THEOREM OneMainCorrect ==
  ASSUME Legacy \subseteq Tenant
  PROVE  Spec => []OneMainStore
<1>1. Init => StoreInv BY StoreInit
<1> QED BY <1>1, StoreNext, StoreMeansOne, PTL DEF Spec

\* A company that was set up with a main store keeps one: the checks of
\* store.service.ts cannot be led to the last one by any sequence of requests.
THEOREM MainKeptCorrect ==
  ASSUME Legacy \subseteq Tenant
  PROVE  Spec => []MainStoreKept
<1>1. Init => StoreInv BY StoreInit
<1> QED BY <1>1, StoreNext, StoreMeansKept, PTL DEF Spec

\* A company that the migration leaves without a main store is one whose store
\* it tried to create and logged as failed.
THEOREM MigrationCorrect ==
  ASSUME Legacy \subseteq Tenant
  PROVE  Spec => []MigrationCovers
<1>1. Init => StoreInv BY StoreInit
<1> QED BY <1>1, StoreNext, StoreMeansCovered, PTL DEF Spec
=============================================================================

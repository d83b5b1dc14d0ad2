-------------------------------- MODULE Tenancy --------------------------------
(***************************************************************************)
(* Tenants and their stores: tenants.service.ts (createTenant, the agreed  *)
(* amount, removal), store.service.ts (create, update, remove) and the     *)
(* script create-main-stores.migration.ts.  Requests run at the same time; *)
(* each database call outside a transaction is a step of its own.          *)
(***************************************************************************)
EXTENDS Requests, Sequences

CONSTANTS
  Tenant,            \* companies that ask for an account (one e-mail each)
  Legacy,            \* those that may be there from a time without stores
  NullMatchesUnset   \* whether `deletedAt: null` finds rows without the field

VARIABLES
  tenants,  \* tenants[t]: its row, or NoTenant
  admin,    \* tenants that have the role Admin
  stores    \* the store rows, in the order they were created

vars == <<tenants, admin, stores, req, started, overlap>>
tables == <<tenants, admin, stores>>

\* `${companyName} Main Store`, and any other name.
DefaultName == "Main Store"
Name == {DefaultName, "Other"}
\* OUTLET is treated like BRANCH everywhere.
StoreClass == {"MAIN", "BRANCH"}

\* A tenant row: whether its domain is the final one, and whether its
\* storeType allows several stores.
NoTenant == [exists |-> FALSE, final |-> FALSE, multi |-> FALSE]
\* Mutant: storeType has no default.
NewTenantUntyped == [exists |-> TRUE, final |-> FALSE]
NewTenant == [exists |-> TRUE, final |-> FALSE, multi |-> FALSE]
TenantRow == [exists : BOOLEAN, final : BOOLEAN, multi : BOOLEAN]

\* "removed" is deletedAt set; "gone" is a row deleted with its tenant.
StoreRow == [tenant : Tenant, name : Name, class : StoreClass,
             state : {"live", "removed", "gone"}]

Op == {"idle", "createTenant", "agreedAmount", "updateTenant", "createStore",
       "updateStore", "removeStore", "removeTenant", "migration"}
At == {"idle", "find", "name", "main", "write", "provision"}
Request == [op : Op, at : At, tenants : SUBSET Tenant, failed : SUBSET Tenant, store : Nat,
            name : Name, class : StoreClass, was : StoreClass]
Idle == [op |-> "idle", at |-> "idle", tenants |-> {}, failed |-> {}, store |-> 0,
         name |-> DefaultName, class |-> "BRANCH", was |-> "BRANCH"]

\* Before, there are only tenants of a time without stores.
OldTenant == [exists |-> TRUE, final |-> TRUE, multi |-> TRUE]

Init ==
  /\ admin \in SUBSET Legacy
  /\ tenants = [t \in Tenant |-> IF t \in admin THEN OldTenant ELSE NoTenant]
  /\ stores = <<>>
  /\ InitRequests(Idle)

-----------------------------------------------------------------------------
(* The table of stores *)

Rows == {i \in DOMAIN stores : stores[i].state # "gone"}
OfTenant(t) == {i \in Rows : stores[i].tenant = t}
MainRows(t) == {i \in OfTenant(t) : stores[i].class = "MAIN"}
Live(I) == {i \in I : stores[i].state = "live"}

\* The rows of I that a filter `deletedAt: null` lets through.
NotDeleted(I) == IF NullMatchesUnset THEN Live(I) ELSE {}

\* @@unique([tenantId, name]) counts removed rows too.
NameIsFree(t, n) == \A i \in OfTenant(t) : stores[i].name # n

NewStore(t, n, c) == [tenant |-> t, name |-> n, class |-> c, state |-> "live"]
InsertStore(t, n, c) == stores' = Append(stores, NewStore(t, n, c))

-----------------------------------------------------------------------------
(* Requests *)

Begin(s, request) ==
  /\ Accept(s, request)
  /\ UNCHANGED tables

Finish(s) == req' = [req EXCEPT ![s] = Idle] /\ UNCHANGED <<started, overlap>>
Refuse(s) == Finish(s) /\ UNCHANGED tables

TenantOf(s) == CHOOSE t \in req[s].tenants : TRUE

\* The requests a client can send, and the migration script.  Stores are
\* managed by members, whom a tenant without the role Admin does not have.
Ask(op, a, t) == [Idle EXCEPT !.op = op, !.at = a, !.tenants = {t}]

\* tenants.controller.ts
AskCreateTenant(s) == \E t \in Tenant : Begin(s, Ask("createTenant", "find", t))
AskAgreedAmount(s) == \E t \in Tenant : Begin(s, Ask("agreedAmount", "find", t))
AskUpdateTenant(s) == \E t \in Tenant : Begin(s, Ask("updateTenant", "write", t))
AskRemoveTenant(s) == \E t \in Tenant : Begin(s, Ask("removeTenant", "write", t))

\* store.controller.ts
AskCreateStore(s) ==
  \E t \in admin, n \in Name, c \in StoreClass :
    Begin(s, [Ask("createStore", "find", t) EXCEPT !.name = n, !.class = c])
AskUpdateStore(s) ==
  \E i \in Rows, n \in Name, c \in StoreClass :
    /\ stores[i].tenant \in admin
    /\ Begin(s, [Ask("updateStore", "find", stores[i].tenant)
                   EXCEPT !.store = i, !.name = n, !.class = c])
AskRemoveStore(s) ==
  \E i \in Rows :
    /\ stores[i].tenant \in admin
    /\ Begin(s, [Ask("removeStore", "find", stores[i].tenant) EXCEPT !.store = i])

RunMigration(s) == Begin(s, [Idle EXCEPT !.op = "migration", !.at = "find"])

Start(s) ==
  AskCreateTenant(s) \/ AskAgreedAmount(s) \/ AskUpdateTenant(s) \/ AskRemoveTenant(s)
  \/ AskCreateStore(s) \/ AskUpdateStore(s) \/ AskRemoveStore(s) \/ RunMigration(s)

-----------------------------------------------------------------------------
(* tenants.service.ts *)

\* The company has no row yet.
CreateTenantFind(s) ==
  /\ Running(s, "createTenant", "find")
  /\ IF tenants[TenantOf(s)].exists THEN Refuse(s)
     ELSE Goto(s, "write") /\ UNCHANGED tables

\* Mutant: the domain is written ahead of the transaction.
CreateTenantWriteFinal(s) ==
  LET t == TenantOf(s)
  IN
  /\ Running(s, "createTenant", "write")
  /\ IF tenants[t].exists THEN Refuse(s)
     ELSE /\ tenants' = [tenants EXCEPT ![t] = [NewTenant EXCEPT !.final = TRUE]]
          /\ Goto(s, "provision")
          /\ UNCHANGED <<admin, stores>>

\* The row is created outside the transaction, with a temporary domain.
CreateTenantWrite(s) ==
  LET t == TenantOf(s)
  IN
  /\ Running(s, "createTenant", "write")
  /\ IF tenants[t].exists THEN Refuse(s)
     ELSE /\ tenants' = [tenants EXCEPT ![t] = NewTenant]
          /\ Goto(s, "provision")
          /\ UNCHANGED <<admin, stores>>

\* The transactions of createTenant and onboardCompanyAgreedAmount make the
\* main store and the role Admin where there are none.
Provision(t) ==
  /\ IF NotDeleted(MainRows(t)) # {} THEN UNCHANGED stores
     ELSE /\ NameIsFree(t, DefaultName)
          /\ InsertStore(t, DefaultName, "MAIN")
  /\ admin' = admin \cup {t}

CreateTenantProvision(s) ==
  LET t == TenantOf(s)
  IN
  /\ Running(s, "createTenant", "provision")
  /\ tenants[t].exists
  /\ tenants' = [tenants EXCEPT ![t].final = TRUE]
  /\ Provision(t)
  /\ Finish(s)

\* update: whatever columns the caller gives; the store type matters here.
UpdateTenant(t) == \E multi \in BOOLEAN : tenants' = [tenants EXCEPT ![t].multi = multi]

\* The status becomes PENDING before the transaction.
AgreedAmountFind(s) ==
  LET t == TenantOf(s)
  IN
  /\ Running(s, "agreedAmount", "find")
  /\ IF ~tenants[t].exists THEN Refuse(s)
     ELSE /\ UpdateTenant(t)
          /\ Goto(s, "provision")
          /\ UNCHANGED <<admin, stores>>

\* Without a main store the tenant is looked up, and the request refused when
\* it is gone.
AgreedAmountProvision(s) ==
  LET t == TenantOf(s)
  IN
  /\ Running(s, "agreedAmount", "provision")
  /\ NotDeleted(MainRows(t)) # {} \/ tenants[t].exists
  /\ Provision(t)
  /\ Finish(s)
  /\ UNCHANGED tenants

\* A transaction fails as a whole: a name that is taken, a tenant that is
\* gone, a write conflict, the database.  What was written before it stays.
ProvisionFails(s) ==
  /\ req[s].at = "provision"
  /\ Refuse(s)

\* The tenant is looked up by its id, and then written.
ChangeTenant(s) ==
  /\ Running(s, "updateTenant", "write")
  /\ IF ~tenants[TenantOf(s)].exists THEN Refuse(s)
     ELSE UpdateTenant(TenantOf(s)) /\ Finish(s) /\ UNCHANGED <<admin, stores>>

\* remove: the stores go with the row (onDelete: Cascade).  A tenant that has
\* members cannot be deleted.
RemoveTenant(s) ==
  LET t == TenantOf(s)
  IN
  /\ Running(s, "removeTenant", "write")
  /\ \/ Refuse(s)
     \/ /\ tenants[t].exists
        /\ tenants' = [tenants EXCEPT ![t] = NoTenant]
        /\ stores' = [i \in DOMAIN stores |->
                        IF stores[i].tenant = t THEN [stores[i] EXCEPT !.state = "gone"]
                        ELSE stores[i]]
        /\ admin' = admin \ {t}
        /\ Finish(s)

-----------------------------------------------------------------------------
(* store.service.ts *)

\* createStore: the tenant, then the name, then the main store.
CreateStoreFind(s) ==
  /\ Running(s, "createStore", "find")
  /\ IF ~tenants[TenantOf(s)].multi THEN Refuse(s)
     ELSE Goto(s, "name") /\ UNCHANGED tables

CreateStoreName(s) ==
  /\ Running(s, "createStore", "name")
  /\ IF \E i \in NotDeleted(OfTenant(TenantOf(s))) : stores[i].name = req[s].name
     THEN Refuse(s)
     ELSE /\ Goto(s, IF req[s].class = "MAIN" THEN "main" ELSE "write")
          /\ UNCHANGED tables

\* Mutant: a main store is not looked for.
CreateStoreAnyMain(s) ==
  /\ Running(s, "createStore", "main")
  /\ Goto(s, "write")
  /\ UNCHANGED tables

CreateStoreMain(s) ==
  /\ Running(s, "createStore", "main")
  /\ IF MainRows(TenantOf(s)) # {} THEN Refuse(s)
     ELSE Goto(s, "write") /\ UNCHANGED tables

\* The create connects the tenant and respects the index.
CreateStoreWrite(s) ==
  LET t == TenantOf(s)
  IN
  /\ Running(s, "createStore", "write")
  /\ IF tenants[t].exists /\ NameIsFree(t, req[s].name)
     THEN /\ InsertStore(t, req[s].name, req[s].class)
          /\ Finish(s)
          /\ UNCHANGED <<tenants, admin>>
     ELSE Refuse(s)

\* findOne: removed rows are found too.
Found(i) == i \in Rows

\* update: the row is read, then the name is looked up, then
\* the other main stores are, on the class that was read.
UpdateStoreFind(s) ==
  LET i == req[s].store
  IN
  /\ Running(s, "updateStore", "find")
  /\ IF ~Found(i) THEN Refuse(s)
     ELSE /\ req' = [req EXCEPT ![s].at = IF stores[i].name # req[s].name
                                          THEN "name" ELSE "main",
                                ![s].was = stores[i].class]
          /\ UNCHANGED <<tables, started, overlap>>

UpdateStoreName(s) ==
  /\ Running(s, "updateStore", "name")
  /\ IF \E i \in OfTenant(TenantOf(s)) \ {req[s].store} : stores[i].name = req[s].name
     THEN Refuse(s)
     ELSE Goto(s, "main") /\ UNCHANGED tables

\* Mutant: only a store that becomes the main store is checked.
UpdateStoreStepDown(s) ==
  /\ Running(s, "updateStore", "main")
  /\ IF req[s].was # "MAIN" /\ req[s].class = "MAIN" /\
        MainRows(TenantOf(s)) \ {req[s].store} # {}
     THEN Refuse(s)
     ELSE Goto(s, "write") /\ UNCHANGED tables

\* A main store may step down only next to another one, a store may become
\* the main store only where there is no other; removed rows count.
UpdateStoreMain(s) ==
  LET others == MainRows(TenantOf(s)) \ {req[s].store}
  IN
  /\ Running(s, "updateStore", "main")
  /\ IF \/ req[s].was = "MAIN" /\ req[s].class # "MAIN" /\ others = {}
        \/ req[s].was # "MAIN" /\ req[s].class = "MAIN" /\ others # {}
     THEN Refuse(s)
     ELSE Goto(s, "write") /\ UNCHANGED tables

UpdateStoreWrite(s) ==
  LET i == req[s].store
      free == \A j \in OfTenant(TenantOf(s)) \ {i} : stores[j].name # req[s].name
  IN
  /\ Running(s, "updateStore", "write")
  /\ IF i \in Rows /\ free
     THEN /\ stores' = [stores EXCEPT ![i].name = req[s].name,
                                      ![i].class = req[s].class]
          /\ Finish(s)
          /\ UNCHANGED <<tenants, admin>>
     ELSE Refuse(s)

\* remove: a main store goes only next to another main store, removed or not.
RemoveStoreFind(s) ==
  LET i == req[s].store
  IN
  /\ Running(s, "removeStore", "find")
  /\ IF ~Found(i) THEN Refuse(s)
     ELSE /\ Goto(s, IF stores[i].class = "MAIN" THEN "main" ELSE "write")
          /\ UNCHANGED tables

RemoveStoreMain(s) ==
  /\ Running(s, "removeStore", "main")
  /\ IF MainRows(TenantOf(s)) \ {req[s].store} = {} THEN Refuse(s)
     ELSE Goto(s, "write") /\ UNCHANGED tables

RemoveStoreWrite(s) ==
  LET i == req[s].store
  IN
  /\ Running(s, "removeStore", "write")
  /\ IF i \notin Rows THEN Refuse(s)
     ELSE /\ stores' = [stores EXCEPT ![i].state = "removed"]
          /\ Finish(s)
          /\ UNCHANGED <<tenants, admin>>

-----------------------------------------------------------------------------
(* create-main-stores.migration.ts *)

\* Mutant: a removed main store is good enough.
MigrationFindAnyMain(s) ==
  /\ Running(s, "migration", "find")
  /\ req' = [req EXCEPT ![s].at = "write",
                        ![s].tenants = {t \in Tenant : tenants[t].exists /\
                                                       MainRows(t) = {}}]
  /\ UNCHANGED <<tables, started, overlap>>

\* The tenants without a main store, as the script finds them at its start and
\* again in validateMigration; several main stores are only logged.
Unserved == {t \in Tenant : tenants[t].exists /\ NotDeleted(MainRows(t)) = {}}

\* They are read at once ...
MigrationFind(s) ==
  /\ Running(s, "migration", "find")
  /\ req' = [req EXCEPT ![s].at = "write", ![s].tenants = Unserved]
  /\ UNCHANGED <<tables, started, overlap>>

\* ... and each gets a store.  Whatever rejects a create, the tenant is only
\* logged and the script goes on (Promise.allSettled).  A create sets tenantId
\* and connects nothing.
MigrationWrite(s) ==
  \E t \in req[s].tenants :
    /\ Running(s, "migration", "write")
    /\ \/ /\ NameIsFree(t, DefaultName)
          /\ InsertStore(t, DefaultName, "MAIN")
          /\ req' = [req EXCEPT ![s].tenants = @ \ {t}]
       \/ /\ UNCHANGED stores
          /\ req' = [req EXCEPT ![s].tenants = @ \ {t}, ![s].failed = @ \cup {t}]
    /\ UNCHANGED <<tenants, admin, started, overlap>>

\* Whatever the validation says, the script ends here.
MigrationEnd(s) ==
  /\ Running(s, "migration", "write")
  /\ req[s].tenants = {}
  /\ Refuse(s)

-----------------------------------------------------------------------------
(* A restart of the server drops what is in flight; tables stay. *)
Crash ==
  /\ \E s \in Slot : req[s] # Idle
  /\ req' = [s \in Slot |-> Idle]
  /\ UNCHANGED <<tables, started, overlap>>

Provisioning(s) ==
  CreateTenantFind(s) \/ CreateTenantWrite(s) \/ CreateTenantProvision(s)
  \/ AgreedAmountFind(s) \/ AgreedAmountProvision(s) \/ ProvisionFails(s)
  \/ ChangeTenant(s) \/ RemoveTenant(s)

StoreStep(s) ==
  CreateStoreFind(s) \/ CreateStoreName(s) \/ CreateStoreMain(s) \/ CreateStoreWrite(s)
  \/ UpdateStoreFind(s) \/ UpdateStoreName(s) \/ UpdateStoreMain(s) \/ UpdateStoreWrite(s)
  \/ RemoveStoreFind(s) \/ RemoveStoreMain(s) \/ RemoveStoreWrite(s)

Migration(s) == MigrationFind(s) \/ MigrationWrite(s) \/ MigrationEnd(s)

Next ==
  \/ \E s \in Slot : Start(s) \/ Provisioning(s) \/ StoreStep(s) \/ Migration(s)
  \/ Crash

Spec == Init /\ [][Next]_vars

-----------------------------------------------------------------------------
(* Correctness *)

\* Every table and every request keeps its shape.
TypeOK ==
  /\ tenants \in [Tenant -> TenantRow]
  /\ admin \subseteq Tenant
  /\ stores \in Seq(StoreRow)
  /\ RequestsOK(Request)

\* A tenant has at most one main store that is not removed, through every
\* sequence of creations, updates, removals, migrations, failed transactions
\* and restarts, as long as no two requests overlap.
OneMainStore ==
  ~overlap /\ NullMatchesUnset =>
    \A t \in Tenant : Cardinality(Live(MainRows(t))) <= 1

\* "tenant must have at least one main store": a company that was set up with
\* a main store keeps one that is not removed, as long as no two requests
\* overlap; one of a time without stores may make a removed store its main one.
\* It needs a database that finds unset columns by null, or the lookup of the
\* other main stores finds none.
MainStoreKept ==
  ~overlap /\ NullMatchesUnset =>
    \A t \in Tenant \ Legacy : tenants[t].final => Live(MainRows(t)) # {}

\* The domain of a tenant becomes final together with its main store and its
\* role Admin: whatever fails or overlaps, a company whose domain is final
\* is not left without the role its first user is going to need.
FinalHasAdmin ==
  \A t \in Tenant : tenants[t].final => t \in admin

\* The migration misses nobody in silence: when it comes to its validation
\* alone, every company that is still without a main store is one whose store
\* it tried to create, and logged as failed.
MigrationCovers ==
  \A s \in Slot :
    Running(s, "migration", "write") /\ req[s].tenants = {} /\ ~overlap /\ NullMatchesUnset =>
      Unserved \subseteq req[s].failed

-----------------------------------------------------------------------------
(* Why: what a request that runs alone knows of the stores *)

\* A request that is about one tenant names it.
RequestsName == \A s \in Slot : req[s].op \notin {"idle", "migration"} => req[s].tenants # {}

TypeInv == TypeOK /\ RequestsName

\* The tenant of request r, and the other main stores of the store it is about.
About(r) == CHOOSE t \in r.tenants : TRUE
Others(r) == MainRows(About(r)) \ {r.store}

\* Whoever manages stores belongs to a tenant that was provisioned.
ManagerKnows(r) ==
  r.op \in {"createStore", "updateStore", "removeStore"} => About(r) \in admin

\* What was looked up is still so.
CreateKnows(r) ==
  r.op = "createStore" /\ r.at = "write" /\ r.class = "MAIN" => MainRows(About(r)) = {}
UpdateKnows(r) ==
  r.op = "updateStore" =>
    /\ r.store \in Rows => stores[r.store].tenant = About(r)
    /\ r.at \in {"name", "main", "write"} =>
         r.store \in Rows /\ r.was = stores[r.store].class
    /\ r.at = "write" => /\ r.was = "MAIN" /\ r.class # "MAIN" => Others(r) # {}
                         /\ r.was # "MAIN" /\ r.class = "MAIN" => Others(r) = {}
RemoveKnows(r) ==
  r.op = "removeStore" =>
    /\ r.store \in Rows => stores[r.store].tenant = About(r)
    /\ r.at = "write" /\ r.store \in Rows /\ stores[r.store].class = "MAIN" => Others(r) # {}

\* Whom the migration has still to serve, and whom it has served or logged.
MigrationKnows(r) ==
  r.op = "migration" /\ r.at = "write" =>
    /\ \A t \in r.tenants : Live(MainRows(t)) = {}
    /\ \A t \in Tenant : tenants[t].exists /\ Live(MainRows(t)) = {} =>
         t \in r.tenants \cup r.failed

Knows(r) ==
  ManagerKnows(r) /\ CreateKnows(r) /\ UpdateKnows(r) /\ RemoveKnows(r) /\ MigrationKnows(r)

\* At most one main store is not removed; without a past, none ever is, and
\* a tenant that was provisioned has one.
OneIsMain == \A t \in Tenant : \A i, j \in Live(MainRows(t)) : i = j
MainIsLive == \A t \in Tenant \ Legacy : MainRows(t) = Live(MainRows(t))
AdminHasMain == \A t \in Tenant \ Legacy : t \in admin => MainRows(t) # {}

StoreInv ==
  /\ TypeInv /\ FinalHasAdmin /\ Alone
  /\ ~overlap /\ NullMatchesUnset =>
       (\A s \in Slot : Knows(req[s])) /\ OneIsMain /\ MainIsLive /\ AdminHasMain
=============================================================================

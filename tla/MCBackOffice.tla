------------------------------ MODULE MCBackOffice ------------------------------
(***************************************************************************)
(* The back office: the parts of the service that keep tenants, people,    *)
(* goods and customers.  Each is a module of its own whose requests touch  *)
(* its own tables only, so an instance is a part and a behaviour of it;    *)
(* the tables of the other parts stay out of it.                           *)
(***************************************************************************)
EXTENDS Requests, Sequences, Integers, TLC

CONSTANTS
  NullMatchesUnset,                      \* Tenancy, Memberships
  Company, Legacy,                       \* Tenancy
  Old, New, First, User,                 \* Memberships
  Password,                              \* Accounts, with User
  Serial, Code, GivenCount, Days,        \* Devices
  CategoryName, Finest, Price, Stock, Parts, MaxOversold,   \* Catalogue
  Email, Phone,                          \* Clients
  Key, Limit, MaxRows, MaxChanges,       \* Listings
  MaxWrites                              \* Statistics, with MaxRows

VARIABLES
  part,                                                             \* which part this is
  tenants, admin, stores,                                           \* Tenancy
  users, members, roles, agents, status, session, cut,              \* Memberships
  password, active, links, mailed, dead, issued,                    \* Accounts
  devices, tokens, sent, corrected,                                 \* Devices
  categories, inventories, batches, products, parts, half,          \* Catalogue
  customers, reservations, sales, contracts, accepted, raced,       \* Clients
  storage,
  list, rows, walk,                                                 \* Listings
  stats, writes, answer                                             \* Statistics, with rows

\* The companies of a time without stores are companies.
ASSUME LegacyAreCompanies == Legacy \subseteq Company
ASSUME UsersFinite == IsFiniteSet(User)
ASSUME FirstIsUser == First \in User
\* Units are counted, prices in parts of the currency; the tenant
\* of the catalogue has two categories.
ASSUME StockIsCounted == Stock \subseteq Nat /\ MaxOversold \in Nat
ASSUME PricesAreCounted == Price \subseteq Int /\ Parts \subseteq Nat /\ Finest \in Nat \ {0}
ASSUME TwoNames == \E n, m \in CategoryName : n # m
\* A column is sorted by what has an order; a page may have room for no row.
ASSUME KeysAreNumbers == Key # {} /\ Key \subseteq Nat
ASSUME LimitsAreNumbers == Limit \subseteq Nat /\ MaxRows \in Nat

\* Parts about which there are theorems are taken with them.
T == INSTANCE TenancyProofs WITH Tenant <- Company, MaxRequests <- MaxRequests + 1,
                                 MaxOverlapping <- MaxOverlapping + 1
M == INSTANCE MembershipsProofs
A == INSTANCE AccountsProofs
D == INSTANCE DevicesProofs WITH MaxOverlapping <- MaxRequests
C == INSTANCE Catalogue WITH MaxRequests <- MaxOverlapping
L == INSTANCE ClientsProofs WITH MaxOverlapping <- MaxRequests
P == INSTANCE Listings
S == INSTANCE Statistics

Slots == Permutations(Slot)

-----------------------------------------------------------------------------
(* The tables of a part, and what they are in the others. *)

requests == <<req, started, overlap>>
tenancy == <<tenants, admin, stores>>
memberships == <<users, members, roles, agents, status, session, cut>>
accounts == <<password, active, links, mailed, dead, issued>>
devicesOf == <<devices, tokens, sent, corrected>>
catalogue == <<categories, inventories, batches, products, parts, half>>
clients == <<customers, reservations, sales, contracts, accepted, raced, storage>>
listings == <<list, walk>>
statistics == <<stats, writes, answer>>

None == <<>>
NoRequests == req = None /\ started = None /\ overlap = None
NoTenancy == tenants = None /\ admin = None /\ stores = None
NoMemberships ==
  /\ users = None /\ members = None /\ roles = None /\ agents = None
  /\ status = None /\ session = None /\ cut = None
NoAccounts ==
  /\ password = None /\ active = None /\ links = None
  /\ mailed = None /\ dead = None /\ issued = None
NoDevices ==
  devices = None /\ tokens = None /\ sent = None /\ corrected = None
NoCatalogue ==
  /\ categories = None /\ inventories = None /\ batches = None
  /\ products = None /\ parts = None /\ half = None
NoClients ==
  /\ customers = None /\ reservations = None /\ sales = None
  /\ contracts = None /\ accepted = None /\ raced = None /\ storage = None
NoRows == rows = None
NoListings == list = None /\ walk = None
NoStatistics == stats = None /\ writes = None /\ answer = None

Init ==
  \/ /\ part = "tenancy"
     /\ T!Init
     /\ NoMemberships /\ NoAccounts /\ NoDevices /\ NoCatalogue /\ NoClients
     /\ NoRows /\ NoListings /\ NoStatistics
  \/ /\ part = "memberships"
     /\ M!Init
     /\ NoTenancy /\ NoAccounts /\ NoDevices /\ NoCatalogue /\ NoClients
     /\ NoRows /\ NoListings /\ NoStatistics
  \/ /\ part = "accounts"
     /\ A!Init
     /\ NoTenancy /\ NoMemberships /\ NoDevices /\ NoCatalogue /\ NoClients
     /\ NoRows /\ NoListings /\ NoStatistics
  \/ /\ part = "devices"
     /\ D!Init
     /\ NoTenancy /\ NoMemberships /\ NoAccounts /\ NoCatalogue /\ NoClients
     /\ NoRows /\ NoListings /\ NoStatistics
  \/ /\ part = "catalogue"
     /\ C!Init
     /\ NoTenancy /\ NoMemberships /\ NoAccounts /\ NoDevices /\ NoClients
     /\ NoRows /\ NoListings /\ NoStatistics
  \/ /\ part = "clients"
     /\ L!Init
     /\ NoTenancy /\ NoMemberships /\ NoAccounts /\ NoDevices /\ NoCatalogue
     /\ NoRows /\ NoListings /\ NoStatistics
  \/ /\ part = "listings"
     /\ P!Init
     /\ NoRequests /\ NoTenancy /\ NoMemberships /\ NoAccounts /\ NoDevices
     /\ NoCatalogue /\ NoClients /\ NoStatistics
  \/ /\ part = "statistics"
     /\ S!Init
     /\ NoRequests /\ NoTenancy /\ NoMemberships /\ NoAccounts /\ NoDevices
     /\ NoCatalogue /\ NoClients /\ NoListings

Next ==
  \/ /\ part = "tenancy"
     /\ T!Next
     /\ UNCHANGED <<part, memberships, accounts, devicesOf, catalogue, clients, rows,
                    listings, statistics>>
  \/ /\ part = "memberships"
     /\ M!Next
     /\ UNCHANGED <<part, tenancy, accounts, devicesOf, catalogue, clients, rows,
                    listings, statistics>>
  \/ /\ part = "accounts"
     /\ A!Next
     /\ UNCHANGED <<part, tenancy, memberships, devicesOf, catalogue, clients, rows,
                    listings, statistics>>
  \/ /\ part = "devices"
     /\ D!Next
     /\ UNCHANGED <<part, tenancy, memberships, accounts, catalogue, clients, rows,
                    listings, statistics>>
  \/ /\ part = "catalogue"
     /\ C!Next
     /\ UNCHANGED <<part, tenancy, memberships, accounts, devicesOf, clients, rows,
                    listings, statistics>>
  \/ /\ part = "clients"
     /\ L!Next
     /\ UNCHANGED <<part, tenancy, memberships, accounts, devicesOf, catalogue, rows,
                    listings, statistics>>
  \/ /\ part = "listings"
     /\ P!Next
     /\ UNCHANGED <<part, requests, tenancy, memberships, accounts, devicesOf, catalogue,
                    clients, statistics>>
  \/ /\ part = "statistics"
     /\ S!Next
     /\ UNCHANGED <<part, requests, tenancy, memberships, accounts, devicesOf, catalogue,
                    clients, listings>>

Spec == Init /\ [][Next]_<<part, requests, tenancy, memberships, accounts, devicesOf,
                           catalogue, clients, rows, listings, statistics>>

-----------------------------------------------------------------------------
(* Correctness: the properties of the parts *)

\* Every table and every request of a part keeps its shape.
TypeOK ==
  CASE part = "tenancy" -> T!TypeOK
    [] part = "memberships" -> M!TypeOK
    [] part = "accounts" -> A!TypeOK
    [] part = "devices" -> D!TypeOK
    [] part = "catalogue" -> C!TypeOK
    [] part = "clients" -> L!TypeInv
    [] part = "listings" -> P!TypeOK
    [] part = "statistics" -> S!TypeOK

\* A tenant has at most one main store that is not removed, through every
\* sequence of creations, updates, removals, migrations, failed transactions
\* and restarts, as long as no two requests overlap.
OneMainStore == part = "tenancy" => T!OneMainStore

\* "tenant must have at least one main store": a company that was set up with
\* a main store keeps one that is not removed, as long as no two requests
\* overlap; one of a time without stores may make a removed store its main one.
\* It needs a database that finds unset columns by null, or the lookup of the
\* other main stores finds none.
MainStoreKept == part = "tenancy" => T!MainStoreKept

\* The domain of a tenant becomes final together with its main store and its
\* role Admin: whatever fails or overlaps, a company whose domain is final
\* is not left without the role its first user is going to need.
FinalHasAdmin == part = "tenancy" => T!FinalHasAdmin

\* The migration misses nobody in silence: when it comes to its validation
\* alone, every company that is still without a main store is one whose store
\* it tried to create, and logged as failed.
MigrationCovers == part = "tenancy" => T!MigrationCovers

\* A user is a member of a tenant once, however it was added, assigned or
\* onboarded, as long as no two requests overlap: the lookups of
\* onboardInitialPayment, addUser and assignUserToRole together see to it.
OneMembership == part = "memberships" => M!OneMembership

\* A membership names a role that exists, or the user could not log in: what
\* is in use is not deleted, as long as no two requests overlap.
MemberHasRole == part = "memberships" => M!MemberHasRole

\* The store a user works in is a store of its tenant: the default one, every
\* one it has access to, and the one a JWT carries into every later request,
\* whatever fails or overlaps.
StoreIsOwn == part = "memberships" => M!StoreIsOwn

\* A user without a membership is an agent, was deleted, or is what a failure
\* between the user and its membership left (its e-mail is then refused by
\* addUser): no request that ends by itself leaves one.
StrandedByFailure == part = "memberships" => M!StrandedByFailure

\* The migration misses no membership in silence: when it ends alone, whoever
\* is without a store is one whose assignment it tried and logged as failed.
EverybodyAssigned == part = "memberships" => M!EverybodyAssigned

\* A link that was followed to the end, or replaced by a later one, opens
\* nothing again, whatever overlaps, fails or expires.
DeadLinksStayDead == part = "accounts" => A!DeadLinksStayDead

\* A user has at most one reset link that works, as long as no two requests
\* overlap: forgotPassword reuses the row it finds.
OneResetLink == part = "accounts" => A!OneResetLink

\* The count of a device is at or past that of every token it has, so that the
\* next one is new: through failures between count and row, uploads of a file
\* that names it again, updates of everything else and deletions, as long as
\* no two requests overlap and nobody changes the count.
CountCoversTokens == part = "devices" => D!CountCoversTokens

\* Nobody gets a token that was given out before: not when a job and a payment
\* read the same count and mean the same duration, not for a device that is
\* deleted and comes back, not after its count was changed.
TokensSentOnce == part = "devices" => D!TokensSentOnce

\* An inventory has a batch and a product has parts: one that has none is
\* what a failure between the two writes left, or a list that names an
\* inventory twice, or its request still runs.
NothingEmpty == part = "catalogue" => C!NothingEmpty

\* The prices an answer shows are of what can be bought, while there is any:
\* every batch with units left is between the lowest and the highest price of
\* its inventory, some batch less than one unit of the currency from each, and
\* so is the value, unless a batch was sold beyond its stock; what a product
\* costs, taking each part from any batch with units left, is in its price
\* range, whose ends are the least and the most of such sums to two decimals.
PricesAreOfStock == part = "catalogue" => C!PricesAreOfStock

\* The customer of a sale and of a reservation is there, unless that was made
\* while a deletion of the customer, too, had looked and not yet written: a
\* customer deleted on the strength of an older read is not one that has bought
\* meanwhile, and a reservation whose customer is gone becomes no sale.
CustomerIsThere == part = "clients" => L!CustomerIsThere

\* A signature that was accepted stays on the contract, whoever signs later
\* and whatever fails, as long as no two requests overlap: every one where the
\* storage provider answers with a url, none where it does not.
SignaturesKept == part = "clients" => L!SignaturesKept

\* A contract has a date of signature if and only if its owner's signature is
\* on it: signatures that overwrite each other take the date with them.
DatedByOwner == part = "clients" => L!DatedByOwner

\* A walk to the last page shows every row the query found when it began,
\* whatever else is created, or updated so that the query finds it, if no row
\* leaves what it finds or changes what it is sorted by and no two are sorted
\* alike; where the number is not read last, only if between the two reads of a
\* page nothing comes but behind all rows.  A page has to have room for a row.
WalkShowsEveryRow == part = "listings" => P!WalkShowsEveryRow

\* A walk shows no row twice, whatever is removed or updated so that the query
\* does not find it any more, if nothing comes but behind all rows since it
\* began, nothing changes what it is sorted by and no two are sorted alike.
NoRowTwice == part = "listings" => P!NoRowTwice

\* The parts of an answer are never more than its total: where the total is
\* read last, whatever is created meanwhile; where it is read first, whatever
\* is removed meanwhile.  Without a write, parts that leave no class out make
\* the total.
StatsAddUp == part = "statistics" => S!StatsAddUp
=============================================================================

# Formal models of the Ubuxa CRM backend

The backend is a NestJS application over MongoDB (Prisma) and Redis (BullMQ)
that companies use to sell solar equipment: inventory in batches, products
made of it, sales paid at once or by installments, devices unlocked by tokens.
This directory holds TLA+ models of the parts in which requests, queue workers,
timers, scripts and restarts meet on the same documents, TLC configurations that
check them, and TLAPS proofs. Paths below are relative to the repository; services
live in `src/src/<directory>/`. `PROJECT.json` lists the components, runs,
mutants, hazards and theorems, and which lines each definition translates.

## 1. Inventory of the system

| Component | State it keeps | Operations that change it | What must hold |
|---|---|---|---|
| Inventory sales and reservations (`inventory-sale`) | quantities of batches, reservation rows, sales, payments, pending payments; a cleanup timer per service instance | reserve with price preview, complete, cancel, legacy direct sale, expiry, cleanup | counters count the rows, no unit lost or sold twice, expired reservations let go |
| Product sales (`sales`) | sales with batch allocations, contracts, accounts | `createSale` (stock check, allocation, transaction, contract, account, payment row) | what passes the check can be taken, FIFO, stock conserved |
| Payments and `payment-queue` (`payment`) | payment rows, jobs with attempts | callback, `verifyPayment`, `handlePostPayment` | money and tokens counted once, status agrees with money, a verified payment is credited |
| Cron job (`cronjobs`) | none of its own | restores the stock of sales unpaid for six hours, cancels them | a cancelled sale has its stock back; late payments are refunded; runs make progress |
| Inventory and batches (`inventory`) | items, batches | create item or batch, update, soft delete | quantities change only through sales |
| Devices and tokens (`device`, three queues) | devices with a token counter, tokens | create, update, delete, CSV upload, single and batch tokens | one token per count, count and tokens agree |
| Stores (`store`) | stores with a class, assignments | create, update, remove, assign, unassign | exactly one MAIN store, names unique, users assigned to live stores |
| Tenants, onboarding (`tenants`) | tenants with a status | create, onboarding steps, link users, repair the MAIN store | status not ahead of the data, one Admin role |
| Authentication (`auth`) | users, temporary tokens | add user, login, forgot and reset password, create password | a mailed link works until it is used or expires |
| Roles, permissions (`roles`) | roles, memberships | create, update, assign | one membership per user and tenant |
| Customers, agents, users, products | one collection each | create, update, delete | no row refers to a deleted one |
| Contracts (`contract`) | contracts with signatures | create, upload signatures | no signature is lost |
| Flutterwave, OpenPayGo, mail, SMS, uploads, websocket, admin, utilities | none | calls to the outside, pure functions | (environment of the others) |

**Who interacts with whom.** Both kinds of sales write `inventory_batches`.
`createSale` and the completion of a reservation write `payments`; the gateway
calls `PaymentController.verifyPayment`, which queues a job; the worker runs
`PaymentService.verifyPayment` and writes payments, sales and device counters.
The cron job reads sales and writes batches, sales and (in vain) payments. A
token request and the `device-token-queue` write the device counters too.
`TenantContext` is request-scoped, so every service that injects it is created
per request: the cleanup timer of the reservations exists only after a request
has reached that service in this process.

**What is hard.** Reads outside a `$transaction` used after other requests have
committed; counters that some paths decrement under a condition and others
without; loops of single updates that a restart cuts in two; jobs retried after
part of their work was done; callbacks that come twice or late; timers that a
restart loses; loops that one exception ends. All of them, with their lines,
are the `hazards` of `PROJECT.json` (the gravest ones, forty of them).

## 2. Modelling decisions

* A process (request, worker, cron or cleanup run) is a record with a `pc` and
  the local variables that survive a step. Every database access outside a
  transaction is a step; a `$transaction` is one step, because MongoDB commits
  it atomically and aborts it when another one wrote the same document first.
  Any step may instead fail (`FailRequest`, `FailSale`, `FailAttempt`,
  `CronFail`), which also stands for such aborts, failing calls and mails.
* Reads that go through `this.prisma` inside a transaction callback are steps
  of their own: they see neither the snapshot nor the writes of the transaction.
* A restart (`Crash`) wipes requests, runs and timers. Documents stay, and so do
  jobs, which are in Redis: BullMQ queues a stalled job again once.
* One tenant, in the models of sales: no handler there relates the rows of two
  tenants (`verifyPayment` uses one fixed tenant id; see the hazards). `Tenancy`
  and `Memberships` have two.
* In the back office a request sits in a slot (`Requests`): its operation, where
  it is, and what it has read. `Fail` stands for every error and restart between
  two of its steps. `overlap` remembers whether two requests were ever in flight
  together. A property that begins with `~overlap =>` is one the lookups of the
  handlers guarantee to requests that follow each other, and no index or
  transaction guarantees to others; one without it holds in every interleaving.
* Two transactions that each read what the other writes may both commit in
  MongoDB. The models let a transaction of the onboarding commit in one step or not
  at all; the properties such a pair could break are those of requests that do not
  overlap. Where a property speaks of all interleavings, the reads of a transaction
  and its commit are two steps: that a customer is there, and the insertion of its
  sale (`BeginSale`, `CreateInventorySale`).
* What Prisma does at the edge of a table is modelled from the schema and marked
  external: unique keys refuse a write, a required relation refuses the deletion
  of what it names and the answer that lacks it, `Cascade` deletes along. MongoDB
  has no foreign keys, so the refusal of a deletion is a lookup and then the
  deletion: two steps for a customer (`DeleteRestrict`, `DeleteCustomer`), one for a
  role, whose property is about requests that do not overlap.
* A script that collects the results of its writes (`Promise.allSettled`) goes on
  after a rejected one, whatever rejected it: `MigrationWrite` and `MigrationAssign`
  may fail for any row, and `failed` is what was logged.
* `STORAGE_PROVIDER` is fixed for a behaviour (`storage`). With `spaces` an upload
  answers with neither of the fields the contract reads, and nothing is stored. A
  change of the provider between two signatures is not modelled.
* A filter on `null` finds documents without the field in MongoDB, but not with
  every version of the connector; `NullMatchesUnset` names the assumption, and is
  TRUE in the runs, as the onboarding could find no store or role otherwise.
* Several batches may share a creation time; the database may then return them
  in any order, so `FifoAllocations` is a set and the allocation a choice of it.
* Prices of sales are abstracted to `Price` and `StartingPrice`; ids are model
  values; wording and logging are left out.
* The prices of the catalogue are counted in `Finest` parts of the currency, so that
  rounding down, up and to two decimals does something. They are exact: the error
  of binary floating point, in a sum or before `toFixed`, is left out. A
  negative price is allowed, as no handler refuses one.
* A token is what its digits are computed from, the device's code, the count and
  the duration; that different ones give different digits is taken for granted.

## 3. Modules

| Module | Models | Notes |
|---|---|---|
| `BatchAllocation` | the FIFO choice of batches shared by both kinds of sales | no state; an allocation maps batches to quantities |
| `StockLedger` | abstract specification: claims hold units once and settle once | knows neither requests nor rows |
| `InventoryReservation` | `inventory-sale.service.ts` | one action per database step of reserve, complete, cancel, direct sale, cleanup; `claim` is a history variable: what became of the units a request took |
| `ProductSale` | `sales.service.ts` (`createSale`, `getSalesPaymentDetails`), `payment.*`, `cronjobs.service.ts` | one product of one inventory item per sale; one payment worker, as configured; `restored` is a history variable |
| `StockCheck` | `validateSaleProductQuantity`, `allocateInventory`, `processBatches` | the loops over products and inventories, one action per round, one order at work; `aside` is `inventoryAllocationMap`, `want` the countdown of the loop that runs; rows come in any order a query leaves open |
| `PaymentPromise` | abstract specification: a payment asks for a settled price, is confirmed once and for good, credited once, and brings tokens once | knows neither jobs, attempts, stock nor restarts |
| `Requests` | the requests in flight: slots, their bounds, `overlap` | extended by the six modules that follow |
| `Tenancy` | `tenants.service.ts` (`createTenant`, agreed amount, update, removal), `store.service.ts` (create, update, remove), the half of the migration script that creates main stores | two companies, one of which may be older than the stores |
| `Memberships` | the first payment and its first user, `addUser` with its mail, logins, agents, roles, `deleteUser`, stores of users, the half of the script that assigns users | roles are updated and deleted by id, by whoever may manage roles of any tenant; `session` is what the last JWT says; `cut` a history variable: who lost or never got a membership |
| `Accounts` | passwords and the links that set them (`auth.service.ts`, temporary tokens) | a link is a number, its UUID being fresh; `dead` is a history variable |
| `Devices` | `device.service.ts`, its two queues, the token a payment issues | the unique key is on the token, not on its device and count; an update may change any column; `corrected` are devices whose count was changed by hand |
| `Catalogue` | categories with their subcategories, items and batches of `inventory.service.ts`, `products.service.ts`, units sold, the prices of the answers | a sale takes a unit whether or not one is left, as the direct ones do; `half` is a history variable: rows whose request ended too early |
| `Clients` | `customers.service.ts`, the rows of reservations and sales that name a customer, `contract.service.ts` | `accepted` and `raced` are history variables: signatures the service took; sales and reservations made for a customer between the last lookup and the write of its deletion |
| `Listings` | the thirteen paginated listings and a client that walks through one | a listing is its order, its filter, which read comes first, what it hides; rows are created, updated (what the filter finds, what the order is by) and removed between any two reads; rows that are sorted alike come in any order |
| `Statistics` | four statistics made of several counts | a statistic is the list of its counts, in order |
| `MCBackOffice` | the eight modules above as parts of one run | a behaviour is one of one part, as no property relates the tables of two; takes a part with its theorems, and states what they assume of the constants |
| other `MC*` | finite instances of the above | |
| `InventoryReservationProofs`, `ProductSaleProofs` | proofs about `InventoryReservation` and `ProductSale` | |
| `TenancyProofs`, `MembershipsProofs`, `AccountsProofs`, `DevicesProofs`, `ClientsProofs` | proofs about the module in their name | |
| `BackOfficeProofs` | proofs about `Catalogue`, `Listings` and `Statistics`, and the theorems about `MCBackOffice` | the safety properties of the run, as theorems of the whole |

`InventoryReservation` implements `StockLedger` under the mapping free =
`remaining`, held = `reserved`, claim = the history with its demand
(`LedgerSpec`). `ProductSale` implements `PaymentPromise` under the mapping due =
`Due`, asked = the sale of a payments row, confirmed = the COMPLETED rows, credited
= `totalPaid`, issued = `tokens` (`PromiseSpec`). `StockCheck!TakenIsFifo` says that
the loop of `processBatches` computes what `BatchAllocation!FifoAllocations` defines,
which `InventoryReservation` and `ProductSale` take in one step. All three are
proved.

### State and code

`remaining`/`reserved` are `remainingQuantity`/`reservedQuantity`; `rsv[r]` the
rows of reservation r with their common status; `sale`, `payment`, `pending`
the collections of these names; `pay[p]` a payments row; `job[j]` a BullMQ job
with its attempts left; `work` the local variables of the payment worker; `old`
the sales older than `sixHoursAgo`; `cron` and `todo` what a run has still to
do. The actions carry the names of the handlers or of the statement they stand
for, and `map` names the lines.

In the back office every table is a sequence or function of rows under the name
of its collection. `AskX` is the handler of a controller: what a client may ask
for, with which rows. The steps that follow are named after the method and what
it does: `...Find`, `...Member`, `...Main` are reads that may refuse, the others
write. A step that finds its row gone, or a unique key taken, refuses, as Prisma
throws there.

## 4. Runs

| Run | Question | Instance |
|---|---|---|
| `reservation` | do the counters agree with the rows, and is every step one of the ledger? | three requests of any kind, orders of one item or two, two batches, one cleanup run, one restart |
| `reservation_cleanup` | does a living timer release what expired? | two reservations, two overlapping cleanup runs, one restart; fair |
| `reservation_sale` (violation) | does a sale own the units it says it has? | three requests |
| `reservation_oversold` (violation) | does `remainingQuantity` stay a quantity? | two requests, one a direct sale |
| `reservation_no_timer` (violation) | are expired reservations cleaned up at all? | one reservation, one restart; fair |
| `product_sale` | do the sales implement `PaymentPromise`, so that money is counted once, does the status agree, has a cancelled sale its stock back? | one sale over two batches, two payment rows, three callbacks, two attempts, one restart or failing run |
| `product_sale_live` | do unpaid sales and jobs come to an end? | two sales, two jobs, two attempts; fair |
| `product_sale_late` (violation) | is a payment for a cancelled sale refunded? | one sale, one payment |
| `product_sale_retry` (violation) | is a verified payment credited? | one sale, one payment, two attempts |
| `stock_check` | is the loop FIFO, is a checked order never refused later, and is the check exact for one product? | all orders of one or two products, all stocks of up to three units a batch, all orders of rows |
| `stock_check_shared` (violation) | is the check right for two products that share an item? | the same products |
| `back_office` | do tenants, people, goods and customers keep what the handlers' lookups mean to guarantee, and are listings and statistics complete? | eight parts; two slots; see below |

**Why the bounds are enough to be interesting.** Three requests are a
reservation and two that race on it (two completions, or a completion and a
cancellation), or two reservations and a sale. Two batches make an order that
spans both possible, so that FIFO order, partial restoring and a loop cut in
two all happen. Three callbacks for two payments are one payment called back
twice besides another. One restart can fall between any two database accesses;
two attempts make a retry happen and end. A totalPaid between zero and the price
needs `Price = 2` and `StartingPrice = 1`. Symmetry is used only where identities
are interchangeable and only in runs without liveness properties.

In `back_office` the bounds are on requests: three that follow each other
(`MaxRequests`; four in `Tenancy`, two in `Catalogue`) and two that overlap
(`MaxOverlapping`; three in `Tenancy`, `Clients` and `Devices`). Two at once are the
check of one and the write of another, in every order; three in a row are set
up, use and removal (a role made, given and deleted; a device uploaded, deleted
and uploaded again), and a migration after two other requests. `Tenancy` needs
four for a second store to become the main one, the first to be removed and the
script to run. Larger instances passed too: four and two requests in
`Memberships`, four and three in `Devices`, three overlapping ones in `Accounts`.
A walk through a listing of up to three rows begins with any table: every filter,
every way the rows may be sorted, ties among them. Pages of two have a full page and
a last one, and a page of none is what a limit of 0 asks of most listings. `Key`
stands for a column in the direction of the query. `MaxChanges` and
`MaxWrites` bound the writes of others during a walk and a statistic: one row
removed moves another across the border of a page, a row may leave what the filter
finds and come back, and two writes are a change
between each pair of three counts. `Price` and `Parts` have what a minimum and a
maximum need to differ, and prices of half a unit, so that an end is rounded.
`MaxOversold` is how far a batch may go below zero, `Code`, `GivenCount` and `Days`
what a device and a token may be entered with: two codes, one count and, besides the
thirty days and the unlocking of a payment, one duration. A request creates a
category with at most one subcategory, or two without.

What each part shows:

* *Tenancy.* Sequentially, a tenant has one main store that is not removed
  (`OneMainStore`, `MainStoreKept`), through failed transactions too; a domain
  becomes final only together with the role Admin (`FinalHasAdmin`, in every
  interleaving); the script misses nobody in silence: who is still without a store
  is one whose creation it logged as failed (`MigrationCovers`).
* *Memberships.* One membership per user and tenant, naming a role that exists
  (`OneMembership`, `MemberHasRole`, without overlap); a user works in a store of its
  own tenant, whatever overlaps (`StoreIsOwn`); a user without a membership is
  explained by an agent row, a deletion or a failure (`StrandedByFailure`); the
  script leaves nobody without a store in silence (`EverybodyAssigned`). That a tenant
  which paid can be onboarded again is not promised by this code: a role is updated
  and deleted by its id alone (`roles.service.ts:132-221`), so a member of another
  tenant can take the Admin role of one that still waits for its first user.
* *Accounts.* A link that was used or replaced stays dead (`DeadLinksStayDead`); one
  reset link per user, without overlap (`OneResetLink`).
* *Devices.* No token is handed out twice, even when a job and a payment read the
  same count and mean the same duration: the unique token row stops the second
  (`TokensSentOnce`). Two of one count and different durations are both handed out,
  and the device will take one of them. Without overlap the count is past all tokens,
  unless somebody changed it (`CountCoversTokens`).
* *Catalogue.* Items without batches and products without parts come from
  failures, and from lists that name an item twice, only (`NothingEmpty`); shown
  prices are of batches that still have units, rounded as the answer rounds them,
  and a product's range is the least and the most its parts can cost
  (`PricesAreOfStock`).
* *Clients.* No sale and no reservation loses its customer but in a race of two
  requests that have both looked before either writes (`CustomerIsThere`): the
  older read of the deletion alone does no harm, since the relation is looked at again,
  and a reservation whose customer is gone becomes no sale. Signatures are kept
  without overlap where the storage provider answers with a url, and never stored
  where it does not (`SignaturesKept`); the date goes with the owner's
  (`DatedByOwner`).
* *Listings, Statistics.* Which writes leave a walk complete and without
  repetition (`WalkShowsEveryRow`, `NoRowTwice`) and a statistic consistent
  (`StatsAddUp`). What a write means to a walk (`Meaning`) is that a row moves in the
  order, leaves what the query finds, or comes to it: behind all others, before one,
  or before one and between the two reads of a page. TLC finds a counterexample
  when any one condition of the two properties is dropped.

**Deadlock** is checked in every run except those of `StockCheck`, a sequential
algorithm that ends, and `back_office`, whose requests are bounded; the other
servers keep answering requests that only read (`Browse`).

**Fairness.** Requests and callbacks are never assumed to arrive. The cleanup
timer fires while it lives (weak fairness of `CleanupRead`), and a cancellation
that keeps being possible is not refused for ever (strong fairness of
`CleanupCancel`, which other commits may disable again and again). The worker
takes waiting jobs and goes on (weak fairness of `WorkerStep`), and `@Cron` comes
back every six hours (weak fairness of `CronStep`). Failures are bounded by
`MaxCrashes`, `MaxFaults` and the attempts of a job, the only bounds in guards;
`MaxQuantity` and `MaxItems` bound the size of orders.

## 5. What the models found

Each is a violation run, with the quoted line in `findings`.

1. `completeSaleFromReservation` reads the ACTIVE rows before its transaction and
   never makes their status a condition: behind a committed cancellation or
   completion it still creates a paid sale, which owns no unit.
2. `createSaleItemsAndUpdateBatches` decrements without the condition that the
   reservations use: `remainingQuantity` becomes negative. (`createSale` has the same
   pattern.)
3. The cleanup timer starts in the constructor of a request-scoped service: after
   a restart nothing is cleaned up until a request comes along.
4. The cron job cancels the sale and then updates the payment whose id is the
   *sale's*: it throws, no payment ever becomes FAILED, the refund branch of
   `verifyPayment` is dead, and a late payment completes a sale whose stock is
   already back.
5. `verifyPayment` commits COMPLETED before the sale is credited: if the rest of
   the attempt fails, the retry sees COMPLETED, reports success, and the sale is
   never credited.
6. While it checks an order, `allocateInventory` runs one countdown through all
   inventories of a product, in multiples of what the whole line needs: after the
   first inventory the countdown may be over and the others are not put aside, so
   two products that share an item pass together although the stock is enough for
   one, and `createSale` takes the batch below zero.

Met while modelling, and recorded as hazards or here, since no line promises
the contrary under the circumstances, or since a run would only repeat the code:

* The mail of a second `forgotPassword` carries the link that was just replaced
  (`auth.service.ts:405`); `ForgotMail` sends it, and it opens nothing.
* `sendMail` deletes the user when a mail fails ("to remove the user being created
  when the mailing fails", `email.service.ts:22`), but `addUser` has linked it by
  then, and the required relation of the membership restricts the deletion: the
  user stays, without a link, and its e-mail is refused from then on
  (`AddUserMail`).
* `getUnassignedUsers` lists every member of the tenant (`store.service.ts:557`),
  where the controller says "Retrieves users in tenant that are not assigned to any
  store" (`store.controller.ts:105`).
* The paginated listing of stores shows removed ones (`store.service.ts:110`), the
  plain one on line 87 does not.
* With `STORAGE_PROVIDER=spaces` a contract's signatures are accepted and not stored:
  the answer of the upload has a `Location`, and `contract.service.ts:228` reads
  `secure_url || url` (`WithUrl`). The images of customers, items and products are lost alike; the upload of devices knows of `Location` (`device.controller.ts:86`).
* Roles are renamed, emptied and deleted by id, without a look at their tenant
  (`roles.service.ts:132`, `189`; `AskUpdateRole`, `AskRemoveRole`).
* Two tokens of one count and different durations both pass the unique key
  (`device-tokens.prisma:47`) and are both sent; the device takes the first only.
* Deleting a role that is in use takes its permissions away before the database
  refuses the rest (`roles.service.ts:196`; `StripRole`, `DeleteRole`).
* A sold-out item shows the lowest price of an empty list (`inventory.service.ts:538`).
* Keys of a tenant's payment provider are stored encrypted (`tenants.service.ts:212`,
  `547`); the Flutterwave client takes them from the row as they are.
* A list of categories is created one by one; a name that exists ends it halfway
  (`inventory.service.ts:334`).

## 6. Proofs

All hold for every value of the constants under the `ASSUME`s of the modules, which
TLC also evaluates: finite sets of batches, requests, payments, slots and users;
natural bounds; positive prices and limits; "absent" values outside the sets they
complete; companies older than the stores are companies (`Legacy`), the first user
is a user (`First`), keys and limits are numbers, there is a key, prices are whole
numbers of some part of the currency, units and the parts of a product are counted, there are two names of categories. What the parts of the back office assume, `MCBackOffice` states for the whole.
Every module that is proved about ends with a section "Why", which holds its
inductive invariant.

* **Reservations.** `TypeCorrect` stands alone. The counters need `StockInv`
  (defined in `InventoryReservation`): besides the goals it says that the history
  of a claim goes with the status of its rows (`ClaimMatchesRow`), that a request
  whose transaction is still to come has taken and sold nothing
  (`NothingTakenYet`), and that what a completion read is still what the rows list
  (`CompletionReadTheRows`, true because allocations never change after the
  reservation is made, only statuses do). Without the last, a completion might
  sell other units than it releases. Since stock moves only when one claim changes
  state, one lemma (`ClaimMoves`) counts units, and each handler is an instance
  of it. Results: `ReservedCorrect`, `StockIsConserved`, `NoOversellByReservations`,
  `SoldUnitsAreOnASale`, and `LedgerRefined`: the system implements `StockLedger`.
* **Product sales.** `SaleInv` (in `ProductSale`) is inductive (`SaleInvInductive`).
  The heart is `WorkerKnows`: between marking a payment COMPLETED and crediting the
  sale, the sale lacks at least what is due, and the totalPaid the worker read is
  still the sale's, because only the worker writes it and there is one worker.
  With a second worker it would not hold. `CronHasRestored` says that a run has
  restored all it no longer has to do; `RowsExist`, `FreshSales` and
  `JobsHaveAttempts` rule out rows without a sale, money before the commit, and
  attempt counters below zero. Results: `SaleTypeCorrect`, `PaymentsCountedOnce`,
  `StatusAgrees`, `CancelledRestored`.
* **The promise of the payments.** `PromiseKept`: every step of `ProductSale` is one
  of `PaymentPromise`, or leaves it alone. `CommitSale` settles a price, which no
  payment asks for yet (`RowsExist`, `FreshSales`); `NewPayment` asks; `Verify`
  confirms or, for a row marked REFUNDED, does nothing, as the worker's status is
  the row's (`WorkerKnows`); `CreditSale` and `IssueTokens` have the room they need,
  also by `WorkerKnows`; all others change neither money nor tokens
  (`OtherStepsStay`). It says what `PaymentsCountOnce` says of states, and besides
  that a confirmed payment, a price that was asked for and money once credited
  never change back.
* **The stock check.** `CheckInv` (in `StockCheck`) says what holds between two rounds
  of the four loops. A line that passed the check is covered by the stock of each of
  its inventories (`PassedFits`), which is why the allocation never throws after it
  (`CheckedTakeable`); that is said of lines one by one, as it is false of their sum
  (finding 6). `BatchesTaken` is the invariant of the loop over the batches of a part:
  what was taken and what is wanted add up to what is required, batches read are used
  up while more is wanted; `PartsTaken` says that what is done is FIFO (`LoopIsFifo`).
  `SingleExact`: for one product the check is exact in both directions, and the
  transaction takes no batch below zero. That a recipe is a function of the inventory
  is justified by the unique key of its rows (`product.prisma:48`).
* **Customers and contracts.** Three inductive invariants, in `Clients`. `TypeInv`
  adds to `TypeOK` that a request names rows that exist (`RequestsName`). `SaleInv`
  adds `LookupsHold`: what a sale, a reservation or a deletion has looked up and not
  yet used is still so, or the two are in `raced`. A deletion that looked finds
  later what was made only in `raced`; a sale that looked finds its customer gone only
  when a deletion was written in between, which puts it there. `SignatureInv` says in addition that
  the signatures and the date a request holds were read together (`ReadTogether`),
  which is why `DatedByOwner` survives overlapping requests; and that without an
  overlap there is one request (`Alone`) whose signatures are still the contract's
  (`ReadIsCurrent`), and that without a url nothing is ever stored (`NothingStored`),
  which is all that keeps `SignaturesKept`. Results:
  `TypeCorrect`, `SaleCorrect`, `SignaturesCorrect`, `DateCorrect`.
* **Tenants and stores.** `StoreInv`. Whatever overlaps, a final domain comes with
  the role Admin. Without an overlap, each request that is between its lookup and
  its write still has what it found (`Knows`: no other main store when it makes one,
  another when it steps one down or removes it, the tenants the migration has still
  to serve, those without a store being among them or logged), so a tenant never has two main stores (`OneIsMain`), and one that is not
  `Legacy` has no removed one (`MainIsLive`) and has one at all from its onboarding on
  (`AdminHasMain`). The proof found a missing hypothesis of `MainStoreKept`: with
  `NullMatchesUnset = FALSE`, and the main store renamed, the agreed amount makes a
  second one; the first may then be removed, and the second stepped down because
  the removed one is still counted. TLC showed it in five requests. The property
  now names the assumption.
* **Memberships.** `MemberInv` holds whatever overlaps: a request names rows whose
  user and tenant never change (`Named`), so stores are a member's own
  (`RowsAreOwn`, `SessionsAreOwn`), users behind live rows exist
  (`NobodyIsNoMember`), and `StrandedByFailure`. `AloneInv` adds, without an overlap, that the role a request
  is going to write exists, that the user it is going to link is no member yet, and
  that the rows without a store are those the migration has still to write or has
  logged (`Knows`); hence
  one row per user and tenant (`OneRow`) and a readable role behind each
  (`Readable`).
* **Links.** `DeadInv` needs no assumption about overlaps: links are numbered
  (`LinksAreFresh`), rows never share one (`TokensAreUnique`), a request that
  follows a link holds the only row that has it (`FollowsItsRow`), so consuming it
  leaves it in no row (`DeadAreGone`). `OneInv` adds that what `forgotPassword` found
  is still so when it saves (`FindIsCurrent`), without an overlap.
* **Devices.** `SentInv`: what was sent is a row (`SentAreRows`), what is about to be
  sent is a row that was not (`SendingIsNew`), and no two requests are about to
  send the same (`SendingApart`), as the tokens in rows are unique. That is why two jobs that read
  the same count cannot both send it. `CountInv`: without an overlap the count a
  request holds is ahead of the row before it is written and not after
  (`CountIsNext`); ids are fresh, so a device that comes back has no old rows.
* **Catalogue.** `CatalogueInv`: a request at its second write is the one that fills
  its row (`InventoriesFull`, `ProductsFull`), and a product is created from a list
  that is not empty (`Knows`), so only `Cut` leaves a row empty (`NothingEmpty`). `PricesAreOfStock` is about one
  state: what floor and ceiling do to a price (`WholeUnits`), sums that
  are bounded row by row, and that the least of a sum of independent choices is
  the sum of the least.
* **Listings.** `WalkInv`. The place of a row is the number of rows that may come
  before it (`Ahead`). As long as none moves and no two are sorted alike, a row that
  comes to what the query finds only raises places (or leaves them, if it is behind
  all), one that leaves only lowers them, and a page shows exactly the rows whose
  places it passes. So shown rows have places the walk has passed (`ShownPassed`),
  rows not shown have places still ahead (`PassedShown`), and the total counts those
  to come (`TotalGoesOn`); `InPlace` says that rows found at the beginning are still
  found if none left, and that a count follows its rows where it is read last. The
  proof holds for any number of rows, any page size and any keys.
* **Statistics.** `StatsInv`. The counts of disjoint classes add up to the count of
  their union; a total read first covers the parts read and those still to read
  (`TotalFirst`), one read last covers the parts read (`TotalLast`).
* **The back office as a whole.** `BackOfficeProofs` shows that a step of
  `MCBackOffice` is a step of the part the behaviour is of, or stutters
  (`PartSteps`), and lifts every invariant: its theorems (`OneMainStoreHolds`, ...,
  `TypeOKHolds`) state the properties of the run `back_office` themselves.

**Only model-checked**, and why: the liveness properties, as fairness and ENABLED are
out of the prover's reach. Every invariant and every action property of a passing
run is a theorem. The violation runs need no proof.
The inductive invariants were checked by TLC on the instances above, and those of
`Listings` and `Statistics` on larger ones, before they were proved.

## 7. Plan

Done: the modules, runs and proofs above. Left, in this order:

1. The payments of SYSTEM inventory sales, which go through the same worker, under
   `PaymentPromise`.
2. Memberships and stores refined: one abstract table of who works where, which
   `Memberships` implements.
3. `SharedStock`: reservations, product sales and the cron job composed over one
   set of batches, batches arriving and items being soft-deleted in between.

## 8. Not modelled, and why

Mail, SMS, uploads and websocket pushes keep no state that another part depends
on; where their failure changes what a handler does, it is a failing step.
Administration has accounts of its own and listings. The Flutterwave client and
the OpenPayGo encoder appear as their answers (`generatePaymentLink` is called by
nobody). Password hashing, JWTs, encryption and formatting are pure functions.
`createSuperuser` and the seeding scripts run once, on an empty database.
`permissions.service.ts` edits a fixed list, of which roles here only know whether
they have any; the guard that reads them is a set inclusion. `updateUser` and
`superUserUpdateUser` rewrite columns of one row no other request decides on.
`createBatchDeviceTokens` is commented out in the source. Prices and discounts of
sales are arithmetic without an interaction.

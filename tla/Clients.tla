-------------------------------- MODULE Clients --------------------------------
(***************************************************************************)
(* Customers and their contracts: customers.service.ts, the reservations   *)
(* and sales that name a customer (inventory-sale.service.ts,              *)
(* sales.service.ts) and the signatures of contract.service.ts.  Requests  *)
(* run at the same time; each database call outside a transaction is a     *)
(* step of its own.                                                        *)
(***************************************************************************)
EXTENDS Requests, Sequences

CONSTANTS
  Email,  \* e-mails of customers
  Phone   \* phone numbers of customers

VARIABLES
  customers,     \* the customer rows, in the order they were created
  reservations,  \* reservations[r]: the customer of the inventoryReservation row r
  sales,         \* the sales rows: the customer and the contract, or 0
  contracts,     \* the contract rows
  accepted,      \* accepted[c]: the parties whose signature of contract c was accepted
  raced,         \* what was made for a customer while a deletion was past its lookup of it
  storage        \* STORAGE_PROVIDER

clients == <<customers, reservations, sales, contracts, accepted, raced>>
vars == <<clients, storage, req, started, overlap>>

\* Who signs a contract, in the order the files are uploaded.
Party == {"owner", "nextOfKin", "guarantor"}

\* A row that is not there was deleted for good.
CustomerRow == [email : Email, phone : Phone, status : {"active", "barred"}, there : BOOLEAN]
SaleRow == [customer : Nat, contract : Nat]
ContractRow == [signatures : SUBSET Party, signedAt : BOOLEAN]

NewCustomer(e, p) == [email |-> e, phone |-> p, status |-> "active", there |-> TRUE]
NewContract == [signatures |-> {}, signedAt |-> FALSE]

Op == {"idle", "create", "update", "delete", "reserve", "complete", "sell", "sign"}
At == {"idle", "find", "email", "write", "bar", "restrict", "remove", "commit", "contract",
       "link", "upload"}
Request == [op : Op, at : At, row : Nat, email : SUBSET Email, phone : SUBSET Phone,
            flag : BOOLEAN, files : SUBSET Party, signatures : SUBSET Party, contract : Nat]
Idle == [op |-> "idle", at |-> "idle", row |-> 0, email |-> {}, phone |-> {},
         flag |-> FALSE, files |-> {}, signatures |-> {}, contract |-> 0]

Init ==
  /\ \E e \in Email, p \in Phone : customers = <<NewCustomer(e, p)>>
  /\ reservations = <<>>
  /\ sales = <<>>
  /\ contracts \in {<<>>, <<NewContract>>}
  /\ accepted = [c \in DOMAIN contracts |-> {}]
  /\ raced = {}
  /\ storage \in {"cloudinary", "spaces"}
  /\ InitRequests(Idle)

There == {c \in DOMAIN customers : customers[c].there}

-----------------------------------------------------------------------------
(* Requests *)

Begin(s, request) == Accept(s, request) /\ UNCHANGED clients
Finish(s) == Set(s, Idle)
Refuse(s) == Finish(s) /\ UNCHANGED clients

Ask(op, i) == [Idle EXCEPT !.op = op, !.at = "find", !.row = i]

\* customers.controller.ts
AskCreateCustomer(s) ==
  \E e \in Email, p \in Phone : Begin(s, [Ask("create", 0) EXCEPT !.email = {e}, !.phone = {p}])
AskUpdateCustomer(s) ==
  \E c \in There, e \in Email, p \in Phone :
    Begin(s, [Ask("update", c) EXCEPT !.email = {e}, !.phone = {p}])
AskDeleteCustomer(s) == \E c \in There : Begin(s, Ask("delete", c))

\* inventory-sale.controller.ts and sales.controller.ts
AskReservation(s) == \E c \in There : Begin(s, Ask("reserve", c))
AskCompletion(s) == \E r \in DOMAIN reservations : Begin(s, Ask("complete", r))
AskSale(s) ==
  \E c \in There, installment \in BOOLEAN :
    Begin(s, [Ask("sell", c) EXCEPT !.flag = installment])

\* contract.controller.ts: any of the three files, or none.
AskUploadSignatures(s) ==
  \E c \in DOMAIN contracts, files \in SUBSET Party :
    Begin(s, [Ask("sign", c) EXCEPT !.files = files])

Start(s) ==
  AskCreateCustomer(s) \/ AskUpdateCustomer(s) \/ AskDeleteCustomer(s)
  \/ AskReservation(s) \/ AskCompletion(s) \/ AskSale(s) \/ AskUploadSignatures(s)

\* An error, an upload that does not work or a restart ends a request.
Fail(s) == Busy(s) /\ Refuse(s)

EmailOf(s) == CHOOSE e \in req[s].email : TRUE
PhoneOf(s) == CHOOSE p \in req[s].phone : TRUE

-----------------------------------------------------------------------------
(* customers.service.ts *)

HasEmail(e) == {c \in There : customers[c].email = e}
HasPhone(p) == {c \in There : customers[c].phone = p}

CreateFind(s) ==
  /\ Running(s, "create", "find")
  /\ IF HasEmail(EmailOf(s)) # {} THEN Refuse(s) ELSE Goto(s, "write") /\ UNCHANGED clients

\* @@unique([tenantId, phone]).
CreateCustomer(s) ==
  /\ Running(s, "create", "write")
  /\ IF HasPhone(PhoneOf(s)) # {} THEN Refuse(s)
     ELSE /\ customers' = Append(customers, NewCustomer(EmailOf(s), PhoneOf(s)))
          /\ Finish(s)
          /\ UNCHANGED <<reservations, sales, contracts, accepted, raced>>

UpdateFind(s) ==
  LET c == req[s].row
  IN
  /\ Running(s, "update", "find")
  /\ IF c \notin There THEN Refuse(s)
     ELSE /\ Goto(s, IF EmailOf(s) = customers[c].email THEN "write" ELSE "email")
          /\ UNCHANGED clients

UpdateEmail(s) ==
  /\ Running(s, "update", "email")
  /\ IF HasEmail(EmailOf(s)) \ {req[s].row} # {} THEN Refuse(s)
     ELSE Goto(s, "write") /\ UNCHANGED clients

UpdateCustomer(s) ==
  LET c == req[s].row
  IN
  /\ Running(s, "update", "write")
  /\ IF c \notin There \/ HasPhone(PhoneOf(s)) \ {c} # {} THEN Refuse(s)
     ELSE /\ customers' = [customers EXCEPT ![c].email = EmailOf(s), ![c].phone = PhoneOf(s)]
          /\ Finish(s)
          /\ UNCHANGED <<reservations, sales, contracts, accepted, raced>>

SalesOf(c) == {i \in DOMAIN sales : sales[i].customer = c}
ReservationsOf(c) == {r \in DOMAIN reservations : reservations[r] = c}

\* Whoever has bought is barred, the others are deleted, as of this read.
DeleteFind(s) ==
  LET c == req[s].row
  IN
  /\ Running(s, "delete", "find")
  /\ IF c \notin There THEN Refuse(s)
     ELSE Goto(s, IF SalesOf(c) # {} THEN "bar" ELSE "restrict") /\ UNCHANGED clients

BarCustomer(s) ==
  LET c == req[s].row
  IN
  /\ Running(s, "delete", "bar")
  /\ IF c \notin There THEN Refuse(s)
     ELSE /\ customers' = [customers EXCEPT ![c].status = "barred"]
          /\ Finish(s)
          /\ UNCHANGED <<reservations, sales, contracts, accepted, raced>>

\* Prisma, by default, does not delete a row that a required relation names:
\* on MongoDB it looks for such rows first, and what others write meanwhile is
\* no conflict.
Referenced(c) == SalesOf(c) \cup ReservationsOf(c) # {}

\* Mutant: reservations are not looked for.
RestrictBySales(s) ==
  LET c == req[s].row
  IN
  /\ Running(s, "delete", "restrict")
  /\ IF c \notin There \/ SalesOf(c) # {} THEN Refuse(s)
     ELSE Goto(s, "remove") /\ UNCHANGED clients

DeleteRestrict(s) ==
  LET c == req[s].row
  IN
  /\ Running(s, "delete", "restrict")
  /\ IF c \notin There \/ Referenced(c) THEN Refuse(s)
     ELSE Goto(s, "remove") /\ UNCHANGED clients

\* A deletion of customer c, and a sale or a reservation for it, that have
\* looked for what they need and not written yet.
Removing(s, c) == Running(s, "delete", "remove") /\ req[s].row = c
Making(s, kind, c) ==
  /\ req[s].row = c
  /\ \/ kind = "sale" /\ req[s].op \in {"complete", "sell"} /\ req[s].at = "commit"
     \/ kind = "reservation" /\ Running(s, "reserve", "write")

DeleteCustomer(s) ==
  LET c == req[s].row
      made == {kind \in {"sale", "reservation"} : \E o \in Slot : Making(o, kind, c)}
  IN
  /\ Running(s, "delete", "remove")
  /\ IF c \notin There THEN Refuse(s)
     ELSE /\ customers' = [customers EXCEPT ![c].there = FALSE]
          /\ raced' = raced \cup (made \X {c})
          /\ Finish(s)
          /\ UNCHANGED <<reservations, sales, contracts, accepted>>

-----------------------------------------------------------------------------
(* Reservations and sales *)

\* createReservationWithPreview and validateSalesRelations look the customer
\* up, whatever its status.
FindCustomer(s) ==
  /\ Running(s, "reserve", "find") \/ Running(s, "sell", "find")
  /\ IF req[s].row \notin There THEN Refuse(s) ELSE Goto(s, "write") /\ UNCHANGED clients

Made(kind, c) ==
  raced' = IF \E s \in Slot : Removing(s, c) THEN raced \cup {<<kind, c>>} ELSE raced

\* The customer is not looked at again.
Reserve(s) ==
  /\ Running(s, "reserve", "write")
  /\ reservations' = Append(reservations, req[s].row)
  /\ Made("reservation", req[s].row)
  /\ Finish(s)
  /\ UNCHANGED <<customers, sales, contracts, accepted>>

InsertSale(c) ==
  /\ sales' = Append(sales, [customer |-> c, contract |-> 0])
  /\ Made("sale", c)
  /\ UNCHANGED <<customers, reservations, contracts, accepted>>

\* completeSaleFromReservation takes the customer from the reservation.
ReadReservation(s) ==
  /\ Running(s, "complete", "find")
  /\ Set(s, [req[s] EXCEPT !.at = "write", !.row = reservations[req[s].row]])
  /\ UNCHANGED clients

\* Mutant: the sale is created without its customer in the answer.
SellUnread(s) ==
  /\ req[s].op \in {"complete", "sell"} /\ req[s].at = "write"
  /\ Goto(s, "commit")
  /\ UNCHANGED clients

\* The transaction answers with the customer, a required relation, as it was
\* when the transaction began: without it Prisma throws, and the sale is rolled
\* back.
BeginSale(s) ==
  /\ req[s].op \in {"complete", "sell"} /\ req[s].at = "write"
  /\ IF req[s].row \notin There THEN Refuse(s) ELSE Goto(s, "commit") /\ UNCHANGED clients

CreateInventorySale(s) == Running(s, "complete", "commit") /\ InsertSale(req[s].row) /\ Finish(s)

CreateSale(s) ==
  /\ Running(s, "sell", "commit")
  /\ InsertSale(req[s].row)
  /\ IF req[s].flag THEN Set(s, [req[s] EXCEPT !.at = "contract", !.row = Len(sales')])
     ELSE Finish(s)

\* A sale in installments: the contract is created, then linked.
CreateContract(s) ==
  /\ Running(s, "sell", "contract")
  /\ contracts' = Append(contracts, NewContract)
  /\ accepted' = Append(accepted, {})
  /\ Set(s, [req[s] EXCEPT !.at = "link", !.contract = Len(contracts')])
  /\ UNCHANGED <<customers, reservations, sales, raced>>

LinkContract(s) ==
  /\ Running(s, "sell", "link")
  /\ sales' = [sales EXCEPT ![req[s].row].contract = req[s].contract]
  /\ Finish(s)
  /\ UNCHANGED <<customers, reservations, contracts, accepted, raced>>

-----------------------------------------------------------------------------
(* uploadContractSignatures *)

\* The signatures so far and signedAt are kept as they were read.
FindContract(s) ==
  LET c == contracts[req[s].row]
  IN
  /\ Running(s, "sign", "find")
  /\ Set(s, [req[s] EXCEPT !.at = "upload", !.signatures = c.signatures, !.flag = c.signedAt])
  /\ UNCHANGED clients

\* The files are uploaded one after the other, and there must be one.  Of the
\* providers, spaces answers with a Location only, neither secure_url nor url.
UploadSignatures(s) ==
  /\ Running(s, "sign", "upload")
  /\ IF req[s].files = {} THEN Refuse(s) ELSE Goto(s, "write") /\ UNCHANGED clients

WithUrl(files) == IF storage = "spaces" THEN {} ELSE files

Signed(s, signatures, signedAt) ==
  /\ Running(s, "sign", "write")
  /\ contracts' = [contracts EXCEPT ![req[s].row] =
                     [signatures |-> signatures, signedAt |-> signedAt]]
  /\ accepted' = [accepted EXCEPT ![req[s].row] = @ \cup req[s].files]
  /\ Finish(s)
  /\ UNCHANGED <<customers, reservations, sales, raced>>

\* What was read, and over it what was uploaded: an undefined url leaves none.
Merged(s) == (req[s].signatures \ req[s].files) \cup WithUrl(req[s].files)

\* Mutant: what was there is not merged.
WriteUpdates(s) ==
  LET uploaded == WithUrl(req[s].files)
  IN Signed(s, uploaded, "owner" \in uploaded \/ req[s].flag)

\* Mutant: signedAt is only written when there is a new date.
WriteDate(s) ==
  Signed(s, Merged(s), "owner" \in Merged(s) \/ contracts[req[s].row].signedAt)

WriteSignatures(s) == Signed(s, Merged(s), "owner" \in Merged(s) \/ req[s].flag)

-----------------------------------------------------------------------------
Step(s) ==
  CreateFind(s) \/ CreateCustomer(s) \/ UpdateFind(s) \/ UpdateEmail(s) \/ UpdateCustomer(s)
  \/ DeleteFind(s) \/ BarCustomer(s) \/ DeleteRestrict(s) \/ DeleteCustomer(s)
  \/ FindCustomer(s) \/ Reserve(s) \/ ReadReservation(s) \/ BeginSale(s)
  \/ CreateInventorySale(s) \/ CreateSale(s) \/ CreateContract(s) \/ LinkContract(s)
  \/ FindContract(s) \/ UploadSignatures(s) \/ WriteSignatures(s)

Next ==
  /\ \E s \in Slot : Start(s) \/ Fail(s) \/ Step(s)
  /\ UNCHANGED storage

Spec == Init /\ [][Next]_vars

-----------------------------------------------------------------------------
(* Correctness *)

\* Every table and every request keeps its shape.
TypeOK ==
  /\ customers \in Seq(CustomerRow)
  /\ reservations \in Seq(Nat)
  /\ sales \in Seq(SaleRow)
  /\ contracts \in Seq(ContractRow)
  /\ accepted \in Seq(SUBSET Party)
  /\ raced \subseteq {"sale", "reservation"} \X Nat
  /\ storage \in {"cloudinary", "spaces"}
  /\ RequestsOK(Request)

\* The customer of a sale and of a reservation is there, unless that was made
\* while a deletion of the customer, too, had looked and not yet written: a
\* customer deleted on the strength of an older read is not one that has bought
\* meanwhile, and a reservation whose customer is gone becomes no sale.
CustomerIsThere ==
  /\ \A i \in DOMAIN sales :
       sales[i].customer \in There \/ <<"sale", sales[i].customer>> \in raced
  /\ \A r \in DOMAIN reservations :
       reservations[r] \in There \/ <<"reservation", reservations[r]>> \in raced

\* A signature that was accepted stays on the contract, whoever signs later
\* and whatever fails, as long as no two requests overlap: every one where the
\* storage provider answers with a url, none where it does not.
SignaturesKept ==
  ~overlap => \A c \in DOMAIN contracts : contracts[c].signatures = WithUrl(accepted[c])

\* A contract has a date of signature if and only if its owner's signature is
\* on it: signatures that overwrite each other take the date with them.
DatedByOwner ==
  \A c \in DOMAIN contracts : contracts[c].signedAt <=> "owner" \in contracts[c].signatures

-----------------------------------------------------------------------------
(* Why: what a request has read, compared with the tables *)

Signing(s) == req[s].op = "sign" /\ req[s].at \in {"upload", "write"}

\* A request names rows that exist, and values to write where it writes some.
Names(r) ==
  /\ r.op \in {"create", "update"} => r.email # {} /\ r.phone # {}
  /\ r.op = "complete" /\ r.at = "find" => r.row \in DOMAIN reservations
  /\ r.op = "sell" /\ r.at \in {"contract", "link"} => r.row \in DOMAIN sales
  /\ r.op = "sign" => r.row \in DOMAIN contracts
RequestsName == \A s \in Slot : Names(req[s])

\* The date and the signatures a request holds were read together.
ReadTogether == \A s \in Slot : Signing(s) => (req[s].flag <=> "owner" \in req[s].signatures)

\* What was looked up before a sale, a reservation or a deletion is still so
\* when it is written, or the two raced.
LookupsHold ==
  \A s \in Slot :
    /\ \A kind \in {"sale", "reservation"} :
         Making(s, kind, req[s].row) => req[s].row \in There \/ <<kind, req[s].row>> \in raced
    /\ Removing(s, req[s].row) =>
         /\ SalesOf(req[s].row) # {} => <<"sale", req[s].row>> \in raced
         /\ ReservationsOf(req[s].row) # {} => <<"reservation", req[s].row>> \in raced

\* Without an overlap there is one request, and what it has read is current.
ReadIsCurrent ==
  ~overlap => \A s \in Slot : Signing(s) => req[s].signatures = contracts[req[s].row].signatures

\* Where the storage provider answers with no url no signature is ever there.
NothingStored ==
  storage = "spaces" =>
    /\ \A c \in DOMAIN contracts : contracts[c].signatures = {}
    /\ \A s \in Slot : Signing(s) => req[s].signatures = {}

TypeInv == TypeOK /\ RequestsName /\ Len(accepted) = Len(contracts)
SaleInv == TypeInv /\ CustomerIsThere /\ LookupsHold
SignatureInv ==
  /\ TypeInv /\ ReadTogether /\ Alone /\ ReadIsCurrent /\ NothingStored
  /\ SignaturesKept /\ DatedByOwner
=============================================================================

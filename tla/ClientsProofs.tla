----------------------------- MODULE ClientsProofs -----------------------------
(***************************************************************************)
(* Proofs about Clients: every table keeps its shape, no sale loses its    *)
(* customer but in a race, and signatures and their date stay together,    *)
(* for any e-mails, phone numbers, slots and numbers of requests.          *)
(***************************************************************************)
EXTENDS Clients, SequenceTheorems, TLAPS

-----------------------------------------------------------------------------
(* Requests *)

Kind == {"sale", "reservation"}

\* The tables, without the requests.
TablesOK ==
  /\ customers \in Seq(CustomerRow)
  /\ reservations \in Seq(Nat)
  /\ sales \in Seq(SaleRow)
  /\ contracts \in Seq(ContractRow)
  /\ accepted \in Seq(SUBSET Party)
  /\ Len(accepted) = Len(contracts)
  /\ raced \subseteq Kind \X Nat

\* No table but the one of customers forgets a row.
Grow ==
  /\ DOMAIN reservations \subseteq DOMAIN reservations'
  /\ DOMAIN sales \subseteq DOMAIN sales'
  /\ DOMAIN contracts \subseteq DOMAIN contracts'

\* A step of the request in slot s keeps the shape of everything if it leaves
\* a request that names what there is, and the tables keep theirs.
LEMMA Served ==
  ASSUME TypeInv, NEW s \in Slot, NEW r \in Request,
         req' = [req EXCEPT ![s] = r], started' \in Nat, overlap' \in BOOLEAN,
         TablesOK', Grow, Names(req[s])', UNCHANGED storage
  PROVE  TypeInv'
<1>1. req \in [Slot -> Request] BY DEF TypeInv, TypeOK, RequestsOK
<1>2. req' \in [Slot -> Request] BY <1>1
<1>3. TypeOK' BY <1>2 DEF TypeOK, TablesOK, RequestsOK, TypeInv, Kind
<1>4. ASSUME NEW o \in Slot PROVE Names(req[o])'
  <2>1. CASE o = s BY <2>1
  <2>2. CASE o # s
    <3>1. req'[o] = req[o] BY <1>1, <2>2
    <3>2. Names(req[o]) BY DEF TypeInv, RequestsName
    <3> QED BY <3>1, <3>2 DEF Names, Grow
  <2> QED BY <2>1, <2>2
<1> QED BY <1>3, <1>4 DEF TypeInv, RequestsName, TablesOK

\* What TypeInv says of the tables and of the request in a slot.
LEMMA TypeFacts ==
  ASSUME TypeInv, NEW s \in Slot
  PROVE  /\ TablesOK
         /\ req \in [Slot -> Request]
         /\ req[s] \in Request
         /\ started \in Nat /\ overlap \in BOOLEAN
         /\ Names(req[s])
BY DEF TypeInv, TypeOK, RequestsOK, TablesOK, RequestsName, Kind

\* A request that goes on without touching a table.
LEMMA TypeQuiet ==
  ASSUME TypeInv, NEW s \in Slot, NEW a \in At,
         req' = [req EXCEPT ![s].at = a], UNCHANGED <<started, overlap, clients>>,
         ~(req[s].op = "complete" /\ a = "find"),
         ~(req[s].op = "sell" /\ a \in {"contract", "link"}), UNCHANGED storage
  PROVE  TypeInv'
<1> DEFINE r == [req[s] EXCEPT !.at = a]
<1>1. TablesOK /\ req \in [Slot -> Request] /\ req[s] \in Request /\ Names(req[s])
      /\ started \in Nat /\ overlap \in BOOLEAN
  BY TypeFacts
<1>2. r \in Request BY <1>1 DEF Request
<1>3. req' = [req EXCEPT ![s] = r] OBVIOUS
<1>4. TablesOK' /\ Grow BY <1>1 DEF TablesOK, clients, Grow
<1>5. Names(req[s])'
  <2>1. req'[s] = r BY <1>1, <1>3
  <2>2. /\ r.op = req[s].op /\ r.at = a /\ r.row = req[s].row
        /\ r.email = req[s].email /\ r.phone = req[s].phone
    BY <1>1 DEF Request
  <2> HIDE DEF r
  <2> QED BY <1>1, <2>1, <2>2 DEF Names, clients
<1> QED BY <1>1, <1>2, <1>3, <1>4, <1>5, Served

\* A request that ends, in whatever the tables have become.
LEMMA TypeEnds ==
  ASSUME TypeInv, NEW s \in Slot, Finish(s), TablesOK', Grow, UNCHANGED storage
  PROVE  TypeInv'
<1>1. req \in [Slot -> Request] /\ started \in Nat /\ overlap \in BOOLEAN BY TypeFacts
<1>2. req' = [req EXCEPT ![s] = Idle] /\ UNCHANGED <<started, overlap>> BY DEF Finish, Set
<1>3. Idle \in Request BY DEF Idle, Request, Op, At
<1>4. Names(req[s])' BY <1>1, <1>2 DEF Names, Idle
<1> QED BY <1>1, <1>2, <1>3, <1>4, Served

LEMMA TypeRefused ==
  ASSUME TypeInv, NEW s \in Slot, Refuse(s), UNCHANGED storage
  PROVE  TypeInv'
<1>1. TablesOK BY TypeFacts
<1>2. TablesOK' /\ Grow BY <1>1 DEF TablesOK, Grow, Refuse, clients
<1> QED BY <1>2, TypeEnds DEF Refuse

\* A request that arrives.
LEMMA TypeAccepted ==
  ASSUME TypeInv, NEW s \in Slot, NEW r \in Request, Begin(s, r), Names(r), UNCHANGED storage
  PROVE  TypeInv'
<1>1. TablesOK /\ req \in [Slot -> Request] /\ started \in Nat /\ overlap \in BOOLEAN
  BY TypeFacts
<1>2. /\ req' = [req EXCEPT ![s] = r] /\ started' = started + 1 /\ UNCHANGED clients
      /\ overlap' \in BOOLEAN
  BY <1>1 DEF Begin, Accept
<1>3. TablesOK' /\ Grow BY <1>1, <1>2 DEF TablesOK, Grow, clients
<1>4. req'[s] = r BY <1>1, <1>2
<1>5. Names(req[s])' BY <1>2, <1>4 DEF Names, clients
<1>6. started' \in Nat BY <1>1, <1>2
<1> QED BY <1>1, <1>2, <1>3, <1>5, <1>6, Served

LEMMA TypeStart ==
  ASSUME TypeInv, NEW s \in Slot, Start(s), UNCHANGED storage
  PROVE  TypeInv'
<1> USE DEF Ask, Idle, Request, Op, At, Names
<1>0. TablesOK BY TypeFacts
<1>1. CASE AskCreateCustomer(s)
  <2>1. PICK e \in Email, p \in Phone :
          Begin(s, [Ask("create", 0) EXCEPT !.email = {e}, !.phone = {p}])
    BY <1>1 DEF AskCreateCustomer
  <2> QED BY <2>1, TypeAccepted
<1>2. CASE AskUpdateCustomer(s)
  <2>1. PICK c \in There, e \in Email, p \in Phone :
          Begin(s, [Ask("update", c) EXCEPT !.email = {e}, !.phone = {p}])
    BY <1>2 DEF AskUpdateCustomer
  <2>2. c \in Nat BY <1>0 DEF There, TablesOK
  <2> QED BY <2>1, <2>2, TypeAccepted
<1>3. CASE AskDeleteCustomer(s)
  <2>1. PICK c \in There : Begin(s, Ask("delete", c)) BY <1>3 DEF AskDeleteCustomer
  <2>2. c \in Nat BY <1>0 DEF There, TablesOK
  <2> QED BY <2>1, <2>2, TypeAccepted
<1>4. CASE AskReservation(s)
  <2>1. PICK c \in There : Begin(s, Ask("reserve", c)) BY <1>4 DEF AskReservation
  <2>2. c \in Nat BY <1>0 DEF There, TablesOK
  <2> QED BY <2>1, <2>2, TypeAccepted
<1>5. CASE AskCompletion(s)
  <2>1. PICK r \in DOMAIN reservations : Begin(s, Ask("complete", r)) BY <1>5 DEF AskCompletion
  <2>2. r \in Nat BY <1>0 DEF TablesOK
  <2> QED BY <2>1, <2>2, TypeAccepted
<1>6. CASE AskSale(s)
  <2>1. PICK c \in There, installment \in BOOLEAN :
          Begin(s, [Ask("sell", c) EXCEPT !.flag = installment])
    BY <1>6 DEF AskSale
  <2>2. c \in Nat BY <1>0 DEF There, TablesOK
  <2> QED BY <2>1, <2>2, TypeAccepted
<1>7. CASE AskUploadSignatures(s)
  <2>1. PICK c \in DOMAIN contracts, files \in SUBSET Party :
          Begin(s, [Ask("sign", c) EXCEPT !.files = files])
    BY <1>7 DEF AskUploadSignatures
  <2>2. c \in Nat BY <1>0 DEF TablesOK
  <2> QED BY <2>1, <2>2, TypeAccepted
<1> QED BY <1>1, <1>2, <1>3, <1>4, <1>5, <1>6, <1>7 DEF Start

-----------------------------------------------------------------------------
(* The handlers of customers *)

\* The e-mail and the phone number of a request are ones.
LEMMA ValuesToWrite ==
  ASSUME TypeInv, NEW s \in Slot, req[s].op \in {"create", "update"}
  PROVE  EmailOf(s) \in Email /\ PhoneOf(s) \in Phone
<1>1. req[s] \in Request /\ Names(req[s]) BY TypeFacts
<1>2. req[s].email # {} /\ req[s].email \subseteq Email BY <1>1 DEF Names, Request
<1>3. req[s].phone # {} /\ req[s].phone \subseteq Phone BY <1>1 DEF Names, Request
<1> QED BY <1>2, <1>3 DEF EmailOf, PhoneOf

LEMMA CustomerRows ==
  ASSUME customers \in Seq(CustomerRow)
  PROVE  /\ There \subseteq 1..Len(customers)
         /\ \A c \in There : customers[c] \in CustomerRow /\ customers[c].there
BY ElementOfSeq, LenProperties DEF There

\* What is written to a customer that is there.
LEMMA CustomerWritten ==
  ASSUME TypeInv, NEW s \in Slot, NEW c \in There, NEW row \in CustomerRow,
         customers' = [customers EXCEPT ![c] = row], Finish(s),
         UNCHANGED <<reservations, sales, contracts, accepted, storage>>,
         raced' \subseteq Kind \X Nat
  PROVE  TypeInv'
<1>1. TablesOK BY TypeFacts
<1>2. c \in 1..Len(customers) BY <1>1, CustomerRows DEF TablesOK
<1>3. customers' \in Seq(CustomerRow) BY <1>1, <1>2, ExceptSeq DEF TablesOK
<1>4. TablesOK' /\ Grow BY <1>1, <1>3 DEF TablesOK, Grow
<1> QED BY <1>4, TypeEnds

\* createCustomer, updateCustomer and deleteCustomer write rows of customers.
LEMMA TypeCustomers ==
  ASSUME TypeInv, NEW s \in Slot,
         CreateCustomer(s) \/ UpdateCustomer(s) \/ BarCustomer(s) \/ DeleteCustomer(s), UNCHANGED storage
  PROVE  TypeInv'
<1>1. TablesOK /\ req[s] \in Request BY TypeFacts
<1>2. customers \in Seq(CustomerRow) BY <1>1 DEF TablesOK
<1> DEFINE c == req[s].row
<1>3. CASE Refuse(s) BY <1>3, TypeRefused
<1>4. CASE CreateCustomer(s) /\ ~Refuse(s)
  <2>1. NewCustomer(EmailOf(s), PhoneOf(s)) \in CustomerRow
    BY <1>4, ValuesToWrite DEF CreateCustomer, Running, NewCustomer, CustomerRow
  <2>2. /\ customers' = Append(customers, NewCustomer(EmailOf(s), PhoneOf(s)))
        /\ Finish(s) /\ UNCHANGED <<reservations, sales, contracts, accepted, raced>>
    BY <1>4 DEF CreateCustomer
  <2>3. customers' \in Seq(CustomerRow) BY <1>2, <2>1, <2>2
  <2>4. TablesOK' /\ Grow BY <1>1, <2>2, <2>3 DEF TablesOK, Grow
  <2> QED BY <2>2, <2>4, TypeEnds
<1>5. CASE UpdateCustomer(s) /\ ~Refuse(s)
  <2> DEFINE row == [customers[c] EXCEPT !.email = EmailOf(s), !.phone = PhoneOf(s)]
  <2>1. c \in There BY <1>5 DEF UpdateCustomer
  <2>2. customers[c] \in CustomerRow BY <1>2, <2>1, CustomerRows
  <2>3. EmailOf(s) \in Email /\ PhoneOf(s) \in Phone
    BY <1>5, ValuesToWrite DEF UpdateCustomer, Running
  <2>4. row \in CustomerRow BY <2>2, <2>3 DEF CustomerRow
  <2>5. c \in DOMAIN customers BY <1>2, <2>1 DEF There
  <2>6. /\ customers' = [customers EXCEPT ![c].email = EmailOf(s), ![c].phone = PhoneOf(s)]
        /\ Finish(s) /\ UNCHANGED <<reservations, sales, contracts, accepted, raced>>
    BY <1>5 DEF UpdateCustomer
  <2>7. customers' = [customers EXCEPT ![c] = row] BY <2>5, <2>6
  <2> QED BY <1>1, <2>1, <2>4, <2>6, <2>7, CustomerWritten DEF TablesOK
<1>6. CASE BarCustomer(s) /\ ~Refuse(s)
  <2> DEFINE row == [customers[c] EXCEPT !.status = "barred"]
  <2>1. c \in There BY <1>6 DEF BarCustomer
  <2>2. row \in CustomerRow BY <1>2, <2>1, CustomerRows DEF CustomerRow
  <2>3. customers' = [customers EXCEPT ![c] = row] /\ Finish(s)
        /\ UNCHANGED <<reservations, sales, contracts, accepted, raced>>
    BY <1>6 DEF BarCustomer
  <2> QED BY <1>1, <2>1, <2>2, <2>3, CustomerWritten DEF TablesOK
<1>7. CASE DeleteCustomer(s) /\ ~Refuse(s)
  <2> DEFINE row == [customers[c] EXCEPT !.there = FALSE]
  <2>1. c \in There BY <1>7 DEF DeleteCustomer
  <2>2. row \in CustomerRow BY <1>2, <2>1, CustomerRows DEF CustomerRow
  <2>3. customers' = [customers EXCEPT ![c] = row] /\ Finish(s)
        /\ UNCHANGED <<reservations, sales, contracts, accepted>>
    BY <1>7 DEF DeleteCustomer
  <2>4. raced' \subseteq Kind \X Nat
    <3> DEFINE made == {kind \in Kind : \E o \in Slot : Making(o, kind, c)}
    <3>1. raced' = raced \cup (made \X {c}) BY <1>7 DEF DeleteCustomer, Kind
    <3>2. made \subseteq Kind /\ c \in Nat /\ raced \subseteq Kind \X Nat
      BY <1>1 DEF TablesOK, Request
    <3> HIDE DEF made
    <3> QED BY <3>1, <3>2
  <2> QED BY <2>1, <2>2, <2>3, <2>4, CustomerWritten
<1> QED BY <1>3, <1>4, <1>5, <1>6, <1>7

\* A request that goes on to its next step, or is refused.
LEMMA TypeGoes ==
  ASSUME TypeInv, NEW s \in Slot, NEW a \in At \ {"find", "contract", "link"},
         Refuse(s) \/ (Goto(s, a) /\ UNCHANGED clients), UNCHANGED storage
  PROVE  TypeInv'
<1>1. CASE Refuse(s) BY <1>1, TypeRefused
<1>2. CASE Goto(s, a) /\ UNCHANGED clients
  BY <1>2, TypeQuiet DEF Goto, Set
<1> QED BY <1>1, <1>2

\* The reads of customers.service.ts, sales and contracts.
LEMMA TypeReads ==
  ASSUME TypeInv, NEW s \in Slot,
         \/ CreateFind(s) \/ UpdateFind(s) \/ UpdateEmail(s) \/ DeleteFind(s) \/ DeleteRestrict(s)
         \/ FindCustomer(s) \/ BeginSale(s) \/ UploadSignatures(s),
         UNCHANGED storage
  PROVE  TypeInv'
<1> DEFINE To(a) == Refuse(s) \/ (Goto(s, a) /\ UNCHANGED clients)
<1>1. \/ To("write") \/ To("email") \/ To("bar")
      \/ To("restrict") \/ To("remove") \/ To("commit")
  <2>1. CASE CreateFind(s) BY <2>1 DEF CreateFind
  <2>2. CASE UpdateFind(s) BY <2>2 DEF UpdateFind
  <2>3. CASE UpdateEmail(s) BY <2>3 DEF UpdateEmail
  <2>4. CASE DeleteFind(s) BY <2>4 DEF DeleteFind
  <2>5. CASE FindCustomer(s) BY <2>5 DEF FindCustomer
  <2>6. CASE UploadSignatures(s) BY <2>6 DEF UploadSignatures
  <2>7. CASE DeleteRestrict(s) BY <2>7 DEF DeleteRestrict
  <2>8. CASE BeginSale(s) BY <2>8 DEF BeginSale
  <2> QED BY <2>1, <2>2, <2>3, <2>4, <2>5, <2>6, <2>7, <2>8
<1>2. {"write", "email", "bar", "restrict", "remove", "commit"}
        \subseteq At \ {"find", "contract", "link"}
  BY DEF At
<1> QED BY <1>1, <1>2, TypeGoes

-----------------------------------------------------------------------------
(* The handlers of reservations, sales and contracts *)

LEMMA MadeRaced ==
  ASSUME TypeInv, NEW kind \in Kind, NEW c \in Nat, Made(kind, c)
  PROVE  raced' \subseteq Kind \X Nat /\ raced \subseteq raced'
BY DEF Made, TypeInv, TypeOK, Kind

LEMMA TypeReserve ==
  ASSUME TypeInv, NEW s \in Slot, Reserve(s), UNCHANGED storage
  PROVE  TypeInv'
<1>1. TablesOK /\ req[s] \in Request BY TypeFacts
<1>2. req[s].row \in Nat BY <1>1 DEF Request
<1>3. /\ reservations' = Append(reservations, req[s].row)
      /\ Made("reservation", req[s].row)
      /\ Finish(s) /\ UNCHANGED <<customers, sales, contracts, accepted>>
  BY DEF Reserve
<1>4. reservations' \in Seq(Nat) /\ DOMAIN reservations \subseteq DOMAIN reservations'
  BY <1>1, <1>2, <1>3 DEF TablesOK
<1>5. raced' \subseteq Kind \X Nat BY <1>2, <1>3, MadeRaced DEF Kind
<1>6. TablesOK' /\ Grow BY <1>1, <1>3, <1>4, <1>5 DEF TablesOK, Grow
<1> QED BY <1>3, <1>6, TypeEnds

LEMMA TypeReadReservation ==
  ASSUME TypeInv, NEW s \in Slot, ReadReservation(s), UNCHANGED storage
  PROVE  TypeInv'
<1>1. /\ TablesOK /\ req \in [Slot -> Request] /\ req[s] \in Request /\ Names(req[s])
      /\ started \in Nat /\ overlap \in BOOLEAN
  BY TypeFacts
<1>2. req[s].op = "complete" /\ req[s].at = "find" BY DEF ReadReservation, Running
<1>3. req[s].row \in DOMAIN reservations BY <1>1, <1>2 DEF Names
<1>4. reservations[req[s].row] \in Nat BY <1>1, <1>3, ElementOfSeq, LenProperties DEF TablesOK
<1> DEFINE r == [req[s] EXCEPT !.at = "write", !.row = reservations[req[s].row]]
<1>5. r \in Request BY <1>1, <1>4 DEF Request, At
<1>6. req' = [req EXCEPT ![s] = r] /\ UNCHANGED <<started, overlap, clients>>
  BY DEF ReadReservation, Set
<1>7. r.op = "complete" /\ r.at = "write" BY <1>1, <1>2 DEF Request
<1>8. Names(req[s])'
  <2>1. req'[s] = r BY <1>1, <1>6
  <2> HIDE DEF r
  <2> QED BY <1>7, <2>1 DEF Names
<1>9. TablesOK' /\ Grow BY <1>1, <1>6 DEF TablesOK, clients, Grow
<1> QED BY <1>1, <1>5, <1>6, <1>8, <1>9, Served

\* What a sale adds.
LEMMA SaleInserted ==
  ASSUME TypeInv, NEW c \in Nat, InsertSale(c)
  PROVE  /\ TablesOK' /\ Grow
         /\ sales \in Seq(SaleRow) /\ Len(sales') = Len(sales) + 1
         /\ Len(sales') \in DOMAIN sales'
<1>1. TablesOK BY DEF TypeInv, TypeOK, TablesOK, Kind
<1> DEFINE row == [customer |-> c, contract |-> 0]
<1>2. row \in SaleRow BY DEF SaleRow
<1>3. /\ sales' = Append(sales, row) /\ Made("sale", c)
      /\ UNCHANGED <<customers, reservations, contracts, accepted>>
  BY DEF InsertSale
<1> HIDE DEF row
<1>4. sales \in Seq(SaleRow) BY <1>1 DEF TablesOK
<1>5. /\ sales' \in Seq(SaleRow) /\ Len(sales') = Len(sales) + 1
      /\ Len(sales') \in DOMAIN sales' /\ DOMAIN sales \subseteq DOMAIN sales'
  BY <1>2, <1>3, <1>4
<1>6. raced' \subseteq Kind \X Nat BY <1>3, MadeRaced DEF Kind
<1> QED BY <1>1, <1>3, <1>4, <1>5, <1>6 DEF TablesOK, Grow

LEMMA TypeSale ==
  ASSUME TypeInv, NEW s \in Slot, CreateInventorySale(s) \/ CreateSale(s), UNCHANGED storage
  PROVE  TypeInv'
<1>1. /\ TablesOK /\ req \in [Slot -> Request] /\ req[s] \in Request
      /\ started \in Nat /\ overlap \in BOOLEAN
  BY TypeFacts
<1>2. req[s].row \in Nat BY <1>1 DEF Request
<1>4. CASE InsertSale(req[s].row) /\ Finish(s)
  BY <1>2, <1>4, SaleInserted, TypeEnds
<1>5. CASE /\ Running(s, "sell", "commit") /\ InsertSale(req[s].row)
           /\ Set(s, [req[s] EXCEPT !.at = "contract", !.row = Len(sales')])
  <2> DEFINE r == [req[s] EXCEPT !.at = "contract", !.row = Len(sales')]
  <2>1. TablesOK' /\ Grow /\ Len(sales') \in DOMAIN sales' /\ Len(sales') \in Nat
    BY <1>1, <1>2, <1>5, SaleInserted DEF TablesOK
  <2>2. r \in Request BY <1>1, <2>1 DEF Request, At
  <2>3. r.op = "sell" /\ r.at = "contract" /\ r.row = Len(sales')
    BY <1>1, <1>5 DEF Running, Request
  <2>4. req' = [req EXCEPT ![s] = r] /\ UNCHANGED <<started, overlap>> BY <1>5 DEF Set
  <2>5. Names(req[s])'
    <3>1. req'[s] = r BY <1>1, <2>4
    <3> HIDE DEF r
    <3> QED BY <2>1, <2>3, <3>1 DEF Names
  <2> QED BY <1>1, <2>1, <2>2, <2>4, <2>5, Served
<1> QED BY <1>4, <1>5 DEF CreateInventorySale, CreateSale

\* What a contract adds: it has no signature, and none was accepted.
LEMMA ContractInserted ==
  ASSUME TypeInv, NEW s \in Slot, CreateContract(s)
  PROVE  /\ TablesOK' /\ Grow
         /\ contracts' = Append(contracts, NewContract) /\ accepted' = Append(accepted, {})
         /\ Len(contracts') \in Nat
<1>1. TablesOK BY TypeFacts
<1>2. NewContract \in ContractRow /\ {} \in SUBSET Party BY DEF NewContract, ContractRow
<1>3. /\ contracts' = Append(contracts, NewContract) /\ accepted' = Append(accepted, {})
      /\ UNCHANGED <<customers, reservations, sales, raced>>
  BY DEF CreateContract
<1> HIDE DEF NewContract
<1>4. /\ contracts' \in Seq(ContractRow) /\ Len(contracts') = Len(contracts) + 1
      /\ Len(contracts) \in Nat /\ DOMAIN contracts \subseteq DOMAIN contracts'
  BY <1>1, <1>2, <1>3 DEF TablesOK
<1>5. accepted' \in Seq(SUBSET Party) /\ Len(accepted') = Len(accepted) + 1
  BY <1>1, <1>2, <1>3 DEF TablesOK
<1>6. TablesOK' /\ Grow BY <1>1, <1>3, <1>4, <1>5 DEF TablesOK, Grow
<1> QED BY <1>3, <1>4, <1>6

LEMMA TypeCreateContract ==
  ASSUME TypeInv, NEW s \in Slot, CreateContract(s), UNCHANGED storage
  PROVE  TypeInv'
<1>1. /\ TablesOK /\ req \in [Slot -> Request] /\ req[s] \in Request /\ Names(req[s])
      /\ started \in Nat /\ overlap \in BOOLEAN
  BY TypeFacts
<1> DEFINE r == [req[s] EXCEPT !.at = "link", !.contract = Len(contracts')]
<1>2. TablesOK' /\ Grow /\ Len(contracts') \in Nat BY ContractInserted
<1>3. r \in Request BY <1>1, <1>2 DEF Request, At
<1>4. /\ req' = [req EXCEPT ![s] = r] /\ UNCHANGED <<started, overlap, sales>>
      /\ req[s].op = "sell" /\ req[s].at = "contract"
  BY DEF CreateContract, Set, Running
<1>5. r.op = "sell" /\ r.row = req[s].row BY <1>1, <1>4 DEF Request
<1>6. Names(req[s])'
  <2>1. req'[s] = r BY <1>1, <1>4
  <2>2. req[s].row \in DOMAIN sales BY <1>1, <1>4 DEF Names
  <2> HIDE DEF r
  <2> QED BY <1>4, <1>5, <2>1, <2>2 DEF Names
<1> QED BY <1>1, <1>2, <1>3, <1>4, <1>6, Served

LEMMA TypeLinkContract ==
  ASSUME TypeInv, NEW s \in Slot, LinkContract(s), UNCHANGED storage
  PROVE  TypeInv'
<1>1. TablesOK /\ req[s] \in Request /\ Names(req[s]) BY TypeFacts
<1> DEFINE i == req[s].row
           row == [sales[i] EXCEPT !.contract = req[s].contract]
<1>2. /\ sales' = [sales EXCEPT ![i].contract = req[s].contract]
      /\ Finish(s) /\ UNCHANGED <<customers, reservations, contracts, accepted, raced>>
      /\ req[s].op = "sell" /\ req[s].at = "link"
  BY DEF LinkContract, Running
<1>3. i \in 1..Len(sales) BY <1>1, <1>2, LenProperties DEF Names, TablesOK
<1>4. sales[i] \in SaleRow BY <1>1, <1>3, ElementOfSeq DEF TablesOK
<1>5. row \in SaleRow BY <1>1, <1>4 DEF SaleRow, Request
<1>6. sales' = [sales EXCEPT ![i] = row] BY <1>2
<1>7. sales' \in Seq(SaleRow) /\ Len(sales') = Len(sales)
  BY <1>1, <1>3, <1>5, <1>6, ExceptSeq DEF TablesOK
<1>8. TablesOK' /\ Grow BY <1>1, <1>2, <1>7, LenProperties DEF TablesOK, Grow
<1> QED BY <1>2, <1>8, TypeEnds

-----------------------------------------------------------------------------
(* The handlers of signatures *)

\* What a request that signs reads.
LEMMA ContractRead ==
  ASSUME TypeInv, NEW s \in Slot, req[s].op = "sign"
  PROVE  req[s].row \in DOMAIN contracts /\ contracts[req[s].row] \in ContractRow
<1>1. TablesOK /\ Names(req[s]) BY TypeFacts
<1>2. req[s].row \in DOMAIN contracts BY <1>1 DEF Names
<1>3. contracts[req[s].row] \in ContractRow
  BY <1>1, <1>2, ElementOfSeq, LenProperties DEF TablesOK
<1> QED BY <1>2, <1>3

LEMMA TypeFindContract ==
  ASSUME TypeInv, NEW s \in Slot, FindContract(s), UNCHANGED storage
  PROVE  TypeInv'
<1>1. /\ TablesOK /\ req \in [Slot -> Request] /\ req[s] \in Request /\ Names(req[s])
      /\ started \in Nat /\ overlap \in BOOLEAN
  BY TypeFacts
<1> DEFINE c == contracts[req[s].row]
           r == [req[s] EXCEPT !.at = "upload", !.signatures = c.signatures, !.flag = c.signedAt]
<1>2. req[s].op = "sign" BY DEF FindContract, Running
<1>3. c \in ContractRow /\ req[s].row \in DOMAIN contracts BY <1>2, ContractRead
<1>4. c.signatures \in SUBSET Party /\ c.signedAt \in BOOLEAN BY <1>3 DEF ContractRow
<1>5. r \in Request BY <1>1, <1>4 DEF Request, At
<1>6. req' = [req EXCEPT ![s] = r] /\ UNCHANGED <<started, overlap, clients>>
  BY DEF FindContract, Set
<1>7. r.op = "sign" /\ r.row = req[s].row BY <1>1, <1>2 DEF Request
<1>8. Names(req[s])'
  <2>1. req'[s] = r BY <1>1, <1>6
  <2> HIDE DEF r
  <2> QED BY <1>3, <1>6, <1>7, <2>1 DEF Names, clients
<1>9. TablesOK' /\ Grow BY <1>1, <1>6 DEF TablesOK, clients, Grow
<1> QED BY <1>1, <1>5, <1>6, <1>8, <1>9, Served

LEMMA TypeWriteSignatures ==
  ASSUME TypeInv, NEW s \in Slot, WriteSignatures(s), UNCHANGED storage
  PROVE  TypeInv'
<1>1. TablesOK /\ req[s] \in Request BY TypeFacts
<1> DEFINE c == req[s].row
           all == Merged(s)
           row == [signatures |-> all, signedAt |-> "owner" \in all \/ req[s].flag]
<1>2. Signed(s, all, "owner" \in all \/ req[s].flag) BY DEF WriteSignatures
<1>3. /\ contracts' = [contracts EXCEPT ![c] = row]
      /\ accepted' = [accepted EXCEPT ![c] = @ \cup req[s].files]
      /\ Finish(s) /\ UNCHANGED <<customers, reservations, sales, raced>> /\ req[s].op = "sign"
  BY <1>2 DEF Signed, Running
<1>4. row \in ContractRow
  <2>1. all \in SUBSET Party BY <1>1 DEF Request, Merged, WithUrl
  <2> HIDE DEF all
  <2> QED BY <1>1, <2>1 DEF Request, ContractRow
<1>5. c \in 1..Len(contracts) BY <1>1, <1>3, ContractRead, LenProperties DEF TablesOK
<1>6. accepted[c] \in SUBSET Party BY <1>1, <1>5, ElementOfSeq DEF TablesOK
<1>7. accepted[c] \cup req[s].files \in SUBSET Party BY <1>1, <1>6 DEF Request
<1>8. contracts' \in Seq(ContractRow) /\ Len(contracts') = Len(contracts)
  <2> HIDE DEF row
  <2> QED BY <1>1, <1>3, <1>4, <1>5, ExceptSeq DEF TablesOK
<1>9. accepted' \in Seq(SUBSET Party) /\ Len(accepted') = Len(accepted)
  BY <1>1, <1>3, <1>5, <1>7, ExceptSeq DEF TablesOK
<1>10. TablesOK' /\ Grow BY <1>1, <1>3, <1>8, <1>9, LenProperties DEF TablesOK, Grow
<1> QED BY <1>3, <1>10, TypeEnds

-----------------------------------------------------------------------------
(* Types *)

LEMMA TypeInit == Init => TypeInv
<1> SUFFICES ASSUME Init PROVE TypeInv OBVIOUS
<1>1. PICK e \in Email, p \in Phone : customers = <<NewCustomer(e, p)>> BY DEF Init
<1>2. NewCustomer(e, p) \in CustomerRow BY DEF NewCustomer, CustomerRow
<1>3. customers \in Seq(CustomerRow)
  <2> HIDE DEF NewCustomer
  <2> QED BY <1>1, <1>2
<1>4. reservations \in Seq(Nat) /\ sales \in Seq(SaleRow) BY DEF Init
<1>5. NewContract \in ContractRow BY DEF NewContract, ContractRow
<1>6. contracts \in Seq(ContractRow) /\ accepted \in Seq(SUBSET Party)
      /\ Len(accepted) = Len(contracts)
  <2>1. CASE contracts = <<>>
    <3>1. accepted = [c \in 1..0 |-> {}] BY <2>1 DEF Init
    <3> QED BY <2>1, <3>1, EmptySeq, IsASeq, LenProperties
  <2>2. CASE contracts = <<NewContract>>
    <3>1. contracts \in Seq(ContractRow) /\ Len(contracts) = 1 /\ DOMAIN contracts = 1..1
      BY <1>5, <2>2
    <3>2. accepted = [c \in 1..1 |-> {}] BY <3>1 DEF Init
    <3>3. accepted \in Seq(SUBSET Party) BY <3>2, IsASeq
    <3> QED BY <3>1, <3>2, <3>3, LenProperties
  <2> QED BY <2>1, <2>2 DEF Init
<1>7. Idle \in Request BY DEF Idle, Request, Op, At
<1>8. RequestsOK(Request) /\ RequestsName
  BY <1>7 DEF Init, InitRequests, RequestsOK, RequestsName, Names, Idle
<1>9. raced = {} /\ storage \in {"cloudinary", "spaces"} BY DEF Init
<1> QED BY <1>3, <1>4, <1>6, <1>8, <1>9 DEF TypeInv, TypeOK

LEMMA TypeNext == TypeInv /\ [Next]_vars => TypeInv'
<1> SUFFICES ASSUME TypeInv, [Next]_vars PROVE TypeInv' OBVIOUS
<1>1. CASE UNCHANGED vars
  BY <1>1 DEF vars, clients, TypeInv, TypeOK, RequestsOK, RequestsName, Names
<1>2. CASE Next
  <2>1. PICK s \in Slot : Start(s) \/ Fail(s) \/ Step(s) BY <1>2 DEF Next
  <2> UNCHANGED storage BY <1>2 DEF Next
  <2>2. CASE Start(s) BY <2>2, TypeStart
  <2>3. CASE Fail(s) BY <2>3, TypeRefused DEF Fail
  <2>4. CASE Step(s)
    BY <2>4, TypeCustomers, TypeReads, TypeReserve, TypeReadReservation, TypeSale,
       TypeCreateContract, TypeLinkContract, TypeFindContract, TypeWriteSignatures
       DEF Step
  <2> QED BY <2>1, <2>2, <2>3, <2>4
<1> QED BY <1>1, <1>2

\* Every table and every request keeps its shape, whatever the requests of
\* customers.service.ts, sales.service.ts and contract.service.ts interleave.
THEOREM TypeCorrect == Spec => []TypeOK
<1>1. TypeInv => TypeOK BY DEF TypeInv
<1> QED BY TypeInit, TypeNext, <1>1, PTL DEF Spec

-----------------------------------------------------------------------------
(* Sales, reservations and their customers *)

\* Whom there is a sale, or a reservation, for.
Bought(kind) ==
  IF kind = "sale" THEN {sales[i].customer : i \in DOMAIN sales}
  ELSE {reservations[r] : r \in DOMAIN reservations}

\* Request r is about to write a sale or a reservation, or to delete.
Makes(r, kind) ==
  \/ kind = "sale" /\ r.op \in {"complete", "sell"} /\ r.at = "commit"
  \/ kind = "reservation" /\ r.op = "reserve" /\ r.at = "write"
Removes(r) == r.op = "delete" /\ r.at = "remove"

\* CustomerIsThere and LookupsHold, told for sales and reservations alike.
Looked ==
  \A kind \in Kind :
    /\ \A c \in Bought(kind) : c \in There \/ <<kind, c>> \in raced
    /\ \A s \in Slot :
         Makes(req[s], kind) => req[s].row \in There \/ <<kind, req[s].row>> \in raced
    /\ \A s \in Slot :
         Removes(req[s]) /\ req[s].row \in Bought(kind) => <<kind, req[s].row>> \in raced

LEMMA LookedIs == CustomerIsThere /\ LookupsHold <=> Looked
<1>1. \A c : SalesOf(c) # {} <=> c \in Bought("sale") BY DEF SalesOf, Bought
<1>2. \A c : ReservationsOf(c) # {} <=> c \in Bought("reservation")
  BY DEF ReservationsOf, Bought
<1>3. CustomerIsThere <=>
        \A kind \in Kind : \A c \in Bought(kind) : c \in There \/ <<kind, c>> \in raced
  BY DEF CustomerIsThere, Bought, Kind
<1>4. \A s \in Slot, kind \in Kind : Making(s, kind, req[s].row) <=> Makes(req[s], kind)
  BY DEF Making, Makes, Running
<1>5. \A s \in Slot : Removing(s, req[s].row) <=> Removes(req[s])
  BY DEF Removing, Removes, Running
<1>6. LookupsHold <=>
        \A kind \in Kind :
          /\ \A s \in Slot :
               Makes(req[s], kind) => req[s].row \in There \/ <<kind, req[s].row>> \in raced
          /\ \A s \in Slot :
               Removes(req[s]) /\ req[s].row \in Bought(kind) => <<kind, req[s].row>> \in raced
  BY <1>1, <1>2, <1>4, <1>5 DEF LookupsHold, Kind
<1> QED BY <1>3, <1>6 DEF Looked

LEMMA SaleFacts ==
  ASSUME SaleInv
  PROVE  TypeInv /\ Looked /\ req \in [Slot -> Request]
BY LookedIs DEF SaleInv, TypeInv, TypeOK, RequestsOK

\* Nobody goes, nothing is made, and what the request in slot s is about to
\* write, if anything, it has just looked up.
LEMMA SaleQuiet ==
  ASSUME SaleInv, NEW s \in Slot, NEW r, req' = [req EXCEPT ![s] = r],
         There \subseteq There', UNCHANGED raced,
         \A kind \in Kind : Bought(kind)' \subseteq Bought(kind),
         \A kind \in Kind : Makes(r, kind) => r.row \in There,
         \A kind \in Kind : Removes(r) => r.row \notin Bought(kind)
  PROVE  Looked'
<1>1. Looked /\ req \in [Slot -> Request] BY SaleFacts
<1>2. req'[s] = r /\ \A o \in Slot \ {s} : req'[o] = req[o] BY <1>1
<1> SUFFICES ASSUME NEW kind \in Kind
             PROVE  /\ \A c \in Bought(kind)' : c \in There' \/ <<kind, c>> \in raced
                    /\ \A o \in Slot : Makes(req'[o], kind) =>
                         req'[o].row \in There' \/ <<kind, req'[o].row>> \in raced
                    /\ \A o \in Slot :
                         Removes(req'[o]) /\ req'[o].row \in Bought(kind)' =>
                           <<kind, req'[o].row>> \in raced
  BY DEF Looked, Makes, Removes
<1>3. \A c \in Bought(kind)' : c \in There' \/ <<kind, c>> \in raced BY <1>1 DEF Looked
<1>4. ASSUME NEW o \in Slot, Makes(req'[o], kind)
      PROVE  req'[o].row \in There' \/ <<kind, req'[o].row>> \in raced
  <2>1. CASE o = s BY <1>2, <1>4, <2>1
  <2>2. CASE o # s BY <1>1, <1>2, <1>4, <2>2 DEF Looked
  <2> QED BY <2>1, <2>2
<1>5. ASSUME NEW o \in Slot, Removes(req'[o]), req'[o].row \in Bought(kind)'
      PROVE  <<kind, req'[o].row>> \in raced
  <2>1. CASE o = s BY <1>2, <1>5, <2>1
  <2>2. CASE o # s BY <1>1, <1>2, <1>5, <2>2 DEF Looked
  <2> QED BY <2>1, <2>2
<1> QED BY <1>3, <1>4, <1>5

\* A request that ends has nothing left to write.
LEMMA SaleEnds ==
  ASSUME SaleInv, NEW s \in Slot, Finish(s), There \subseteq There', UNCHANGED raced,
         \A kind \in Kind : Bought(kind)' \subseteq Bought(kind)
  PROVE  Looked'
<1>1. ~Removes(Idle) /\ \A kind \in Kind : ~Makes(Idle, kind) BY DEF Removes, Makes, Idle
<1> QED BY <1>1, SaleQuiet DEF Finish, Set

LEMMA SaleRefused ==
  ASSUME SaleInv, NEW s \in Slot, Refuse(s)
  PROVE  Looked'
<1>1. Finish(s) /\ UNCHANGED clients BY DEF Refuse
<1>2. There' = There /\ raced' = raced /\ \A kind \in Kind : Bought(kind)' = Bought(kind)
  BY <1>1 DEF clients, There, Bought
<1> QED BY <1>1, <1>2, SaleEnds

\* A request that is given something else to do, and writes nothing.
LEMMA SaleReads ==
  ASSUME SaleInv, NEW s \in Slot, NEW r, req' = [req EXCEPT ![s] = r], UNCHANGED clients,
         \A kind \in Kind : Makes(r, kind) => r.row \in There,
         \A kind \in Kind : Removes(r) => r.row \notin Bought(kind)
  PROVE  Looked'
<1>1. There' = There /\ raced' = raced /\ \A kind \in Kind : Bought(kind)' = Bought(kind)
  BY DEF clients, There, Bought
<1> QED BY <1>1, SaleQuiet

\* A request that has just arrived.
Requested(r) == r.at = "find"

LEMMA SaleStart ==
  ASSUME SaleInv, NEW s \in Slot, Start(s)
  PROVE  Looked'
<1> USE DEF Ask, Idle, Requested
<1>1. ASSUME NEW r, Begin(s, r), Requested(r) PROVE Looked'
  <2>1. req' = [req EXCEPT ![s] = r] /\ UNCHANGED clients BY <1>1 DEF Begin, Accept
  <2>2. ~Removes(r) /\ \A kind \in Kind : ~Makes(r, kind)
    BY <1>1 DEF Removes, Makes
  <2> QED BY <2>1, <2>2, SaleReads
<1>2. CASE AskCreateCustomer(s) BY <1>1, <1>2 DEF AskCreateCustomer
<1>3. CASE AskUpdateCustomer(s) BY <1>1, <1>3 DEF AskUpdateCustomer
<1>4. CASE AskDeleteCustomer(s) BY <1>1, <1>4 DEF AskDeleteCustomer
<1>5. CASE AskReservation(s) BY <1>1, <1>5 DEF AskReservation
<1>6. CASE AskCompletion(s) BY <1>1, <1>6 DEF AskCompletion
<1>7. CASE AskSale(s) BY <1>1, <1>7 DEF AskSale
<1>8. CASE AskUploadSignatures(s) BY <1>1, <1>8 DEF AskUploadSignatures
<1> QED BY <1>2, <1>3, <1>4, <1>5, <1>6, <1>7, <1>8 DEF Start

\* A lookup: a customer that is not there is refused, and one that has bought
\* or reserved is not deleted.
LEMMA SaleLooksUp ==
  ASSUME SaleInv, NEW s \in Slot,
         \/ CreateFind(s) \/ UpdateFind(s) \/ UpdateEmail(s) \/ DeleteFind(s) \/ DeleteRestrict(s)
         \/ FindCustomer(s) \/ BeginSale(s) \/ UploadSignatures(s)
  PROVE  Looked'
<1>1. req[s] \in Request BY SaleFacts
<1>2. CASE Refuse(s) BY <1>2, SaleRefused
<1>3. ASSUME NEW a, Goto(s, a), UNCHANGED clients,
             req[s].op \in {"reserve", "complete", "sell"} /\ a \in {"commit", "write"} =>
               req[s].row \in There,
             a = "remove" => ~Referenced(req[s].row)
      PROVE  Looked'
  <2> DEFINE r == [req[s] EXCEPT !.at = a]
  <2>1. req' = [req EXCEPT ![s] = r] BY <1>3 DEF Goto, Set
  <2>2. r.op = req[s].op /\ r.at = a /\ r.row = req[s].row BY <1>1 DEF Request
  <2> HIDE DEF r
  <2>3. \A kind \in Kind : Makes(r, kind) => r.row \in There BY <1>3, <2>2 DEF Makes
  <2>4. \A kind \in Kind : Removes(r) => r.row \notin Bought(kind)
    BY <1>3, <2>2 DEF Removes, Referenced, SalesOf, ReservationsOf, Bought
  <2> QED BY <1>3, <2>1, <2>3, <2>4, SaleReads
<1> USE DEF Running
<1>4. CASE CreateFind(s) BY <1>2, <1>3, <1>4 DEF CreateFind
<1>5. CASE UpdateFind(s) BY <1>2, <1>3, <1>5 DEF UpdateFind
<1>6. CASE UpdateEmail(s) BY <1>2, <1>3, <1>6 DEF UpdateEmail
<1>7. CASE DeleteFind(s) BY <1>2, <1>3, <1>7 DEF DeleteFind
<1>8. CASE DeleteRestrict(s) BY <1>2, <1>3, <1>8 DEF DeleteRestrict
<1>9. CASE FindCustomer(s) BY <1>2, <1>3, <1>9 DEF FindCustomer
<1>10. CASE BeginSale(s) BY <1>2, <1>3, <1>10 DEF BeginSale
<1>11. CASE UploadSignatures(s) BY <1>2, <1>3, <1>11 DEF UploadSignatures
<1> QED BY <1>4, <1>5, <1>6, <1>7, <1>8, <1>9, <1>10, <1>11

\* A customer is created, changed or barred: whoever was there is.
LEMMA SaleCustomers ==
  ASSUME SaleInv, NEW s \in Slot,
         CreateCustomer(s) \/ UpdateCustomer(s) \/ BarCustomer(s)
  PROVE  Looked'
<1>1. /\ customers \in Seq(CustomerRow)
      /\ There \subseteq 1..Len(customers)
      /\ \A c \in There : customers[c] \in CustomerRow /\ customers[c].there
  BY CustomerRows DEF SaleInv, TypeInv, TypeOK
<1> DEFINE c == req[s].row
<1>2. CASE Refuse(s) BY <1>2, SaleRefused
<1>3. ASSUME There \subseteq There', Finish(s),
             UNCHANGED <<reservations, sales, contracts, accepted, raced>>
      PROVE  Looked'
  <2>1. \A kind \in Kind : Bought(kind)' = Bought(kind) BY <1>3 DEF Bought
  <2> QED BY <1>3, <2>1, SaleEnds
<1>4. CASE CreateCustomer(s) /\ ~Refuse(s)
  <2>1. /\ customers' = Append(customers, NewCustomer(EmailOf(s), PhoneOf(s)))
        /\ Finish(s) /\ UNCHANGED <<reservations, sales, contracts, accepted, raced>>
    BY <1>4 DEF CreateCustomer
  <2>2. There \subseteq There'
    <3> SUFFICES ASSUME NEW d \in There PROVE d \in There' OBVIOUS
    <3>1. d \in 1..Len(customers) /\ customers[d].there BY <1>1
    <3>2. d \in DOMAIN customers' /\ customers'[d] = customers[d] BY <1>1, <2>1, <3>1
    <3> QED BY <3>1, <3>2 DEF There
  <2> QED BY <1>3, <2>1, <2>2
<1>5. CASE UpdateCustomer(s) /\ ~Refuse(s)
  <2>1. /\ customers' = [customers EXCEPT ![c].email = EmailOf(s), ![c].phone = PhoneOf(s)]
        /\ Finish(s) /\ UNCHANGED <<reservations, sales, contracts, accepted, raced>>
    BY <1>5 DEF UpdateCustomer
  <2>2. DOMAIN customers' = DOMAIN customers BY <2>1
  <2>3. \A d \in There : customers'[d].there = customers[d].there
    BY <1>1, <2>1 DEF There, CustomerRow
  <2>4. There \subseteq There' BY <2>2, <2>3 DEF There
  <2> QED BY <1>3, <2>1, <2>4
<1>6. CASE BarCustomer(s) /\ ~Refuse(s)
  <2>1. /\ customers' = [customers EXCEPT ![c].status = "barred"]
        /\ Finish(s) /\ UNCHANGED <<reservations, sales, contracts, accepted, raced>>
    BY <1>6 DEF BarCustomer
  <2>2. DOMAIN customers' = DOMAIN customers BY <2>1
  <2>3. \A d \in There : customers'[d].there = customers[d].there
    BY <1>1, <2>1 DEF There, CustomerRow
  <2>4. There \subseteq There' BY <2>2, <2>3 DEF There
  <2> QED BY <1>3, <2>1, <2>4
<1> QED BY <1>2, <1>4, <1>5, <1>6

\* A customer goes: what names it already has raced, by what was looked up
\* before, and what is about to name it races with this deletion.
LEMMA SaleDeleted ==
  ASSUME SaleInv, NEW s \in Slot, DeleteCustomer(s)
  PROVE  Looked'
<1>1. Looked /\ TypeInv /\ req \in [Slot -> Request] BY SaleFacts
<1>2. CASE Refuse(s) BY <1>2, SaleRefused
<1>3. CASE ~Refuse(s)
  <2> DEFINE c == req[s].row
             made == {kind \in Kind : \E o \in Slot : Making(o, kind, c)}
  <2>1. /\ customers' = [customers EXCEPT ![c].there = FALSE]
        /\ raced' = raced \cup (made \X {c})
        /\ req' = [req EXCEPT ![s] = Idle] /\ Removes(req[s])
        /\ UNCHANGED <<reservations, sales>>
    BY <1>3 DEF DeleteCustomer, Finish, Set, Kind, Running, Removes
  <2>2. There \ {c} \subseteq There' BY <2>1 DEF There
  <2>3. \A kind \in Kind : Bought(kind)' = Bought(kind) BY <2>1 DEF Bought
  <2>4. req'[s] = Idle /\ \A o \in Slot \ {s} : req'[o] = req[o] BY <1>1, <2>1
  <2>5. ~Removes(Idle) /\ \A kind \in Kind : ~Makes(Idle, kind) BY DEF Removes, Makes, Idle
  <2>6. raced \subseteq raced' /\ \A kind \in made : <<kind, c>> \in raced' BY <2>1
  <2>7. \A kind \in Kind, o \in Slot : Makes(req[o], kind) /\ req[o].row = c => kind \in made
    BY DEF Makes, Making, Running
  <2> HIDE DEF made
  <2> SUFFICES ASSUME NEW kind \in Kind
               PROVE  /\ \A d \in Bought(kind) : d \in There' \/ <<kind, d>> \in raced'
                      /\ \A o \in Slot : Makes(req'[o], kind) =>
                           req'[o].row \in There' \/ <<kind, req'[o].row>> \in raced'
                      /\ \A o \in Slot :
                           Removes(req'[o]) /\ req'[o].row \in Bought(kind) =>
                             <<kind, req'[o].row>> \in raced'
    BY <2>3 DEF Looked, Makes, Removes
  <2>8. ASSUME NEW d \in Bought(kind) PROVE d \in There' \/ <<kind, d>> \in raced'
    <3>1. CASE d = c BY <1>1, <2>1, <2>6, <3>1 DEF Looked
    <3>2. CASE d # c BY <1>1, <2>2, <2>6, <3>2 DEF Looked
    <3> QED BY <3>1, <3>2
  <2>9. ASSUME NEW o \in Slot, Makes(req'[o], kind)
        PROVE  req'[o].row \in There' \/ <<kind, req'[o].row>> \in raced'
    <3>1. o # s /\ req'[o] = req[o] BY <2>4, <2>5, <2>9
    <3>2. CASE req[o].row = c BY <2>6, <2>7, <2>9, <3>1, <3>2
    <3>3. CASE req[o].row # c BY <1>1, <2>2, <2>6, <2>9, <3>1, <3>3 DEF Looked
    <3> QED BY <3>2, <3>3
  <2>10. ASSUME NEW o \in Slot, Removes(req'[o]), req'[o].row \in Bought(kind)
         PROVE  <<kind, req'[o].row>> \in raced'
    <3>1. o # s /\ req'[o] = req[o] BY <2>4, <2>5, <2>10
    <3> QED BY <1>1, <2>6, <2>10, <3>1 DEF Looked
  <2> QED BY <2>8, <2>9, <2>10
<1> QED BY <1>2, <1>3

\* A sale or a reservation is written for a customer that was looked up: a
\* deletion that is past its own lookup has raced with it.
LEMMA SaleMade ==
  ASSUME SaleInv, NEW s \in Slot, NEW made \in Kind, Makes(req[s], made),
         NEW r, req' = [req EXCEPT ![s] = r], ~Removes(r), \A kind \in Kind : ~Makes(r, kind),
         Made(made, req[s].row), UNCHANGED customers,
         \A kind \in Kind :
           Bought(kind)' = IF kind = made THEN Bought(kind) \cup {req[s].row} ELSE Bought(kind)
  PROVE  Looked'
<1>1. Looked /\ TypeInv /\ req \in [Slot -> Request] BY SaleFacts
<1>2. req'[s] = r /\ \A o \in Slot \ {s} : req'[o] = req[o] BY <1>1
<1> DEFINE c == req[s].row
<1>3. There' = There BY DEF There
<1>4. raced \subseteq raced' BY DEF Made
<1>5. ASSUME NEW o \in Slot, Removes(req[o]), req[o].row = c PROVE <<made, c>> \in raced'
  <2>1. Removing(o, c) BY <1>5 DEF Removing, Removes, Running
  <2> QED BY <2>1 DEF Made
<1>6. c \in There \/ <<made, c>> \in raced BY <1>1 DEF Looked
<1> HIDE DEF c
<1> SUFFICES ASSUME NEW kind \in Kind
             PROVE  /\ \A d \in Bought(kind)' : d \in There \/ <<kind, d>> \in raced'
                    /\ \A o \in Slot : Makes(req'[o], kind) =>
                         req'[o].row \in There \/ <<kind, req'[o].row>> \in raced'
                    /\ \A o \in Slot :
                         Removes(req'[o]) /\ req'[o].row \in Bought(kind)' =>
                           <<kind, req'[o].row>> \in raced'
  BY <1>3 DEF Looked, Makes, Removes
<1>7. ASSUME NEW d \in Bought(kind)' PROVE d \in There \/ <<kind, d>> \in raced'
  <2>1. CASE d \in Bought(kind) BY <1>1, <1>4, <2>1 DEF Looked
  <2>2. CASE d \notin Bought(kind) BY <1>4, <1>6, <1>7, <2>2 DEF c
  <2> QED BY <2>1, <2>2
<1>8. ASSUME NEW o \in Slot, Makes(req'[o], kind)
      PROVE  req'[o].row \in There \/ <<kind, req'[o].row>> \in raced'
  BY <1>1, <1>2, <1>4, <1>8 DEF Looked
<1>9. ASSUME NEW o \in Slot, Removes(req'[o]), req'[o].row \in Bought(kind)'
      PROVE  <<kind, req'[o].row>> \in raced'
  <2>1. o # s /\ req'[o] = req[o] BY <1>2, <1>9
  <2>2. CASE req[o].row \in Bought(kind) BY <1>1, <1>4, <1>9, <2>1, <2>2 DEF Looked
  <2>3. CASE req[o].row \notin Bought(kind)
    <3>1. kind = made /\ req[o].row = c BY <1>9, <2>1, <2>3 DEF c
    <3> QED BY <1>5, <1>9, <2>1, <3>1
  <2> QED BY <2>2, <2>3
<1> QED BY <1>7, <1>8, <1>9

LEMMA Appended ==
  ASSUME NEW S, NEW q \in Seq(S), NEW e \in S
  PROVE  /\ DOMAIN Append(q, e) = DOMAIN q \cup {Len(q) + 1}
         /\ Append(q, e)[Len(q) + 1] = e
         /\ \A i \in DOMAIN q : Append(q, e)[i] = q[i]
BY AppendProperties, LenProperties

LEMMA SaleReserved ==
  ASSUME SaleInv, NEW s \in Slot, Reserve(s)
  PROVE  Looked'
<1>1. reservations \in Seq(Nat) BY DEF SaleInv, TypeInv, TypeOK
<1>2. /\ reservations' = Append(reservations, req[s].row) /\ Made("reservation", req[s].row)
      /\ req' = [req EXCEPT ![s] = Idle] /\ UNCHANGED <<customers, sales>>
      /\ Makes(req[s], "reservation")
  BY DEF Reserve, Finish, Set, Running, Makes
<1> DEFINE c == req[s].row
<1> HIDE DEF c
<1>3. Bought("reservation")' = Bought("reservation") \cup {c}
  <2>1. /\ DOMAIN reservations' = DOMAIN reservations \cup {Len(reservations) + 1}
        /\ reservations'[Len(reservations) + 1] = c
        /\ \A i \in DOMAIN reservations : reservations'[i] = reservations[i]
    BY <1>1, <1>2 DEF c
  <2>2. {reservations'[i] : i \in DOMAIN reservations'}
          = {reservations[i] : i \in DOMAIN reservations} \cup {c}
    BY <2>1, Zenon
  <2> QED BY <2>2 DEF Bought
<1>4. Bought("sale")' = Bought("sale") BY <1>2 DEF Bought
<1>5. ~Removes(Idle) /\ \A kind \in Kind : ~Makes(Idle, kind) BY DEF Removes, Makes, Idle
<1>6. \A kind \in Kind :
        Bought(kind)' = IF kind = "reservation" THEN Bought(kind) \cup {c} ELSE Bought(kind)
  BY <1>3, <1>4 DEF Kind
<1>7. "reservation" \in Kind BY DEF Kind
<1> QED BY <1>2, <1>5, <1>6, <1>7, SaleMade DEF c

LEMMA SaleSold ==
  ASSUME SaleInv, NEW s \in Slot, CreateInventorySale(s) \/ CreateSale(s)
  PROVE  Looked'
<1>1. sales \in Seq(SaleRow) /\ req[s] \in Request
  BY SaleFacts DEF SaleInv, TypeInv, TypeOK
<1> DEFINE c == req[s].row
           r == [req[s] EXCEPT !.at = "contract", !.row = Len(sales')]
<1>2. /\ sales' = Append(sales, [customer |-> c, contract |-> 0])
      /\ Made("sale", req[s].row) /\ UNCHANGED <<customers, reservations>>
      /\ Makes(req[s], "sale")
  BY DEF CreateInventorySale, CreateSale, InsertSale, Running, Makes
<1>3. req' = [req EXCEPT ![s] = Idle] \/ req' = [req EXCEPT ![s] = r]
  BY DEF CreateInventorySale, CreateSale, Finish, Set
<1>4. Bought("sale")' = Bought("sale") \cup {c}
  <2> DEFINE row == [customer |-> c, contract |-> 0]
  <2>1. row.customer = c /\ row \in SaleRow /\ sales' = Append(sales, row)
    BY <1>1, <1>2 DEF SaleRow, Request
  <2> HIDE DEF row, c
  <2>2. /\ DOMAIN sales' = DOMAIN sales \cup {Len(sales) + 1}
        /\ sales'[Len(sales) + 1] = row
        /\ \A i \in DOMAIN sales : sales'[i] = sales[i]
    BY <1>1, <2>1, Appended
  <2>3. {sales'[i].customer : i \in DOMAIN sales'}
          = {sales[i].customer : i \in DOMAIN sales} \cup {c}
    <3> DEFINE n == Len(sales) + 1
    <3> HIDE DEF n
    <3>1. /\ DOMAIN sales' = DOMAIN sales \cup {n} /\ sales'[n].customer = c
          /\ \A i \in DOMAIN sales : sales'[i].customer = sales[i].customer
      BY <2>1, <2>2 DEF n
    <3>2. ASSUME NEW x \in {sales'[i].customer : i \in DOMAIN sales'}
          PROVE  x \in {sales[i].customer : i \in DOMAIN sales} \cup {c}
      BY <3>1
    <3>3. ASSUME NEW x \in {sales[i].customer : i \in DOMAIN sales}
          PROVE  x \in {sales'[i].customer : i \in DOMAIN sales'}
      BY <3>1
    <3>4. c \in {sales'[i].customer : i \in DOMAIN sales'} BY <3>1
    <3> QED BY <3>2, <3>3, <3>4
  <2> QED BY <2>3 DEF Bought
<1>5. Bought("reservation")' = Bought("reservation") BY <1>2 DEF Bought
<1>6. \A kind \in Kind :
        Bought(kind)' = IF kind = "sale" THEN Bought(kind) \cup {req[s].row} ELSE Bought(kind)
  BY <1>4, <1>5 DEF Kind
<1>7. "sale" \in Kind BY DEF Kind
<1>8. ~Removes(Idle) /\ \A kind \in Kind : ~Makes(Idle, kind) BY DEF Removes, Makes, Idle
<1>9. ~Removes(r) /\ \A kind \in Kind : ~Makes(r, kind)
  <2>1. r.at = "contract" BY <1>1 DEF Request
  <2> HIDE DEF r
  <2> QED BY <2>1 DEF Removes, Makes
<1> HIDE DEF r
<1> QED BY <1>2, <1>3, <1>6, <1>7, <1>8, <1>9, SaleMade

\* The other steps of a request.
LEMMA SaleOthers ==
  ASSUME SaleInv, NEW s \in Slot,
         \/ ReadReservation(s) \/ CreateContract(s) \/ LinkContract(s)
         \/ FindContract(s) \/ WriteSignatures(s)
  PROVE  Looked'
<1>1. req[s] \in Request /\ TypeInv BY SaleFacts
<1> USE DEF Makes, Removes
<1>2. CASE ReadReservation(s)
  <2> DEFINE r == [req[s] EXCEPT !.at = "write", !.row = reservations[req[s].row]]
  <2>1. req' = [req EXCEPT ![s] = r] /\ UNCHANGED clients /\ req[s].op = "complete"
    BY <1>2 DEF ReadReservation, Set, Running
  <2>2. r.op = "complete" /\ r.at = "write" BY <1>1, <2>1 DEF Request
  <2> HIDE DEF r
  <2> QED BY <2>1, <2>2, SaleReads
<1>3. CASE CreateContract(s)
  <2> DEFINE r == [req[s] EXCEPT !.at = "link", !.contract = Len(contracts')]
  <2>1. req' = [req EXCEPT ![s] = r] /\ UNCHANGED <<customers, reservations, sales, raced>>
    BY <1>3 DEF CreateContract, Set
  <2>2. r.at = "link" BY <1>1 DEF Request
  <2> HIDE DEF r
  <2>3. There' = There /\ \A kind \in Kind : Bought(kind)' = Bought(kind)
    BY <2>1 DEF There, Bought
  <2> QED BY <2>1, <2>2, <2>3, SaleQuiet
<1>4. CASE LinkContract(s)
  <2>1. /\ sales' = [sales EXCEPT ![req[s].row].contract = req[s].contract]
        /\ Finish(s) /\ UNCHANGED <<customers, reservations, raced>>
    BY <1>4 DEF LinkContract
  <2>2. \A i \in DOMAIN sales : sales[i] \in SaleRow
    BY <1>1, ElementOfSeq, LenProperties DEF TypeInv, TypeOK
  <2>3. DOMAIN sales' = DOMAIN sales
        /\ \A i \in DOMAIN sales' : sales'[i].customer = sales[i].customer
    BY <2>1, <2>2 DEF SaleRow
  <2>4. {sales'[i].customer : i \in DOMAIN sales'} = {sales[i].customer : i \in DOMAIN sales}
    BY <2>3
  <2>5. There' = There /\ \A kind \in Kind : Bought(kind)' = Bought(kind)
    BY <2>1, <2>4 DEF There, Bought
  <2> QED BY <2>1, <2>5, SaleEnds
<1>5. CASE FindContract(s)
  <2> DEFINE k == contracts[req[s].row]
             r == [req[s] EXCEPT !.at = "upload", !.signatures = k.signatures,
                                 !.flag = k.signedAt]
  <2>1. req' = [req EXCEPT ![s] = r] /\ UNCHANGED clients BY <1>5 DEF FindContract, Set
  <2>2. r.at = "upload" BY <1>1 DEF Request
  <2> HIDE DEF r
  <2> QED BY <2>1, <2>2, SaleReads
<1>6. CASE WriteSignatures(s)
  <2>1. Finish(s) /\ UNCHANGED <<customers, reservations, sales, raced>>
    BY <1>6 DEF WriteSignatures, Signed
  <2>2. There' = There /\ \A kind \in Kind : Bought(kind)' = Bought(kind)
    BY <2>1 DEF There, Bought
  <2> QED BY <2>1, <2>2, SaleEnds
<1> QED BY <1>2, <1>3, <1>4, <1>5, <1>6

LEMMA SaleNext == SaleInv /\ [Next]_vars => SaleInv'
<1> SUFFICES ASSUME SaleInv, [Next]_vars PROVE SaleInv' OBVIOUS
<1>1. TypeInv' BY TypeNext DEF SaleInv
<1>2. Looked' => (CustomerIsThere /\ LookupsHold)' BY LookedIs, PTL
<1> SUFFICES Looked' BY <1>1, <1>2 DEF SaleInv
<1>3. CASE UNCHANGED vars
  <2>1. Looked BY SaleFacts
  <2>2. There' = There /\ \A kind \in Kind : Bought(kind)' = Bought(kind)
    BY <1>3 DEF vars, clients, There, Bought
  <2> QED BY <1>3, <2>1, <2>2 DEF Looked, vars, clients, Makes, Removes
<1>4. CASE Next
  <2>1. PICK s \in Slot : Start(s) \/ Fail(s) \/ Step(s) BY <1>4 DEF Next
  <2>2. CASE Start(s) BY <2>2, SaleStart
  <2>3. CASE Fail(s) BY <2>3, SaleRefused DEF Fail
  <2>4. CASE Step(s)
    BY <2>4, SaleLooksUp, SaleCustomers, SaleDeleted, SaleReserved, SaleSold, SaleOthers
       DEF Step
  <2> QED BY <2>1, <2>2, <2>3, <2>4
<1> QED BY <1>3, <1>4

LEMMA SaleInit == Init => SaleInv
<1> SUFFICES ASSUME Init PROVE SaleInv OBVIOUS
<1>1. CustomerIsThere BY DEF Init, CustomerIsThere
<1>2. LookupsHold BY DEF Init, InitRequests, Idle, LookupsHold, Making, Removing, Running
<1> QED BY <1>1, <1>2, TypeInit DEF SaleInv

\* The customer of a sale or a reservation is there, unless that was made while
\* a deletion of the customer had looked and not yet written: deleteCustomer
\* looks for what names the customer, the others for the customer, and a race
\* takes two lookups before two writes.
THEOREM CustomersCorrect == Spec => []CustomerIsThere
<1>1. SaleInv => CustomerIsThere BY DEF SaleInv
<1> QED BY SaleInit, SaleNext, <1>1, PTL DEF Spec

-----------------------------------------------------------------------------
(* Signatures and their date *)

\* A request r that has read a contract and not written it yet.
Holds(r) == r.op = "sign" /\ r.at \in {"upload", "write"}

\* The request in slot s goes on, with what it has read, or with nothing read,
\* and the contracts stay as they are.
LEMMA SignatureQuiet ==
  ASSUME SignatureInv, TypeInv', NEW s \in Slot, NEW r,
         req' = [req EXCEPT ![s] = r], UNCHANGED <<contracts, accepted, overlap>>, Busy(s),
         \/ ~Holds(r)
         \/ /\ Signing(s) /\ r.row = req[s].row
            /\ r.signatures = req[s].signatures /\ r.flag = req[s].flag, UNCHANGED storage
  PROVE  SignatureInv'
<1>1. req \in [Slot -> Request] BY DEF SignatureInv, TypeInv, TypeOK, RequestsOK
<1>2. req'[s] = r /\ \A o \in Slot \ {s} : req'[o] = req[o] BY <1>1
<1>3. \A o \in Slot : Busy(o)' => Busy(o) BY <1>2 DEF Busy
<1>4. \A o \in Slot : Signing(o)' =>
        /\ Signing(o) /\ req'[o].row = req[o].row
        /\ req'[o].signatures = req[o].signatures /\ req'[o].flag = req[o].flag
  BY <1>2 DEF Signing, Holds
<1>5. ReadTogether' BY <1>4 DEF SignatureInv, ReadTogether
<1>6. Alone' BY <1>3 DEF SignatureInv, Alone
<1>7. ReadIsCurrent' BY <1>4 DEF SignatureInv, ReadIsCurrent
<1>8. SignaturesKept' /\ DatedByOwner'
  BY DEF SignatureInv, SignaturesKept, DatedByOwner, WithUrl
<1>9. NothingStored' BY <1>4 DEF SignatureInv, NothingStored
<1> QED BY <1>5, <1>6, <1>7, <1>8, <1>9 DEF SignatureInv

\* A request that arrives has read nothing, and is alone or overlaps.
LEMMA SignatureAccepted ==
  ASSUME SignatureInv, TypeInv', NEW s \in Slot, NEW r, Begin(s, r), ~Holds(r), UNCHANGED storage
  PROVE  SignatureInv'
<1>1. req \in [Slot -> Request] /\ overlap \in BOOLEAN
  BY DEF SignatureInv, TypeInv, TypeOK, RequestsOK
<1>2. /\ req' = [req EXCEPT ![s] = r] /\ UNCHANGED <<contracts, accepted>>
      /\ overlap' = (overlap \/ \E o \in Slot \ {s} : Busy(o))
  BY DEF Begin, Accept, clients
<1>3. req'[s] = r /\ \A o \in Slot \ {s} : req'[o] = req[o] BY <1>1, <1>2
<1>4. ~overlap' => ~overlap /\ \A o \in Slot \ {s} : ~Busy(o) BY <1>1, <1>2
<1>5. \A o \in Slot : Signing(o)' => Signing(o) /\ req'[o] = req[o]
  BY <1>3 DEF Signing, Holds
<1>6. ReadTogether' BY <1>5 DEF SignatureInv, ReadTogether
<1>7. Alone' BY <1>3, <1>4 DEF Alone, Busy
<1>8. ReadIsCurrent' BY <1>2, <1>4, <1>5 DEF SignatureInv, ReadIsCurrent
<1>9. SignaturesKept' /\ DatedByOwner'
  BY <1>2, <1>4 DEF SignatureInv, SignaturesKept, DatedByOwner, WithUrl
<1>10. NothingStored' BY <1>2, <1>5 DEF SignatureInv, NothingStored
<1> QED BY <1>6, <1>7, <1>8, <1>9, <1>10 DEF SignatureInv

\* What findFirst reads is current, and dated as the contract is.
LEMMA SignatureRead ==
  ASSUME SignatureInv, TypeInv', NEW s \in Slot, FindContract(s), UNCHANGED storage
  PROVE  SignatureInv'
<1> DEFINE c == contracts[req[s].row]
           r == [req[s] EXCEPT !.at = "upload", !.signatures = c.signatures, !.flag = c.signedAt]
<1>1. req \in [Slot -> Request] /\ req[s] \in Request /\ TypeInv
  BY DEF SignatureInv, TypeInv, TypeOK, RequestsOK
<1>2. /\ req' = [req EXCEPT ![s] = r] /\ UNCHANGED <<contracts, accepted, overlap>>
      /\ req[s].op = "sign"
  BY DEF FindContract, Set, clients, Running
<1>3. req'[s] = r /\ \A o \in Slot \ {s} : req'[o] = req[o] BY <1>1, <1>2
<1>4. r.op = "sign" /\ r.row = req[s].row /\ r.signatures = c.signatures /\ r.flag = c.signedAt
  BY <1>1, <1>2 DEF Request
<1>5. req[s].row \in DOMAIN contracts BY <1>1, <1>2, ContractRead
<1> HIDE DEF r
<1>6. c.signedAt <=> "owner" \in c.signatures BY <1>5 DEF SignatureInv, DatedByOwner
<1>7. ReadTogether'
  <2> SUFFICES ASSUME NEW o \in Slot, Signing(o)'
               PROVE  req'[o].flag <=> "owner" \in req'[o].signatures
    BY DEF ReadTogether
  <2>1. CASE o = s BY <1>3, <1>4, <1>6, <2>1
  <2>2. CASE o # s BY <1>3, <2>2 DEF SignatureInv, ReadTogether, Signing
  <2> QED BY <2>1, <2>2
<1>8. Alone'
  <2>1. \A o \in Slot : Busy(o)' => Busy(o) BY <1>2, <1>3 DEF Busy
  <2> QED BY <1>2, <2>1 DEF SignatureInv, Alone
<1>9. ReadIsCurrent'
  <2> SUFFICES ASSUME ~overlap', NEW o \in Slot, Signing(o)'
               PROVE  req'[o].signatures = contracts'[req'[o].row].signatures
    BY DEF ReadIsCurrent
  <2>1. CASE o = s BY <1>2, <1>3, <1>4, <2>1
  <2>2. CASE o # s BY <1>2, <1>3, <2>2 DEF SignatureInv, ReadIsCurrent, Signing
  <2> QED BY <2>1, <2>2
<1>10. SignaturesKept' /\ DatedByOwner'
  BY <1>2 DEF SignatureInv, SignaturesKept, DatedByOwner, WithUrl
<1>11. NothingStored'
  <2> SUFFICES ASSUME storage = "spaces", NEW o \in Slot, Signing(o)'
               PROVE  req'[o].signatures = {}
    BY <1>2 DEF SignatureInv, NothingStored
  <2>1. CASE o = s BY <1>3, <1>4, <1>5, <2>1 DEF SignatureInv, NothingStored
  <2>2. CASE o # s BY <1>3, <2>2 DEF SignatureInv, NothingStored, Signing
  <2> QED BY <2>1, <2>2
<1> QED BY <1>7, <1>8, <1>9, <1>10, <1>11 DEF SignatureInv

\* A new contract has neither a signature nor a date.
LEMMA SignatureNewContract ==
  ASSUME SignatureInv, TypeInv', NEW s \in Slot, CreateContract(s), UNCHANGED storage
  PROVE  SignatureInv'
<1> DEFINE r == [req[s] EXCEPT !.at = "link", !.contract = Len(contracts')]
<1>1. TypeInv /\ req \in [Slot -> Request] /\ req[s] \in Request
  BY DEF SignatureInv, TypeInv, TypeOK, RequestsOK
<1>2. /\ contracts \in Seq(ContractRow) /\ accepted \in Seq(SUBSET Party)
      /\ Len(accepted) = Len(contracts)
  BY <1>1 DEF TypeInv, TypeOK
<1>3. /\ req' = [req EXCEPT ![s] = r] /\ UNCHANGED overlap
      /\ req[s].op = "sell" /\ contracts' = Append(contracts, NewContract)
      /\ accepted' = Append(accepted, {})
  BY DEF CreateContract, Set, Running
<1>4. r.op = "sell" BY <1>1, <1>3 DEF Request
<1>5. req'[s] = r /\ \A o \in Slot \ {s} : req'[o] = req[o] BY <1>1, <1>3
<1> HIDE DEF r
<1>6. \A c \in DOMAIN contracts : contracts'[c] = contracts[c] /\ accepted'[c] = accepted[c]
  <2> HIDE DEF NewContract
  <2> QED BY <1>2, <1>3
<1>7. ASSUME NEW c \in DOMAIN contracts', c \notin DOMAIN contracts
      PROVE  contracts'[c] = NewContract /\ accepted'[c] = {}
  <2>1. c = Len(contracts) + 1 BY <1>2, <1>3, <1>7
  <2> QED BY <1>2, <1>3, <2>1
<1>8. \A o \in Slot : Signing(o)' => o # s /\ Signing(o) /\ req'[o] = req[o]
  BY <1>4, <1>5 DEF Signing
<1>9. ReadTogether' BY <1>8 DEF SignatureInv, ReadTogether
<1>10. Alone'
  <2>1. \A o \in Slot : Busy(o)' => Busy(o) BY <1>3, <1>5 DEF Busy
  <2> QED BY <1>3, <2>1 DEF SignatureInv, Alone
<1>11. ReadIsCurrent'
  <2> SUFFICES ASSUME ~overlap', NEW o \in Slot, Signing(o)'
               PROVE  req'[o].signatures = contracts'[req'[o].row].signatures
    BY DEF ReadIsCurrent
  <2>1. Signing(o) /\ req'[o] = req[o] BY <1>8
  <2>2. req[o].row \in DOMAIN contracts BY <1>1, <2>1, ContractRead DEF Signing
  <2> QED BY <1>3, <1>6, <2>1, <2>2 DEF SignatureInv, ReadIsCurrent
<1>12. SignaturesKept'
  <2> SUFFICES ASSUME ~overlap', NEW c \in DOMAIN contracts'
               PROVE  contracts'[c].signatures = WithUrl(accepted'[c])
    BY DEF SignaturesKept, WithUrl
  <2>1. CASE c \in DOMAIN contracts
    BY <1>3, <1>6, <2>1 DEF SignatureInv, SignaturesKept
  <2>2. CASE c \notin DOMAIN contracts BY <1>7, <2>2 DEF NewContract, WithUrl
  <2> QED BY <2>1, <2>2
<1>13. DatedByOwner'
  <2> SUFFICES ASSUME NEW c \in DOMAIN contracts'
               PROVE  contracts'[c].signedAt <=> "owner" \in contracts'[c].signatures
    BY DEF DatedByOwner
  <2>1. CASE c \in DOMAIN contracts BY <1>6, <2>1 DEF SignatureInv, DatedByOwner
  <2>2. CASE c \notin DOMAIN contracts BY <1>7, <2>2 DEF NewContract
  <2> QED BY <2>1, <2>2
<1>14. NothingStored'
  <2> SUFFICES ASSUME storage = "spaces"
               PROVE  /\ \A c \in DOMAIN contracts' : contracts'[c].signatures = {}
                      /\ \A o \in Slot : Signing(o)' => req'[o].signatures = {}
    BY DEF NothingStored
  <2>1. ASSUME NEW c \in DOMAIN contracts' PROVE contracts'[c].signatures = {}
    <3>1. CASE c \in DOMAIN contracts BY <1>6, <3>1 DEF SignatureInv, NothingStored
    <3>2. CASE c \notin DOMAIN contracts BY <1>7, <3>2 DEF NewContract
    <3> QED BY <3>1, <3>2
  <2>2. \A o \in Slot : Signing(o)' => req'[o].signatures = {}
    BY <1>8 DEF SignatureInv, NothingStored
  <2> QED BY <2>1, <2>2
<1> QED BY <1>9, <1>10, <1>11, <1>12, <1>13, <1>14 DEF SignatureInv

\* The whole column is written from what was read: together with its date,
\* and nothing is lost when nobody else was signing.
LEMMA SignatureWritten ==
  ASSUME SignatureInv, TypeInv', NEW s \in Slot, WriteSignatures(s), UNCHANGED storage
  PROVE  SignatureInv'
<1> DEFINE c == req[s].row
           all == Merged(s)
           row == [signatures |-> all, signedAt |-> "owner" \in all \/ req[s].flag]
<1>1. TypeInv /\ req \in [Slot -> Request]
  BY DEF SignatureInv, TypeInv, TypeOK, RequestsOK
<1>2. /\ contracts' = [contracts EXCEPT ![c] = row]
      /\ accepted' = [accepted EXCEPT ![c] = @ \cup req[s].files]
      /\ req' = [req EXCEPT ![s] = Idle] /\ UNCHANGED overlap
      /\ Signing(s) /\ Busy(s)
  BY DEF WriteSignatures, Signed, Finish, Set, Running, Signing, Busy
<1>3. /\ contracts \in Seq(ContractRow) /\ accepted \in Seq(SUBSET Party)
      /\ Len(accepted) = Len(contracts) /\ c \in DOMAIN contracts
  BY <1>1, <1>2, ContractRead DEF TypeInv, TypeOK, Signing
<1>4. DOMAIN accepted = DOMAIN contracts BY <1>3, LenProperties
<1>5. row.signatures = all /\ row.signedAt = ("owner" \in all \/ req[s].flag) OBVIOUS
<1>6. /\ contracts'[c] = row /\ accepted'[c] = accepted[c] \cup req[s].files
      /\ DOMAIN contracts' = DOMAIN contracts
      /\ \A d \in DOMAIN contracts \ {c} :
           contracts'[d] = contracts[d] /\ accepted'[d] = accepted[d]
  BY <1>2, <1>3, <1>4
<1> HIDE DEF row
<1> HIDE DEF all
<1>7. req'[s] = Idle /\ \A o \in Slot \ {s} : req'[o] = req[o] BY <1>1, <1>2
<1>8. \A o \in Slot : Signing(o)' => o # s /\ Signing(o) /\ req'[o] = req[o]
  BY <1>7 DEF Signing, Idle
<1>9. ReadTogether' BY <1>8 DEF SignatureInv, ReadTogether
<1>10. Alone'
  <2>1. \A o \in Slot : Busy(o)' => Busy(o) BY <1>2, <1>7 DEF Busy
  <2> QED BY <1>2, <2>1 DEF SignatureInv, Alone
<1>11. ReadIsCurrent'
  <2> SUFFICES ASSUME ~overlap', NEW o \in Slot, Signing(o)' PROVE FALSE
    BY DEF ReadIsCurrent
  <2>1. o # s /\ Busy(o) BY <1>8 DEF Signing, Busy
  <2> QED BY <1>2, <2>1 DEF SignatureInv, Alone
<1>12. SignaturesKept'
  <2> SUFFICES ASSUME ~overlap', NEW d \in DOMAIN contracts'
               PROVE  contracts'[d].signatures = WithUrl(accepted'[d])
    BY DEF SignaturesKept, WithUrl
  <2>1. ~overlap BY <1>2
  <2>2. CASE d = c
    <3>1. contracts[c].signatures = WithUrl(accepted[c])
      BY <1>3, <2>1 DEF SignatureInv, SignaturesKept
    <3>2. req[s].signatures = contracts[c].signatures
      BY <1>2, <2>1 DEF SignatureInv, ReadIsCurrent
    <3>3. all = WithUrl(accepted[c] \cup req[s].files)
      BY <3>1, <3>2 DEF all, Merged, WithUrl
    <3> QED BY <1>5, <1>6, <2>2, <3>3
  <2>3. CASE d # c BY <1>6, <2>1, <2>3 DEF SignatureInv, SignaturesKept
  <2> QED BY <2>2, <2>3
<1>13. DatedByOwner'
  <2> SUFFICES ASSUME NEW d \in DOMAIN contracts'
               PROVE  contracts'[d].signedAt <=> "owner" \in contracts'[d].signatures
    BY DEF DatedByOwner
  <2>1. CASE d = c
    <3>1. req[s].flag <=> "owner" \in req[s].signatures
      BY <1>2 DEF SignatureInv, ReadTogether
    <3>2. contracts'[d].signedAt <=> "owner" \in all \/ req[s].flag
      BY <1>5, <1>6, <2>1
    <3>3. contracts'[d].signatures = all BY <1>5, <1>6, <2>1
    <3>4. "owner" \in req[s].signatures => "owner" \in all
      BY <1>2 DEF all, Merged, WithUrl, SignatureInv, NothingStored
    <3> QED BY <3>1, <3>2, <3>3, <3>4
  <2>2. CASE d # c BY <1>6, <2>2 DEF SignatureInv, DatedByOwner
  <2> QED BY <2>1, <2>2
<1>14. NothingStored'
  <2> SUFFICES ASSUME storage = "spaces"
               PROVE  /\ \A d \in DOMAIN contracts' : contracts'[d].signatures = {}
                      /\ \A o \in Slot : Signing(o)' => req'[o].signatures = {}
    BY DEF NothingStored
  <2>1. all = {} BY <1>2 DEF all, Merged, WithUrl, SignatureInv, NothingStored
  <2>2. ASSUME NEW d \in DOMAIN contracts' PROVE contracts'[d].signatures = {}
    <3>1. CASE d = c BY <1>5, <1>6, <2>1, <3>1
    <3>2. CASE d # c BY <1>6, <3>2 DEF SignatureInv, NothingStored
    <3> QED BY <3>1, <3>2
  <2>3. \A o \in Slot : Signing(o)' => req'[o].signatures = {}
    BY <1>8 DEF SignatureInv, NothingStored
  <2> QED BY <2>2, <2>3
<1> QED BY <1>9, <1>10, <1>11, <1>12, <1>13, <1>14 DEF SignatureInv

LEMMA SignatureRefused ==
  ASSUME SignatureInv, TypeInv', NEW s \in Slot, Busy(s), Finish(s),
         UNCHANGED <<contracts, accepted>>, UNCHANGED storage
  PROVE  SignatureInv'
<1>1. req' = [req EXCEPT ![s] = Idle] /\ UNCHANGED overlap BY DEF Finish, Set
<1>2. ~Holds(Idle) BY DEF Holds, Idle
<1> QED BY <1>1, <1>2, SignatureQuiet

\* The steps of requests that are not about signatures.
LEMMA SignatureOthers ==
  ASSUME SignatureInv, TypeInv', NEW s \in Slot, req[s].op \in Op \ {"idle", "sign"}, Step(s),
         ~CreateContract(s), UNCHANGED storage
  PROVE  SignatureInv'
<1>1. Busy(s) /\ req[s] \in Request
  BY DEF Busy, SignatureInv, TypeInv, TypeOK, RequestsOK
<1>2. ~FindContract(s) /\ ~UploadSignatures(s) /\ ~WriteSignatures(s)
  BY DEF FindContract, UploadSignatures, WriteSignatures, Signed, Running
<1>3. UNCHANGED <<contracts, accepted>>
  BY <1>2 DEF Step, CreateFind, CreateCustomer, UpdateFind, UpdateEmail, UpdateCustomer,
     DeleteFind, BarCustomer, DeleteRestrict, DeleteCustomer, FindCustomer, Reserve,
     ReadReservation, BeginSale, CreateInventorySale, CreateSale, LinkContract, InsertSale,
     Refuse, clients
<1> DEFINE Becomes(r) == req' = [req EXCEPT ![s] = r] /\ UNCHANGED overlap
<1>4. CASE Finish(s) BY <1>1, <1>3, <1>4, SignatureRefused
<1>5. ASSUME NEW a, Goto(s, a) PROVE SignatureInv'
  <2>1. ~Holds([req[s] EXCEPT !.at = a]) BY <1>1 DEF Holds, Request
  <2>2. Becomes([req[s] EXCEPT !.at = a]) BY <1>5 DEF Goto, Set
  <2> QED BY <1>1, <1>3, <2>1, <2>2, SignatureQuiet
<1>6. CASE CreateFind(s) BY <1>4, <1>5, <1>6 DEF CreateFind, Refuse
<1>7. CASE UpdateFind(s) BY <1>4, <1>5, <1>7 DEF UpdateFind, Refuse
<1>8. CASE UpdateEmail(s) BY <1>4, <1>5, <1>8 DEF UpdateEmail, Refuse
<1>9. CASE DeleteFind(s) BY <1>4, <1>5, <1>9 DEF DeleteFind, Refuse
<1>10. CASE FindCustomer(s) BY <1>4, <1>5, <1>10 DEF FindCustomer, Refuse
<1>14. CASE DeleteRestrict(s) BY <1>4, <1>5, <1>14 DEF DeleteRestrict, Refuse
<1>15. CASE BeginSale(s) BY <1>4, <1>5, <1>15 DEF BeginSale, Refuse
<1>11. CASE ReadReservation(s)
  <2> DEFINE r == [req[s] EXCEPT !.at = "write", !.row = reservations[req[s].row]]
  <2>1. ~Holds(r) BY <1>1 DEF Holds, Request
  <2>2. Becomes(r) BY <1>11 DEF ReadReservation, Set
  <2> QED BY <1>1, <1>3, <2>1, <2>2, SignatureQuiet
<1>12. CASE CreateSale(s)
  <2> DEFINE r == [req[s] EXCEPT !.at = "contract", !.row = Len(sales')]
  <2>1. Finish(s) \/ Becomes(r) BY <1>12 DEF CreateSale, Set, Refuse
  <2>2. ~Holds(r) BY <1>1 DEF Holds, Request
  <2> QED BY <1>1, <1>3, <1>4, <2>1, <2>2, SignatureQuiet
<1>13. CASE \/ CreateCustomer(s) \/ UpdateCustomer(s) \/ BarCustomer(s) \/ DeleteCustomer(s)
            \/ Reserve(s) \/ CreateInventorySale(s) \/ LinkContract(s)
  BY <1>4, <1>13 DEF CreateCustomer, UpdateCustomer, BarCustomer, DeleteCustomer, Reserve,
     CreateInventorySale, LinkContract, Refuse
<1> QED BY <1>2, <1>6, <1>7, <1>8, <1>9, <1>10, <1>11, <1>12, <1>13, <1>14, <1>15 DEF Step

LEMMA SignatureUploaded ==
  ASSUME SignatureInv, TypeInv', NEW s \in Slot, UploadSignatures(s), UNCHANGED storage
  PROVE  SignatureInv'
<1>1. req[s] \in Request /\ Busy(s) /\ Signing(s) /\ UNCHANGED <<contracts, accepted>>
  BY DEF SignatureInv, TypeInv, TypeOK, RequestsOK, UploadSignatures, Running, Busy, Signing,
     Refuse, clients
<1>2. CASE Finish(s) BY <1>1, <1>2, SignatureRefused
<1>3. CASE Goto(s, "write")
  <2> DEFINE r == [req[s] EXCEPT !.at = "write"]
  <2>1. req' = [req EXCEPT ![s] = r] /\ UNCHANGED overlap BY <1>3 DEF Goto, Set
  <2>2. r.row = req[s].row /\ r.signatures = req[s].signatures /\ r.flag = req[s].flag
    BY <1>1 DEF Request
  <2> QED BY <1>1, <2>1, <2>2, SignatureQuiet
<1> QED BY <1>2, <1>3 DEF UploadSignatures, Refuse

\* A request that arrives has read nothing.
LEMMA SignatureStart ==
  ASSUME SignatureInv, TypeInv', NEW s \in Slot, Start(s), UNCHANGED storage
  PROVE  SignatureInv'
<1> USE DEF Ask, Idle, Holds
<1>1. ASSUME NEW r, Begin(s, r), ~Holds(r) PROVE SignatureInv'
  BY <1>1, SignatureAccepted
<1>2. CASE AskCreateCustomer(s) BY <1>1, <1>2 DEF AskCreateCustomer
<1>3. CASE AskUpdateCustomer(s) BY <1>1, <1>3 DEF AskUpdateCustomer
<1>4. CASE AskDeleteCustomer(s) BY <1>1, <1>4 DEF AskDeleteCustomer
<1>5. CASE AskReservation(s) BY <1>1, <1>5 DEF AskReservation
<1>6. CASE AskCompletion(s) BY <1>1, <1>6 DEF AskCompletion
<1>7. CASE AskSale(s) BY <1>1, <1>7 DEF AskSale
<1>8. CASE AskUploadSignatures(s) BY <1>1, <1>8 DEF AskUploadSignatures
<1> QED BY <1>2, <1>3, <1>4, <1>5, <1>6, <1>7, <1>8 DEF Start

LEMMA SignatureNext == SignatureInv /\ [Next]_vars => SignatureInv'
<1> SUFFICES ASSUME SignatureInv, [Next]_vars PROVE SignatureInv' OBVIOUS
<1>1. TypeInv' BY TypeNext DEF SignatureInv
<1>2. CASE UNCHANGED vars
  BY <1>1, <1>2 DEF vars, clients, SignatureInv, ReadTogether, Alone, ReadIsCurrent, Signing,
     Busy, NothingStored, SignaturesKept, DatedByOwner, WithUrl
<1>3. CASE Next
  <2>1. PICK s \in Slot : Start(s) \/ Fail(s) \/ Step(s) BY <1>3 DEF Next
  <2> UNCHANGED storage BY <1>3 DEF Next
  <2>2. CASE Start(s) BY <1>1, <2>2, SignatureStart
  <2>3. CASE Fail(s) BY <1>1, <2>3, SignatureRefused DEF Fail, Refuse, clients
  <2>4. CASE CreateContract(s) BY <1>1, <2>4, SignatureNewContract
  <2>5. CASE FindContract(s) BY <1>1, <2>5, SignatureRead
  <2>6. CASE UploadSignatures(s) BY <1>1, <2>6, SignatureUploaded
  <2>7. CASE WriteSignatures(s) BY <1>1, <2>7, SignatureWritten
  <2>8. CASE /\ Step(s) /\ ~CreateContract(s) /\ ~FindContract(s)
             /\ ~UploadSignatures(s) /\ ~WriteSignatures(s)
    <3>1. req[s].op \in Op \ {"idle", "sign"}
      BY <2>8 DEF Step, CreateFind, CreateCustomer, UpdateFind, UpdateEmail, UpdateCustomer,
         DeleteFind, BarCustomer, DeleteRestrict, DeleteCustomer, FindCustomer, Reserve,
         ReadReservation, BeginSale, CreateInventorySale, CreateSale, LinkContract, Running, Op
    <3> QED BY <1>1, <2>8, <3>1, SignatureOthers
  <2> QED BY <2>1, <2>2, <2>3, <2>4, <2>5, <2>6, <2>7, <2>8
<1> QED BY <1>2, <1>3

LEMMA SignatureInit == Init => SignatureInv
<1> SUFFICES ASSUME Init PROVE SignatureInv OBVIOUS
<1>1. TypeInv BY TypeInit
<1>2. \A s \in Slot : ~Busy(s) /\ ~Signing(s) BY DEF Init, InitRequests, Busy, Signing, Idle
<1>3. \A c \in DOMAIN contracts : contracts[c] = NewContract /\ accepted[c] = {}
  <2> HIDE DEF NewContract
  <2> QED BY DEF Init
<1>4. SignaturesKept /\ DatedByOwner
  BY <1>3 DEF SignaturesKept, DatedByOwner, NewContract, WithUrl
<1>5. NothingStored BY <1>2, <1>3 DEF NothingStored, NewContract
<1> QED BY <1>1, <1>2, <1>4, <1>5 DEF SignatureInv, ReadTogether, Alone, ReadIsCurrent

\* uploadContractSignatures writes the whole column from what it read: as long
\* as no two requests overlap, every signature that was accepted is kept where
\* the storage provider answers with a url, and none where it does not.
THEOREM SignaturesCorrect == Spec => []SignaturesKept
<1>1. SignatureInv => SignaturesKept BY DEF SignatureInv
<1> QED BY SignatureInit, SignatureNext, <1>1, PTL DEF Spec

\* signedAt and the owner's signature go together, even when requests that
\* overlap overwrite each other: both are read, and written, at once.
THEOREM DateCorrect == Spec => []DatedByOwner
<1>1. SignatureInv => DatedByOwner BY DEF SignatureInv
<1> QED BY SignatureInit, SignatureNext, <1>1, PTL DEF Spec
=============================================================================

-------------------------- MODULE ProductSaleProofs --------------------------
(***************************************************************************)
(* The money and the stock of ProductSale, for every number of sales,      *)
(* payments, jobs, batches and attempts: SaleInv is inductive.             *)
(*                                                                         *)
(* A payment is credited once because the worker, between the steps of one *)
(* job, owns the payment it marked COMPLETED: nobody else changes a        *)
(* COMPLETED payment, and the sale lacks exactly its amount (WorkerKnows). *)
(* From that it follows, step by step, that the sales implement            *)
(* PaymentPromise.                                                         *)
(*                                                                         *)
(* The last part is about StockCheck, for every order, recipe and shelf:   *)
(* CheckInv says what holds between two rounds of its loops.               *)
(***************************************************************************)
EXTENDS ProductSale, StockCheck, FiniteSetTheorems, SequenceTheorems, TLAPS

-----------------------------------------------------------------------------
(* Money *)

LEMMA DueType ==
  ASSUME TypeOK, NEW s \in Sale
  PROVE  Due(s) \in Nat \ {0}
BY PriceAssumption DEF Due

LEMMA CompletedFinite ==
  ASSUME NEW s
  PROVE  /\ IsFiniteSet(Completed(s))
         /\ Cardinality(Completed(s)) \in Nat
<1>1. IsFiniteSet(Payment) /\ Completed(s) \in SUBSET Payment
  BY SaleAssumption DEF Completed
<1>2. IsFiniteSet(Completed(s))
  BY <1>1, FS_Subset, Zenon
<1> QED
  BY <1>2, FS_CardinalityType

LEMMA ProductType ==
  ASSUME NEW m \in Nat, NEW n \in Nat
  PROVE  /\ m * n \in Nat
         /\ m * (n + 1) = m * n + m
OBVIOUS

LEMMA VerifiedType ==
  ASSUME TypeOK, NEW s \in Sale
  PROVE  Verified(s) \in Nat
<1> DEFINE c == Cardinality(Completed(s))
<1>1. Due(s) \in Nat /\ c \in Nat
  BY DueType, CompletedFinite
<1>2. Due(s) * c \in Nat
  <2> HIDE DEF c
  <2> QED BY <1>1, ProductType
<1> QED
  BY <1>2 DEF Verified

\* What is due and verified stays when payments, tokens, modes and paid do.
MoneyStays ==
  /\ UNCHANGED <<pay, tokens>>
  /\ \A s \in Sale : sale'[s].mode = sale[s].mode /\ sale'[s].paid = sale[s].paid

LEMMA MoneyStaysCounted ==
  ASSUME PaymentsCountOnce, MoneyStays
  PROVE  /\ \A s \in Sale : Due(s)' = Due(s) /\ Verified(s)' = Verified(s)
         /\ PaymentsCountOnce'
<1>1. \A s \in Sale : Due(s)' = Due(s) /\ Completed(s)' = Completed(s)
  BY DEF MoneyStays, Due, Completed
<1>2. \A s \in Sale : Verified(s)' = Verified(s)
  BY <1>1 DEF Verified
<1> QED
  BY <1>1, <1>2 DEF PaymentsCountOnce, MoneyStays

\* The sale of the job that the worker is at.
LEMMA WorkersSale ==
  ASSUME SaleInv, work.pc # "idle"
  PROVE  /\ work.job \in Job
         /\ job[work.job].state = "active"
         /\ job[work.job].left \in 1..MaxAttempts
         /\ PaymentOf(work.job) \in Payment
         /\ pay[PaymentOf(work.job)].status # "NONE"
         /\ SaleOf(work.job) \in Sale
         /\ sale[SaleOf(work.job)].status # "NONE"
<1>1. work.job \in Job /\ job[work.job].state = "active"
  BY DEF SaleInv, JobsHaveAttempts
<1>2. job[work.job] \in JobState
  BY <1>1 DEF SaleInv, TypeOK
<1>3. PaymentOf(work.job) \in Payment /\ job[work.job].left \in 0..MaxAttempts
  BY <1>1, <1>2 DEF JobState, PaymentOf
<1>4. job[work.job].left \in 1..MaxAttempts
  BY <1>1, <1>3, PriceAssumption DEF SaleInv, JobsHaveAttempts
<1>5. pay[PaymentOf(work.job)].status # "NONE"
  BY <1>1 DEF SaleInv, RowsExist, PaymentOf
<1> QED
  BY <1>1, <1>3, <1>4, <1>5 DEF SaleInv, RowsExist, SaleOf

-----------------------------------------------------------------------------
(* Init *)

LEMMA InitSaleInv == Init => SaleInv
<1> SUFFICES ASSUME Init PROVE SaleInv
  OBVIOUS
<1>1. TypeOK
  BY StockAssumption, SaleAssumption, PriceAssumption
     DEF Init, TypeOK, NoRow, NoPay, Idle, NoRun, Nothing, Row, SaleStatus, PayStatus, Mode,
         RequestState, JobState, WorkState, Allocation
<1>2. PaymentsCountOnce
  <2> SUFFICES ASSUME NEW s \in Sale
               PROVE  sale[s].paid <= Verified(s) /\ Due(s) * tokens[s] <= sale[s].paid
    BY DEF PaymentsCountOnce
  <2>1. Due(s) \in Nat /\ Verified(s) \in Nat
    BY <1>1, DueType, VerifiedType
  <2> QED
    BY <2>1 DEF Init, NoRow
<1>3. RowsExist /\ FreshSales /\ JobsHaveAttempts /\ WorkerKnows /\ CronHasRestored
  BY DEF Init, RowsExist, FreshSales, JobsHaveAttempts, WorkerKnows, CronHasRestored,
         NoRow, NoPay, Idle
<1>4. StatusTellsPaid /\ CancelledIsRestored
  BY DEF Init, StatusTellsPaid, CancelledIsRestored, NoRow
<1> QED
  BY <1>1, <1>2, <1>3, <1>4 DEF SaleInv

-----------------------------------------------------------------------------
(* Steps of the requests *)

LEMMA FifoType ==
  ASSUME NEW item, NEW available, NEW a \in FifoAllocations(item, available)
  PROVE  a \in Allocation
BY DEF FifoAllocations

LEMMA ReqType ==
  ASSUME TypeOK, NEW s \in Sale, NEW r \in RequestState,
         req' = [req EXCEPT ![s] = r]
  PROVE  /\ req' \in [Sale -> RequestState]
         /\ req'[s] = r
         /\ \A x \in Sale : x # s => req'[x] = req[x]
BY DEF TypeOK

\* A step that leaves everything alone except the progress of a request that
\* has not committed, or is over.
LEMMA RequestOnly ==
  ASSUME SaleInv, NEW s \in Sale, NEW r \in RequestState,
         req' = [req EXCEPT ![s] = r],
         UNCHANGED <<remaining, sale, restored, paying, expiring>>,
         \/ r.pc = "done"
         \/ r.pc \in {"pricing", "selling"} /\ req[s].pc \in {"idle", "pricing"}
  PROVE  SaleInv'
<1>1. TypeOK /\ UNCHANGED <<remaining, sale, restored, pay, tokens, job, work, old, cron, faults>>
  BY DEF SaleInv, paying, expiring
<1>2. TypeOK'
  BY <1>1, ReqType DEF TypeOK
<1>3. FreshSales'
  BY <1>1, ReqType DEF SaleInv, FreshSales
<1>4. PaymentsCountOnce' /\ \A x \in Sale : Due(x)' = Due(x) /\ Verified(x)' = Verified(x)
  BY <1>1, MoneyStaysCounted DEF MoneyStays, SaleInv
<1>5. WorkerKnows'
  BY <1>1, <1>4, WorkersSale DEF SaleInv, WorkerKnows, SaleOf, PaymentOf
<1>6. RowsExist' /\ JobsHaveAttempts' /\ CronHasRestored'
  BY <1>1 DEF SaleInv, RowsExist, JobsHaveAttempts, CronHasRestored
<1>7. StatusTellsPaid' /\ CancelledIsRestored'
  BY <1>1 DEF SaleInv, StatusTellsPaid, CancelledIsRestored
<1> QED
  BY <1>2, <1>3, <1>4, <1>5, <1>6, <1>7 DEF SaleInv

LEMMA StartSaleKeeps ==
  ASSUME SaleInv, NEW s \in Sale, NEW o \in Orders, NEW m \in Modes, StartSale(s, o, m)
  PROVE  SaleInv'
<1> DEFINE r == [pc |-> "pricing", order |-> o, mode |-> m]
<1>1. r \in RequestState /\ r.pc = "pricing"
  BY SaleAssumption DEF RequestState, Mode
<1>2. /\ req' = [req EXCEPT ![s] = r]
      /\ req[s].pc = "idle"
      /\ UNCHANGED <<remaining, sale, restored, paying, expiring>>
  BY DEF StartSale
<1> HIDE DEF r
<1> QED
  BY <1>1, <1>2, RequestOnly

LEMMA PriceItemKeeps ==
  ASSUME SaleInv, NEW s \in Sale, PriceItem(s)
  PROVE  SaleInv'
<1>1. PICK a \in FifoAllocations(req[s].order, remaining) :
        req' = [req EXCEPT ![s] = [pc |-> "selling", mode |-> req[s].mode, alloc |-> a]]
  BY DEF PriceItem
<1> DEFINE r == [pc |-> "selling", mode |-> req[s].mode, alloc |-> a]
<1>2. req[s].pc = "pricing" /\ req[s] \in RequestState
  BY DEF SaleInv, TypeOK, PriceItem
<1>3. req[s].mode \in Mode
  BY <1>2 DEF RequestState
<1>4. r \in RequestState /\ r.pc = "selling"
  BY <1>3, FifoType DEF RequestState
<1>5. UNCHANGED <<remaining, sale, restored, paying, expiring>>
  BY DEF PriceItem
<1> HIDE DEF r
<1> QED
  BY <1>1, <1>2, <1>4, <1>5, RequestOnly DEF r

LEMMA FailSaleKeeps ==
  ASSUME SaleInv, NEW s \in Sale, FailSale(s)
  PROVE  SaleInv'
<1> DEFINE r == [pc |-> "done"]
<1>1. r \in RequestState /\ r.pc = "done"
  BY DEF RequestState
<1>2. /\ req' = [req EXCEPT ![s] = r]
      /\ UNCHANGED <<remaining, sale, restored, paying, expiring>>
  BY DEF FailSale
<1> HIDE DEF r
<1> QED
  BY <1>1, <1>2, RequestOnly

LEMMA CommitSaleKeeps ==
  ASSUME SaleInv, NEW s \in Sale, CommitSale(s)
  PROVE  SaleInv'
<1> DEFINE row == [NoRow EXCEPT !.status = "UNPAID", !.mode = req[s].mode, !.alloc = req[s].alloc]
           r == [pc |-> IF req[s].mode = "INSTALLMENT" THEN "contract" ELSE "bill"]
<1>1. /\ req[s].pc = "selling" /\ req[s] \in RequestState
      /\ sale' = [sale EXCEPT ![s] = row]
      /\ req' = [req EXCEPT ![s] = r]
      /\ UNCHANGED <<pay, tokens, job, work, old, cron, faults, restored>>
      /\ TypeOK
  BY DEF SaleInv, TypeOK, CommitSale, paying, expiring
<1>2. req[s].mode \in Mode /\ req[s].alloc \in Allocation
  BY <1>1 DEF RequestState
<1>3. row \in Row /\ row.status = "UNPAID" /\ row.paid = 0
  BY <1>2 DEF Row, NoRow, SaleStatus
<1>4. r \in RequestState /\ r.pc \in {"contract", "bill"}
  BY DEF RequestState
<1>5. remaining' \in [Batch -> Int]
  BY <1>2, SaleAssumption DEF CommitSale, Minus, Allocation, SaleInv, TypeOK
<1>6. /\ sale[s].status = "NONE" /\ sale[s].paid = 0 /\ tokens[s] = 0
  BY <1>1 DEF SaleInv, FreshSales
<1> HIDE DEF row, r
<1>7. /\ sale' \in [Sale -> Row] /\ sale'[s] = row
      /\ \A x \in Sale : x # s => sale'[x] = sale[x]
  BY <1>1, <1>3 DEF TypeOK
<1>8. /\ req' \in [Sale -> RequestState] /\ req'[s] = r
      /\ \A x \in Sale : x # s => req'[x] = req[x]
  BY <1>1, <1>4, ReqType
<1>9. TypeOK'
  BY <1>1, <1>5, <1>7, <1>8 DEF TypeOK
<1>10. RowsExist' /\ FreshSales' /\ JobsHaveAttempts'
  BY <1>1, <1>3, <1>4, <1>7, <1>8 DEF SaleInv, RowsExist, FreshSales, JobsHaveAttempts
<1>11. \A x \in Sale : x # s => Due(x)' = Due(x) /\ Verified(x)' = Verified(x)
  BY <1>1, <1>7 DEF Due, Verified, Completed
<1>12. WorkerKnows'
  BY <1>1, <1>6, <1>7, <1>11, WorkersSale DEF SaleInv, WorkerKnows, SaleOf, PaymentOf
<1>13. CronHasRestored' /\ CancelledIsRestored'
  BY <1>1, <1>3, <1>6, <1>7 DEF SaleInv, RowsExist, CronHasRestored, CancelledIsRestored
<1>14. PaymentsCountOnce'
  <2> SUFFICES ASSUME NEW x \in Sale
               PROVE  (sale[x].paid <= Verified(x) /\ Due(x) * tokens[x] <= sale[x].paid)'
    BY DEF PaymentsCountOnce
  <2>1. CASE x = s
    <3> DEFINE due == Due(s)'
               c == Cardinality(Completed(s))
    <3>1. due \in Nat
      BY PriceAssumption DEF Due
    <3>2. Verified(s)' = due * c
      BY <1>1 DEF Verified, Completed
    <3>3. c \in Nat
      BY CompletedFinite
    <3> HIDE DEF due, c
    <3>4. due * c \in Nat
      BY <3>1, <3>3, ProductType
    <3>5. Verified(s)' \in Nat /\ due * 0 = 0
      BY <3>1, <3>2, <3>4
    <3> QED
      BY <2>1, <3>5, <1>1, <1>3, <1>6, <1>7 DEF due
  <2>2. CASE x # s
    BY <2>2, <1>1, <1>7, <1>11 DEF SaleInv, PaymentsCountOnce
  <2> QED
    BY <2>1, <2>2
<1>15. StatusTellsPaid'
  BY <1>3, <1>7 DEF SaleInv, StatusTellsPaid
<1> QED
  BY <1>9, <1>10, <1>12, <1>13, <1>14, <1>15 DEF SaleInv

\* A step that changes no more of a sale than its flags keeps what is said of
\* its money, its status and its stock.
LEMMA FlagsOnly ==
  ASSUME SaleInv, NEW s \in Sale, NEW row \in Row,
         sale' = [sale EXCEPT ![s] = row],
         row.status = sale[s].status, row.mode = sale[s].mode,
         row.paid = sale[s].paid, row.alloc = sale[s].alloc,
         UNCHANGED <<pay, tokens, cron, restored>>
  PROVE  /\ sale' \in [Sale -> Row]
         /\ \A x \in Sale : /\ sale'[x].status = sale[x].status
                            /\ sale'[x].paid = sale[x].paid
                            /\ Due(x)' = Due(x) /\ Verified(x)' = Verified(x)
         /\ PaymentsCountOnce' /\ StatusTellsPaid' /\ CancelledIsRestored'
         /\ CronHasRestored'
         /\ cron # NoRun => cron.sale \in Sale /\ sale'[cron.sale].status # "NONE"
<1>1. /\ sale' \in [Sale -> Row]
      /\ \A x \in Sale : /\ sale'[x].status = sale[x].status
                         /\ sale'[x].mode = sale[x].mode
                         /\ sale'[x].paid = sale[x].paid
                         /\ sale'[x].alloc = sale[x].alloc
  BY DEF SaleInv, TypeOK
<1>2. PaymentsCountOnce' /\ \A x \in Sale : Due(x)' = Due(x) /\ Verified(x)' = Verified(x)
  BY <1>1, MoneyStaysCounted DEF SaleInv, MoneyStays
<1>3. StatusTellsPaid' /\ CancelledIsRestored'
  BY <1>1 DEF SaleInv, StatusTellsPaid, CancelledIsRestored
<1>4. cron # NoRun => cron.sale \in Sale /\ sale'[cron.sale].status # "NONE"
  BY <1>1 DEF SaleInv, RowsExist
<1>5. CronHasRestored'
  BY <1>1, <1>4 DEF SaleInv, CronHasRestored
<1> QED
  BY <1>1, <1>2, <1>3, <1>4, <1>5

LEMMA LinkContractOrAccountKeeps ==
  ASSUME SaleInv, NEW s \in Sale, LinkContract(s) \/ CreateAccount(s)
  PROVE  SaleInv'
<1>1. PICK row \in Row, r \in RequestState :
        /\ sale' = [sale EXCEPT ![s] = row]
        /\ req' = [req EXCEPT ![s] = r]
        /\ r.pc \in {"account", "bill"} /\ req[s].pc \in {"contract", "account"}
        /\ row.status = sale[s].status /\ row.mode = sale[s].mode
        /\ row.paid = sale[s].paid /\ row.alloc = sale[s].alloc
  <2>1. sale[s] \in Row /\ req[s] \in RequestState
    BY DEF SaleInv, TypeOK
  <2>2. CASE LinkContract(s)
    <3>1. [sale[s] EXCEPT !.contract = TRUE] \in Row
      BY <2>1 DEF Row
    <3>2. [req[s] EXCEPT !.pc = "account"] \in RequestState
      BY <2>1, <2>2 DEF RequestState, LinkContract
    <3> QED
      BY <2>1, <2>2, <3>1, <3>2 DEF LinkContract, Row, RequestState, SaleInv, TypeOK
  <2>3. CASE CreateAccount(s)
    <3>1. [sale[s] EXCEPT !.account = TRUE] \in Row
      BY <2>1 DEF Row
    <3>2. [req[s] EXCEPT !.pc = "bill"] \in RequestState
      BY <2>1, <2>3 DEF RequestState, CreateAccount
    <3> QED
      BY <2>1, <2>3, <3>1, <3>2 DEF CreateAccount, Row, RequestState, SaleInv, TypeOK
  <2> QED
    BY <2>2, <2>3
<1>2. UNCHANGED <<remaining, restored, pay, tokens, job, work, old, cron, faults>>
  BY DEF LinkContract, CreateAccount, paying, expiring
<1>3. /\ sale' \in [Sale -> Row]
      /\ \A x \in Sale : /\ sale'[x].status = sale[x].status
                         /\ sale'[x].paid = sale[x].paid
                         /\ Due(x)' = Due(x) /\ Verified(x)' = Verified(x)
      /\ PaymentsCountOnce' /\ StatusTellsPaid' /\ CancelledIsRestored'
      /\ CronHasRestored'
      /\ cron # NoRun => cron.sale \in Sale /\ sale'[cron.sale].status # "NONE"
  BY <1>1, <1>2, FlagsOnly
<1>4. /\ req' \in [Sale -> RequestState] /\ req'[s].pc \in {"account", "bill"}
      /\ \A x \in Sale : x # s => req'[x] = req[x]
  BY <1>1, ReqType DEF SaleInv
<1>5. TypeOK'
  BY <1>2, <1>3, <1>4 DEF SaleInv, TypeOK
<1>6. FreshSales'
  BY <1>1, <1>2, <1>3, <1>4 DEF SaleInv, FreshSales
<1>7. RowsExist' /\ JobsHaveAttempts'
  BY <1>2, <1>3 DEF SaleInv, RowsExist, JobsHaveAttempts
<1>8. WorkerKnows'
  BY <1>2, <1>3, WorkersSale DEF SaleInv, WorkerKnows, SaleOf, PaymentOf
<1> QED
  BY <1>3, <1>5, <1>6, <1>7, <1>8 DEF SaleInv

\* A new payments row is nobody's yet.
LEMMA NewPaymentKeeps ==
  ASSUME SaleInv, NEW s \in Sale, NEW p \in Payment, NewPayment(s, p),
         sale[s].status # "NONE",
         \/ UNCHANGED req
         \/ req' = [req EXCEPT ![s].pc = "done"] /\ req[s].pc = "bill"
  PROVE  SaleInv'
<1>1. /\ pay[p].status = "NONE"
      /\ pay' = [pay EXCEPT ![p] = [status |-> "PENDING", sale |-> s]]
      /\ UNCHANGED <<remaining, sale, tokens, job, work, restored, old, cron, faults>>
      /\ TypeOK
  BY DEF NewPayment, expiring, SaleInv
<1>2. /\ pay' \in [Payment -> [status : PayStatus, sale : Sale \cup {NoSale}]]
      /\ pay'[p].status = "PENDING" /\ pay'[p].sale = s
      /\ \A x \in Payment : x # p => pay'[x] = pay[x]
  BY <1>1 DEF TypeOK, PayStatus
<1>3. /\ req' \in [Sale -> RequestState]
      /\ \A x \in Sale : req'[x] = req[x] \/ (req'[x].pc = "done")
  <2>1. CASE UNCHANGED req
    BY <2>1, <1>1 DEF TypeOK
  <2>2. CASE req' = [req EXCEPT ![s].pc = "done"] /\ req[s].pc = "bill"
    <3>1. req[s] \in RequestState
      BY <1>1 DEF TypeOK
    <3>2. [req[s] EXCEPT !.pc = "done"] \in RequestState
      BY <3>1, <2>2 DEF RequestState
    <3> QED
      BY <2>2, <3>1, <3>2, <1>1 DEF TypeOK, RequestState
  <2> QED
    BY <2>1, <2>2
<1>4. TypeOK'
  BY <1>1, <1>2, <1>3 DEF TypeOK
<1>5. FreshSales'
  BY <1>1, <1>3 DEF SaleInv, FreshSales
<1>6. \A x \in Sale : Completed(x)' = Completed(x) /\ Due(x)' = Due(x)
  BY <1>1, <1>2 DEF Completed, Due
<1>7. \A x \in Sale : Verified(x)' = Verified(x)
  BY <1>6 DEF Verified
<1>8. PaymentsCountOnce'
  BY <1>1, <1>6, <1>7 DEF SaleInv, PaymentsCountOnce
<1>9. RowsExist' /\ JobsHaveAttempts'
  BY <1>1, <1>2 DEF SaleInv, RowsExist, JobsHaveAttempts
<1>10. WorkerKnows'
  BY <1>1, <1>2, <1>6, <1>7, WorkersSale DEF SaleInv, WorkerKnows, SaleOf, PaymentOf
<1>11. StatusTellsPaid' /\ CancelledIsRestored' /\ CronHasRestored'
  BY <1>1 DEF SaleInv, StatusTellsPaid, CancelledIsRestored, CronHasRestored
<1> QED
  BY <1>4, <1>5, <1>8, <1>9, <1>10, <1>11 DEF SaleInv

LEMMA BillKeeps ==
  ASSUME SaleInv, NEW s \in Sale, NEW p \in Payment, Bill(s, p) \/ BillAgain(s, p)
  PROVE  SaleInv'
<1>1. NewPayment(s, p)
  BY DEF Bill, BillAgain
<1>2. sale[s].status # "NONE"
  BY DEF Bill, BillAgain, SaleInv, FreshSales
<1>3. \/ UNCHANGED req
      \/ req' = [req EXCEPT ![s].pc = "done"] /\ req[s].pc = "bill"
  BY DEF Bill, BillAgain
<1> QED
  BY <1>1, <1>2, <1>3, NewPaymentKeeps

-----------------------------------------------------------------------------
(* Steps of the payment queue and its worker *)

LEMMA CallbackKeeps ==
  ASSUME SaleInv, NEW j \in Job, NEW p \in Payment, Callback(j, p)
  PROVE  SaleInv'
<1> DEFINE new == [state |-> "waiting", pay |-> p, left |-> MaxAttempts, stalled |-> FALSE]
<1>1. /\ job[j].state = "none" /\ pay[p].status # "NONE"
      /\ job' = [job EXCEPT ![j] = new]
      /\ UNCHANGED <<remaining, sale, req, restored, pay, tokens, work, old, cron, faults>>
      /\ TypeOK
  BY DEF Callback, selling, expiring, SaleInv
<1>2. new \in JobState /\ new.pay = p /\ new.left > 0
  BY PriceAssumption DEF JobState
<1> HIDE DEF new
<1>3. /\ job' \in [Job -> JobState] /\ job'[j] = new
      /\ \A x \in Job : x # j => job'[x] = job[x]
  BY <1>1, <1>2 DEF TypeOK
<1>4. TypeOK'
  BY <1>1, <1>3 DEF TypeOK
<1>5. RowsExist' /\ JobsHaveAttempts'
  BY <1>1, <1>2, <1>3 DEF SaleInv, RowsExist, JobsHaveAttempts
<1>6. PaymentsCountOnce' /\ \A x \in Sale : Due(x)' = Due(x) /\ Verified(x)' = Verified(x)
  BY <1>1, MoneyStaysCounted DEF MoneyStays, SaleInv
<1>7. WorkerKnows'
  BY <1>1, <1>3, <1>6, WorkersSale DEF SaleInv, WorkerKnows, SaleOf, PaymentOf
<1>8. FreshSales' /\ StatusTellsPaid' /\ CancelledIsRestored' /\ CronHasRestored'
  BY <1>1 DEF SaleInv, FreshSales, StatusTellsPaid, CancelledIsRestored, CronHasRestored
<1> QED
  BY <1>4, <1>5, <1>6, <1>7, <1>8 DEF SaleInv

LEMMA TakeJobKeeps ==
  ASSUME SaleInv, NEW j \in Job, TakeJob(j)
  PROVE  SaleInv'
<1> DEFINE w == [Idle EXCEPT !.pc = "verify", !.job = j,
                             !.pay = pay[job[j].pay].status,
                             !.sale = sale[pay[job[j].pay].sale].status]
           active == [job[j] EXCEPT !.state = "active"]
<1>1. /\ work.pc = "idle" /\ job[j].state = "waiting"
      /\ job' = [job EXCEPT ![j] = active]
      /\ work' = w
      /\ UNCHANGED <<remaining, sale, req, restored, pay, tokens, old, cron, faults>>
      /\ TypeOK
  BY DEF TakeJob, selling, expiring, SaleInv
<1>2. job[j] \in JobState
  BY <1>1 DEF TypeOK
<1>3. job[j].pay \in Payment /\ pay[job[j].pay].status # "NONE" /\ job[j].left > 0
  BY <1>1, <1>2 DEF JobState, SaleInv, RowsExist, JobsHaveAttempts
<1>4. /\ active \in JobState /\ active.state = "active"
      /\ active.pay = job[j].pay /\ active.left = job[j].left
  BY <1>1, <1>2 DEF JobState
<1>5. pay[job[j].pay].sale \in Sale
  BY <1>3 DEF SaleInv, RowsExist
<1>6. /\ pay[job[j].pay].status \in PayStatus
      /\ sale[pay[job[j].pay].sale].status \in SaleStatus
  BY <1>1, <1>3, <1>5 DEF TypeOK, Row
<1>7. /\ w \in WorkState /\ w.pc = "verify" /\ w.job = j
      /\ w.pay = pay[job[j].pay].status
  BY <1>6 DEF WorkState, Idle
<1> HIDE DEF w, active
<1>8. /\ job' \in [Job -> JobState] /\ job'[j] = active
      /\ \A x \in Job : x # j => job'[x] = job[x]
  BY <1>1, <1>4 DEF TypeOK
<1>9. TypeOK'
  BY <1>1, <1>7, <1>8 DEF TypeOK
<1>10. RowsExist' /\ JobsHaveAttempts'
  BY <1>1, <1>3, <1>4, <1>7, <1>8 DEF SaleInv, RowsExist, JobsHaveAttempts
<1>11. WorkerKnows'
  BY <1>1, <1>4, <1>7, <1>8 DEF WorkerKnows, PaymentOf
<1>12. PaymentsCountOnce'
  BY <1>1, MoneyStaysCounted DEF MoneyStays, SaleInv
<1>13. FreshSales' /\ StatusTellsPaid' /\ CancelledIsRestored' /\ CronHasRestored'
  BY <1>1 DEF SaleInv, FreshSales, StatusTellsPaid, CancelledIsRestored, CronHasRestored
<1> QED
  BY <1>9, <1>10, <1>11, <1>12, <1>13 DEF SaleInv

\* However an attempt ends, the worker is idle and the job has an attempt
\* left or does not run again.
LEMMA AttemptEnds ==
  ASSUME SaleInv, work.pc # "idle", EndAttempt \/ EndJob
  PROVE  /\ job' \in [Job -> JobState] /\ work' \in WorkState
         /\ work'.pc = "idle"
         /\ \A j \in Job : /\ job'[j].state # "none" => /\ job[j].state # "none"
                                                       /\ job'[j].pay = job[j].pay
                           /\ job'[j].state \in {"waiting", "active"} => job'[j].left > 0
<1> DEFINE w == work.job
<1>1. w \in Job /\ job[w].state = "active" /\ job[w].left \in 1..MaxAttempts
  BY WorkersSale
<1>2. job \in [Job -> JobState] /\ job[w] \in JobState
  BY <1>1 DEF SaleInv, TypeOK
<1>3. PICK e \in JobState : /\ job' = [job EXCEPT ![w] = e]
                            /\ e.pay = job[w].pay
                            /\ e.state \in {"waiting", "failed", "done"}
                            /\ e.state = "waiting" => e.left > 0
  <2>1. CASE EndAttempt
    <3> DEFINE n == IF job[w].left > 1 THEN "waiting" ELSE "failed"
               e == [job[w] EXCEPT !.left = @ - 1, !.state = n]
    <3>1. job' = [job EXCEPT ![w] = e]
      BY <2>1, <1>1, <1>2 DEF EndAttempt
    <3>2. job[w].left - 1 \in 0..MaxAttempts
      BY <1>1, PriceAssumption
    <3>3. n \in {"waiting", "failed"} /\ (n = "waiting" => job[w].left - 1 > 0)
      BY <1>1, PriceAssumption
    <3>4. job[w] \in [state : {"waiting", "active", "done", "failed"}, pay : Payment,
                      left : 0..MaxAttempts, stalled : BOOLEAN]
      BY <1>1, <1>2 DEF JobState
    <3> HIDE DEF n
    <3>5. e \in JobState /\ e.pay = job[w].pay /\ e.state = n /\ e.left = job[w].left - 1
      BY <3>2, <3>3, <3>4 DEF JobState
    <3> HIDE DEF e
    <3> QED
      BY <3>1, <3>3, <3>5
  <2>2. CASE EndJob
    <3>1. [job[w] EXCEPT !.state = "done"] \in JobState
      BY <1>1, <1>2 DEF JobState
    <3> QED
      BY <2>2, <3>1, <1>1, <1>2 DEF EndJob, JobState
  <2> QED
    BY <2>1, <2>2
<1>4. work' = Idle
  BY DEF EndAttempt, EndJob
<1>5. work' \in WorkState /\ work'.pc = "idle"
  BY <1>4 DEF Idle, WorkState, PayStatus, SaleStatus
<1>6. \A j \in Job : job'[j] = IF j = w THEN e ELSE job[j]
  BY <1>2, <1>3
<1>7. \A j \in Job : job[j].state \in {"waiting", "active"} => job[j].left > 0
  BY DEF SaleInv, JobsHaveAttempts
<1> QED
  BY <1>1, <1>2, <1>3, <1>5, <1>6, <1>7

LEMMA OnlyAttemptEndsKeeps ==
  ASSUME SaleInv, work.pc # "idle", EndAttempt \/ EndJob,
         UNCHANGED <<selling, sale, pay, tokens, expiring>>
  PROVE  SaleInv'
<1>1. /\ TypeOK
      /\ UNCHANGED <<remaining, sale, req, restored, pay, tokens, old, cron, faults>>
  BY DEF selling, expiring, SaleInv
<1>2. /\ job' \in [Job -> JobState] /\ work' \in WorkState
      /\ work'.pc = "idle"
      /\ \A j \in Job : /\ job'[j].state # "none" => /\ job[j].state # "none"
                                                    /\ job'[j].pay = job[j].pay
                        /\ job'[j].state \in {"waiting", "active"} => job'[j].left > 0
  BY <1>1, AttemptEnds
<1>3. TypeOK'
  BY <1>1, <1>2 DEF TypeOK
<1>4. RowsExist' /\ JobsHaveAttempts' /\ WorkerKnows'
  BY <1>1, <1>2 DEF SaleInv, RowsExist, JobsHaveAttempts, WorkerKnows
<1>5. PaymentsCountOnce'
  BY <1>1, MoneyStaysCounted DEF MoneyStays, SaleInv
<1>6. FreshSales' /\ StatusTellsPaid' /\ CancelledIsRestored' /\ CronHasRestored'
  BY <1>1 DEF SaleInv, FreshSales, StatusTellsPaid, CancelledIsRestored, CronHasRestored
<1> QED
  BY <1>3, <1>4, <1>5, <1>6 DEF SaleInv

\* What all steps of the worker leave alone.
LEMMA WorkerLeavesAlone ==
  ASSUME SaleInv, UNCHANGED <<selling, sale, tokens, expiring>>
  PROVE  /\ UNCHANGED <<remaining, sale, req, restored, tokens, old, cron, faults>>
         /\ FreshSales' /\ StatusTellsPaid' /\ CancelledIsRestored' /\ CronHasRestored'
<1>1. UNCHANGED <<remaining, sale, req, restored, tokens, old, cron, faults>>
  BY DEF selling, expiring
<1> QED
  BY <1>1 DEF SaleInv, FreshSales, StatusTellsPaid, CancelledIsRestored, CronHasRestored

LEMMA VerifyKeeps ==
  ASSUME SaleInv, Verify
  PROVE  SaleInv'
<1>0. PICK p \in Payment, s \in Sale :
        /\ p = PaymentOf(work.job) /\ s = SaleOf(work.job)
        /\ work.job \in Job /\ job[work.job].state = "active"
        /\ pay[p].status # "NONE" /\ sale[s].status # "NONE"
  BY WorkersSale DEF Verify
<1>1. /\ work.pc = "verify" /\ work.pay = pay[p].status
      /\ UNCHANGED <<selling, sale, tokens, expiring>> /\ TypeOK
  BY <1>0 DEF SaleInv, WorkerKnows, Verify
<1>2. /\ p \in Payment /\ s \in Sale /\ s = pay[p].sale /\ pay[p].status # "NONE"
      /\ work.job \in Job /\ job[work.job].state = "active"
      /\ sale[s].status # "NONE"
  BY <1>0 DEF SaleOf
<1>3. /\ UNCHANGED <<remaining, sale, req, restored, tokens, old, cron, faults>>
      /\ FreshSales' /\ StatusTellsPaid' /\ CancelledIsRestored' /\ CronHasRestored'
  BY <1>1, WorkerLeavesAlone
<1>4. CASE UNCHANGED pay /\ EndJob
  BY <1>1, <1>4, OnlyAttemptEndsKeeps
<1>5. CASE /\ work.pay = "FAILED"
           /\ pay' = [pay EXCEPT ![p].status = "REFUNDED"]
           /\ EndAttempt
  <2>1. /\ pay' \in [Payment -> [status : PayStatus, sale : Sale \cup {NoSale}]]
        /\ pay'[p].status = "REFUNDED"
        /\ \A x \in Payment : pay'[x].sale = pay[x].sale
        /\ \A x \in Payment : x # p => pay'[x] = pay[x]
    BY <1>1, <1>2, <1>5 DEF TypeOK, PayStatus
  <2>2. \A x \in Sale : Completed(x)' = Completed(x) /\ Due(x)' = Due(x)
    BY <1>1, <1>3, <1>5, <2>1 DEF Completed, Due
  <2>3. PaymentsCountOnce'
    BY <1>3, <2>2 DEF SaleInv, PaymentsCountOnce, Verified
  <2>4. /\ job' \in [Job -> JobState] /\ work' \in WorkState
        /\ work'.pc = "idle"
        /\ \A j \in Job : /\ job'[j].state # "none" => /\ job[j].state # "none"
                                                      /\ job'[j].pay = job[j].pay
                          /\ job'[j].state \in {"waiting", "active"} => job'[j].left > 0
    BY <1>1, <1>5, AttemptEnds
  <2>5. TypeOK'
    BY <1>1, <1>3, <2>1, <2>4 DEF TypeOK
  <2>6. \A x \in Payment : pay'[x].status = "NONE" <=> pay[x].status = "NONE"
    BY <1>2, <2>1
  <2>7. \A j \in Job : job'[j].state # "none" => job'[j].pay \in Payment
    BY <2>4 DEF JobState
  <2>8. RowsExist' /\ JobsHaveAttempts' /\ WorkerKnows'
    BY <1>3, <2>1, <2>4, <2>6, <2>7 DEF SaleInv, RowsExist, JobsHaveAttempts, WorkerKnows
  <2> QED
    BY <1>3, <2>3, <2>5, <2>8 DEF SaleInv
<1>6. CASE /\ work.pay # "COMPLETED"
           /\ pay' = [pay EXCEPT ![p].status = "COMPLETED"]
           /\ work' = [work EXCEPT !.pc = "load"]
           /\ UNCHANGED job
  <2>1. /\ pay' \in [Payment -> [status : PayStatus, sale : Sale \cup {NoSale}]]
        /\ pay'[p].status = "COMPLETED"
        /\ \A x \in Payment : pay'[x].sale = pay[x].sale
        /\ \A x \in Payment : x # p => pay'[x] = pay[x]
    BY <1>1, <1>2, <1>6 DEF TypeOK, PayStatus
  <2>2. work' \in WorkState /\ work'.pc = "load" /\ work'.job = work.job
    BY <1>1, <1>6 DEF TypeOK, WorkState
  <2>3. TypeOK'
    BY <1>1, <1>3, <1>6, <2>1, <2>2 DEF TypeOK
  <2>4. \A x \in Sale : Due(x)' = Due(x) /\ Due(x) \in Nat /\ Verified(x) \in Nat
    BY <1>1, <1>3, DueType, VerifiedType DEF Due
  <2>5. \A x \in Sale : x # s => Completed(x)' = Completed(x)
    BY <1>2, <2>1 DEF Completed
  <2>6. Completed(s)' = Completed(s) \cup {p} /\ p \notin Completed(s)
    BY <1>1, <1>2, <1>6, <2>1 DEF Completed
  <2>7. Cardinality(Completed(s)') = Cardinality(Completed(s)) + 1
    BY <2>6, CompletedFinite, FS_AddElement
  <2>8. Verified(s)' = Verified(s) + Due(s)
    <3> DEFINE d == Due(s)
               c == Cardinality(Completed(s))
    <3>1. d \in Nat /\ c \in Nat
      BY <1>2, <2>4, CompletedFinite
    <3>2. Verified(s)' = d * (c + 1) /\ Verified(s) = d * c
      BY <1>2, <2>4, <2>7 DEF Verified
    <3> HIDE DEF d, c
    <3>3. d * (c + 1) = d * c + d
      BY <3>1, ProductType
    <3> QED
      BY <3>2, <3>3 DEF d
  <2>9. \A x \in Sale : x # s => Verified(x)' = Verified(x)
    BY <2>4, <2>5 DEF Verified
  <2>10. \A x \in Sale : sale[x].paid \in Nat /\ sale[x].paid <= Verified(x)
                         /\ Due(x) * tokens[x] <= sale[x].paid
    BY <1>1 DEF TypeOK, Row, SaleInv, PaymentsCountOnce
  <2>11. PaymentsCountOnce'
    <3> SUFFICES ASSUME NEW x \in Sale
                 PROVE  (sale[x].paid <= Verified(x) /\ Due(x) * tokens[x] <= sale[x].paid)'
      BY DEF PaymentsCountOnce
    <3>1. Verified(x) <= Verified(x)' /\ Verified(x)' \in Nat
      BY <1>2, <2>4, <2>8, <2>9
    <3>2. sale[x].paid <= Verified(x)'
      BY <3>1, <2>4, <2>10
    <3> QED
      BY <1>3, <2>4, <2>10, <3>2
  <2>12. SaleOf(work.job)' = s
    BY <1>0, <1>6, <2>1, <2>2 DEF SaleOf, PaymentOf
  <2>13. (sale[s].paid + Due(s) <= Verified(s))'
    BY <1>2, <1>3, <2>4, <2>8, <2>10
  <2>14. WorkerKnows'
    BY <2>2, <2>12, <2>13 DEF WorkerKnows
  <2>15. \A x \in Payment : pay'[x].status = "NONE" <=> pay[x].status = "NONE"
    BY <1>2, <2>1
  <2>16. \A j \in Job : job[j].state # "none" => job[j].pay \in Payment
    BY <1>1 DEF TypeOK, JobState
  <2>17. RowsExist' /\ JobsHaveAttempts'
    BY <1>2, <1>3, <1>6, <2>1, <2>2, <2>15, <2>16 DEF SaleInv, RowsExist, JobsHaveAttempts
  <2> QED
    BY <1>3, <2>3, <2>11, <2>14, <2>17 DEF SaleInv
<1> QED
  BY <1>0, <1>4, <1>5, <1>6 DEF Verify

LEMMA LoadSaleKeeps ==
  ASSUME SaleInv, LoadSale
  PROVE  SaleInv'
<1>1. PICK s \in Sale : s = SaleOf(work.job)
  BY WorkersSale DEF LoadSale
<1>2. /\ work.pc = "load" /\ TypeOK
      /\ work' = [work EXCEPT !.pc = "credit", !.paid = sale[s].paid,
                              !.details = sale[s].account /\ ~sale[s].delivered]
      /\ UNCHANGED <<selling, sale, tokens, expiring>> /\ UNCHANGED <<pay, job>>
  BY <1>1 DEF LoadSale, SaleInv
<1>3. /\ UNCHANGED <<remaining, sale, req, restored, tokens, old, cron, faults>>
      /\ FreshSales' /\ StatusTellsPaid' /\ CancelledIsRestored' /\ CronHasRestored'
  BY <1>2, WorkerLeavesAlone
<1>4. sale[s].paid \in Nat /\ sale[s].account \in BOOLEAN
  BY <1>2 DEF TypeOK, Row
<1>5. /\ work' \in WorkState /\ work'.pc = "credit" /\ work'.job = work.job
      /\ work'.paid = sale[s].paid
  BY <1>2, <1>4 DEF TypeOK, WorkState
<1>6. TypeOK'
  BY <1>2, <1>3, <1>5 DEF TypeOK
<1>7. RowsExist' /\ JobsHaveAttempts'
  BY <1>2, <1>3, <1>5 DEF SaleInv, RowsExist, JobsHaveAttempts
<1>8. PaymentsCountOnce' /\ \A x \in Sale : Due(x)' = Due(x) /\ Verified(x)' = Verified(x)
  BY <1>2, <1>3, MoneyStaysCounted DEF MoneyStays, SaleInv
<1>9. SaleOf(work.job)' = s
  BY <1>1, <1>2, <1>5 DEF SaleOf, PaymentOf
<1>10. sale[s].paid + Due(s) <= Verified(s)
  BY <1>1, <1>2 DEF SaleInv, WorkerKnows
<1>11. WorkerKnows'
  BY <1>3, <1>5, <1>8, <1>9, <1>10 DEF WorkerKnows
<1> QED
  BY <1>3, <1>6, <1>7, <1>8, <1>11 DEF SaleInv

LEMMA CreditSaleKeeps ==
  ASSUME SaleInv, CreditSale
  PROVE  SaleInv'
<1>1. PICK s \in Sale : s = SaleOf(work.job) /\ sale[s].status # "NONE"
  BY WorkersSale DEF CreditSale
<1> DEFINE n == sale[s].paid + Due(s)
           st == IF n >= Price THEN "COMPLETED" ELSE "IN_INSTALLMENT"
           row == [sale[s] EXCEPT !.paid = n, !.status = st]
<1>2. /\ work.pc = "credit" /\ TypeOK
      /\ work.paid = sale[s].paid /\ n <= Verified(s)
      /\ UNCHANGED <<remaining, req, restored, pay, tokens, job, old, cron, faults>>
      /\ work' = [work EXCEPT !.pc = "token"]
  BY <1>1 DEF CreditSale, SaleInv, WorkerKnows, selling, expiring
<1>3. sale' = [sale EXCEPT ![s] = row]
  BY <1>1, <1>2 DEF CreditSale, TypeOK, Row
<1>4. sale[s] \in Row /\ sale[s].paid \in Nat /\ Due(s) \in Nat \ {0} /\ tokens[s] \in Nat
  BY <1>2, DueType DEF TypeOK, Row
<1>5. /\ row \in Row /\ row.paid = n /\ row.status = st /\ row.mode = sale[s].mode
      /\ row.alloc = sale[s].alloc /\ n \in Nat \ {0}
  <2>1. n \in Nat \ {0}
    BY <1>4
  <2>2. st \in SaleStatus
    BY DEF SaleStatus
  <2> HIDE DEF n, st
  <2> QED
    BY <1>4, <2>1, <2>2 DEF Row
<1>6. /\ st = "COMPLETED" => n >= Price
      /\ st = "IN_INSTALLMENT" => n \in 1..(Price - 1)
      /\ st \in {"COMPLETED", "IN_INSTALLMENT"}
  BY <1>5, PriceAssumption
<1> HIDE DEF row, st
<1>7. /\ sale' \in [Sale -> Row] /\ sale'[s] = row
      /\ \A x \in Sale : x # s => sale'[x] = sale[x]
  BY <1>2, <1>3, <1>5 DEF TypeOK
<1>8. work' \in WorkState /\ work'.pc = "token" /\ work'.job = work.job
  BY <1>2 DEF TypeOK, WorkState
<1>9. TypeOK'
  BY <1>2, <1>7, <1>8 DEF TypeOK
<1>10. FreshSales' /\ StatusTellsPaid'
  BY <1>1, <1>2, <1>5, <1>6, <1>7 DEF SaleInv, FreshSales, StatusTellsPaid
<1>11. RowsExist' /\ JobsHaveAttempts'
  BY <1>2, <1>5, <1>6, <1>7, <1>8 DEF SaleInv, RowsExist, JobsHaveAttempts
<1>12. CancelledIsRestored' /\ CronHasRestored'
  BY <1>2, <1>5, <1>6, <1>7
     DEF SaleInv, RowsExist, CancelledIsRestored, CronHasRestored
<1>13. \A x \in Sale : Due(x)' = Due(x) /\ Completed(x)' = Completed(x)
  BY <1>2, <1>5, <1>7 DEF Due, Completed
<1>14. \A x \in Sale : Verified(x)' = Verified(x)
  BY <1>13 DEF Verified
<1>15. Due(s) * tokens[s] <= sale[s].paid /\ Due(s) * tokens[s] \in Nat
  <2> DEFINE d == Due(s)
             k == tokens[s]
  <2>1. d \in Nat /\ k \in Nat
    BY <1>4
  <2> HIDE DEF d, k
  <2>2. d * k \in Nat
    BY <2>1, ProductType
  <2> QED
    BY <2>2 DEF d, k, SaleInv, PaymentsCountOnce
<1>16. PaymentsCountOnce'
  <2> SUFFICES ASSUME NEW x \in Sale
               PROVE  (sale[x].paid <= Verified(x) /\ Due(x) * tokens[x] <= sale[x].paid)'
    BY DEF PaymentsCountOnce
  <2>1. CASE x = s
    <3> DEFINE v == Due(s) * tokens[s]
    <3>1. v <= sale[s].paid /\ v \in Nat
      BY <1>15
    <3> HIDE DEF v
    <3>2. v <= n
      BY <3>1, <1>4
    <3> QED
      BY <2>1, <3>2, <1>2, <1>5, <1>7, <1>13, <1>14 DEF v
  <2>2. CASE x # s
    BY <2>2, <1>2, <1>7, <1>13, <1>14 DEF SaleInv, PaymentsCountOnce
  <2> QED
    BY <2>1, <2>2
<1>17. SaleOf(work.job)' = s
  BY <1>1, <1>2, <1>8 DEF SaleOf, PaymentOf
<1>18. (Due(s) * tokens[s] + Due(s) <= sale[s].paid)'
  <2> DEFINE v == Due(s) * tokens[s]
  <2>1. v <= sale[s].paid /\ v \in Nat
    BY <1>15
  <2>2. (Due(s) * tokens[s])' = v
    BY <1>2, <1>13
  <2> HIDE DEF v
  <2>3. v + Due(s) <= n
    BY <2>1, <1>4
  <2> QED
    BY <2>2, <2>3, <1>5, <1>7, <1>13
<1>19. WorkerKnows'
  BY <1>8, <1>17, <1>18 DEF WorkerKnows
<1> QED
  BY <1>9, <1>10, <1>11, <1>12, <1>16, <1>19 DEF SaleInv

LEMMA IssueTokensKeeps ==
  ASSUME SaleInv, IssueTokens
  PROVE  SaleInv'
<1>1. PICK s \in Sale : s = SaleOf(work.job) /\ sale[s].status # "NONE"
  BY WorkersSale DEF IssueTokens
<1>2. /\ work.pc = "token" /\ TypeOK
      /\ tokens' = [tokens EXCEPT ![s] = @ + 1]
      /\ Due(s) * tokens[s] + Due(s) <= sale[s].paid
      /\ UNCHANGED <<remaining, sale, req, restored, pay, job, old, cron, faults>>
      /\ work' = [work EXCEPT !.pc = "deliver"]
  BY <1>1 DEF IssueTokens, SaleInv, WorkerKnows, selling, expiring
<1>3. /\ tokens' \in [Sale -> Nat] /\ tokens'[s] = tokens[s] + 1
      /\ \A x \in Sale : x # s => tokens'[x] = tokens[x]
  BY <1>2 DEF TypeOK
<1>4. work' \in WorkState /\ work'.pc = "deliver" /\ work'.job = work.job
  BY <1>2 DEF TypeOK, WorkState
<1>5. TypeOK'
  BY <1>2, <1>3, <1>4 DEF TypeOK
<1>6. FreshSales'
  BY <1>1, <1>2, <1>3 DEF SaleInv, FreshSales
<1>7. RowsExist' /\ JobsHaveAttempts' /\ WorkerKnows'
  BY <1>2, <1>4 DEF SaleInv, RowsExist, JobsHaveAttempts, WorkerKnows
<1>8. StatusTellsPaid' /\ CancelledIsRestored' /\ CronHasRestored'
  BY <1>2 DEF SaleInv, StatusTellsPaid, CancelledIsRestored, CronHasRestored
<1>9. \A x \in Sale : Due(x)' = Due(x) /\ Verified(x)' = Verified(x)
  BY <1>2 DEF Due, Verified, Completed
<1>10. Due(s) * tokens'[s] = Due(s) * tokens[s] + Due(s)
  <2> DEFINE d == Due(s)
             k == tokens[s]
  <2>1. d \in Nat /\ k \in Nat
    BY <1>2, DueType DEF TypeOK
  <2>2. tokens'[s] = k + 1
    BY <1>3
  <2> HIDE DEF d, k
  <2>3. d * (k + 1) = d * k + d
    BY <2>1, ProductType
  <2> QED
    BY <2>2, <2>3 DEF d, k
<1>11. PaymentsCountOnce'
  BY <1>2, <1>3, <1>9, <1>10 DEF SaleInv, PaymentsCountOnce
<1> QED
  BY <1>5, <1>6, <1>7, <1>8, <1>11 DEF SaleInv

LEMMA DeliverAccountKeeps ==
  ASSUME SaleInv, DeliverAccount
  PROVE  SaleInv'
<1>1. PICK s \in Sale : s = SaleOf(work.job)
  BY WorkersSale DEF DeliverAccount
<1> DEFINE row == [sale[s] EXCEPT !.delivered = @ \/ work.details]
<1>2. /\ work.pc = "deliver" /\ EndJob /\ TypeOK
      /\ UNCHANGED <<remaining, req, restored, pay, tokens, old, cron, faults>>
      /\ sale' = [sale EXCEPT ![s] = row]
  BY <1>1 DEF DeliverAccount, SaleInv, TypeOK, Row, selling, expiring
<1>3. sale[s] \in Row /\ work.details \in BOOLEAN
  BY <1>2 DEF TypeOK, WorkState
<1>4. /\ row \in Row /\ row.status = sale[s].status /\ row.mode = sale[s].mode
      /\ row.paid = sale[s].paid /\ row.alloc = sale[s].alloc
  BY <1>3 DEF Row
<1> HIDE DEF row
<1>5. /\ sale' \in [Sale -> Row]
      /\ \A x \in Sale : /\ sale'[x].status = sale[x].status
                         /\ sale'[x].paid = sale[x].paid
                         /\ Due(x)' = Due(x) /\ Verified(x)' = Verified(x)
      /\ PaymentsCountOnce' /\ StatusTellsPaid' /\ CancelledIsRestored'
      /\ CronHasRestored'
      /\ cron # NoRun => cron.sale \in Sale /\ sale'[cron.sale].status # "NONE"
  BY <1>2, <1>4, FlagsOnly
<1>6. /\ job' \in [Job -> JobState] /\ work' \in WorkState
      /\ work'.pc = "idle"
      /\ \A j \in Job : /\ job'[j].state # "none" => /\ job[j].state # "none"
                                                    /\ job'[j].pay = job[j].pay
                        /\ job'[j].state \in {"waiting", "active"} => job'[j].left > 0
  BY <1>2, AttemptEnds
<1>7. TypeOK'
  BY <1>2, <1>5, <1>6 DEF TypeOK
<1>8. FreshSales'
  BY <1>2, <1>5 DEF SaleInv, FreshSales
<1>9. RowsExist' /\ JobsHaveAttempts' /\ WorkerKnows'
  BY <1>2, <1>5, <1>6 DEF SaleInv, RowsExist, JobsHaveAttempts, WorkerKnows
<1> QED
  BY <1>5, <1>7, <1>8, <1>9 DEF SaleInv

-----------------------------------------------------------------------------
(* Steps of the cron job, restarts *)

\* What the cron job leaves alone while it does not write the sale.
LEMMA CronLeavesAlone ==
  ASSUME SaleInv, UNCHANGED <<sale, req, pay, tokens, job, work>>
  PROVE  /\ FreshSales' /\ JobsHaveAttempts' /\ PaymentsCountOnce' /\ StatusTellsPaid'
         /\ WorkerKnows'
<1>1. PaymentsCountOnce' /\ \A x \in Sale : Due(x)' = Due(x) /\ Verified(x)' = Verified(x)
  BY MoneyStaysCounted DEF MoneyStays, SaleInv
<1>2. WorkerKnows'
  BY <1>1, WorkersSale DEF SaleInv, WorkerKnows, SaleOf, PaymentOf
<1>3. FreshSales' /\ JobsHaveAttempts' /\ StatusTellsPaid'
  BY DEF SaleInv, FreshSales, JobsHaveAttempts, StatusTellsPaid
<1> QED
  BY <1>1, <1>2, <1>3

LEMMA AgeKeeps ==
  ASSUME SaleInv, NEW s \in Sale, Age(s)
  PROVE  SaleInv'
<1>1. /\ UNCHANGED <<remaining, sale, req, restored, pay, tokens, job, work, cron, faults>>
      /\ old' = old \cup {s} /\ TypeOK
  BY DEF Age, selling, paying, SaleInv
<1>2. TypeOK'
  BY <1>1 DEF TypeOK
<1>3. FreshSales' /\ JobsHaveAttempts' /\ PaymentsCountOnce' /\ StatusTellsPaid' /\ WorkerKnows'
  BY <1>1, CronLeavesAlone
<1>4. RowsExist' /\ CancelledIsRestored' /\ CronHasRestored'
  BY <1>1 DEF SaleInv, RowsExist, CancelledIsRestored, CronHasRestored
<1> QED
  BY <1>2, <1>3, <1>4 DEF SaleInv

LEMMA CronReadKeeps ==
  ASSUME SaleInv, NEW s \in Sale, CronRead(s)
  PROVE  SaleInv'
<1> DEFINE bs == {b \in Batch : sale[s].alloc[b] > 0}
<1>1. /\ UNCHANGED <<remaining, sale, req, restored, pay, tokens, job, work, old, faults>>
      /\ cron' = [sale |-> s, todo |-> bs] /\ sale[s].status = "UNPAID" /\ TypeOK
  BY DEF CronRead, selling, paying, SaleInv
<1>2. cron'.sale = s /\ cron'.todo = bs /\ bs \in SUBSET Batch
  BY <1>1
<1>3. TypeOK'
  BY <1>1, <1>2 DEF TypeOK
<1>4. FreshSales' /\ JobsHaveAttempts' /\ PaymentsCountOnce' /\ StatusTellsPaid' /\ WorkerKnows'
  BY <1>1, CronLeavesAlone
<1>5. RowsExist' /\ CancelledIsRestored' /\ CronHasRestored'
  BY <1>1, <1>2 DEF SaleInv, RowsExist, CancelledIsRestored, CronHasRestored
<1> QED
  BY <1>3, <1>4, <1>5 DEF SaleInv

LEMMA CronRestoreKeeps ==
  ASSUME SaleInv, NEW b \in Batch, CronRestore(b)
  PROVE  SaleInv'
<1>1. PICK s \in Sale : s = cron.sale /\ sale[s].status # "NONE" /\ cron # NoRun
  BY DEF CronRestore, SaleInv, RowsExist, NoRun
<1>2. /\ UNCHANGED <<sale, req, pay, tokens, job, work, old, faults>>
      /\ b \in cron.todo /\ TypeOK
      /\ remaining' = [remaining EXCEPT ![b] = @ + sale[s].alloc[b]]
      /\ restored' = [restored EXCEPT ![s][b] = @ + 1]
      /\ cron' = [cron EXCEPT !.todo = @ \ {b}]
  BY <1>1 DEF CronRestore, paying, SaleInv
<1>3. sale[s].alloc[b] \in Int /\ restored[s] \in [Batch -> Nat]
  BY <1>2, SaleAssumption DEF TypeOK, Row, Allocation
<1>4. remaining' \in [Batch -> Int]
  BY <1>2, <1>3 DEF TypeOK
<1>5. /\ restored' \in [Sale -> [Batch -> Nat]]
      /\ restored'[s][b] > 0
      /\ \A x \in Sale, c \in Batch : restored[x][c] > 0 => restored'[x][c] > 0
  BY <1>2, <1>3 DEF TypeOK
<1>6. /\ cron' \in [sale : Sale \cup {NoSale}, todo : SUBSET Batch]
      /\ cron'.sale = s /\ cron'.todo = cron.todo \ {b}
  BY <1>1, <1>2 DEF TypeOK
<1>7. TypeOK'
  BY <1>2, <1>4, <1>5, <1>6 DEF TypeOK
<1>8. FreshSales' /\ JobsHaveAttempts' /\ PaymentsCountOnce' /\ StatusTellsPaid' /\ WorkerKnows'
  BY <1>2, CronLeavesAlone
<1>9. RowsExist'
  BY <1>1, <1>2, <1>6 DEF SaleInv, RowsExist
<1>10. CancelledIsRestored' /\ CronHasRestored'
  BY <1>1, <1>2, <1>5, <1>6 DEF SaleInv, CancelledIsRestored, CronHasRestored
<1> QED
  BY <1>7, <1>8, <1>9, <1>10 DEF SaleInv

LEMMA CronCancelKeeps ==
  ASSUME SaleInv, CronCancel
  PROVE  SaleInv'
<1>1. PICK s \in Sale : s = cron.sale /\ sale[s].status # "NONE"
  BY DEF CronCancel, SaleInv, RowsExist
<1> DEFINE row == [sale[s] EXCEPT !.status = "CANCELLED"]
<1>2. /\ UNCHANGED <<remaining, req, restored, pay, tokens, job, work, old, faults>>
      /\ cron # NoRun /\ cron.todo = {} /\ cron' = NoRun /\ TypeOK
      /\ sale' = [sale EXCEPT ![s] = row]
  BY <1>1 DEF CronCancel, selling, paying, SaleInv, TypeOK
<1>3. sale[s] \in Row
  BY <1>2 DEF TypeOK
<1>4. /\ row \in Row /\ row.status = "CANCELLED" /\ row.mode = sale[s].mode
      /\ row.paid = sale[s].paid /\ row.alloc = sale[s].alloc
  BY <1>3 DEF Row, SaleStatus
<1> HIDE DEF row
<1>5. /\ sale' \in [Sale -> Row] /\ sale'[s] = row
      /\ \A x \in Sale : x # s => sale'[x] = sale[x]
  BY <1>2, <1>4 DEF TypeOK
<1>6. TypeOK'
  BY <1>2, <1>5 DEF TypeOK, NoRun
<1>7. PaymentsCountOnce' /\ \A x \in Sale : Due(x)' = Due(x) /\ Verified(x)' = Verified(x)
  <2>1. MoneyStays
    BY <1>2, <1>4, <1>5 DEF MoneyStays
  <2> QED
    BY <2>1, MoneyStaysCounted DEF SaleInv
<1>8. \A x \in Sale : sale'[x].paid = sale[x].paid /\ (sale[x].status # "NONE" => sale'[x].status # "NONE")
  BY <1>4, <1>5
<1>9. WorkerKnows'
  BY <1>2, <1>7, <1>8, WorkersSale DEF SaleInv, WorkerKnows, SaleOf, PaymentOf
<1>10. FreshSales'
  BY <1>1, <1>2, <1>4, <1>5 DEF SaleInv, FreshSales
<1>11. RowsExist' /\ JobsHaveAttempts' /\ CronHasRestored'
  BY <1>2, <1>8 DEF SaleInv, RowsExist, JobsHaveAttempts, CronHasRestored
<1>12. CancelledIsRestored'
  BY <1>1, <1>2, <1>4, <1>5 DEF SaleInv, CancelledIsRestored, CronHasRestored
<1>13. StatusTellsPaid'
  BY <1>4, <1>5 DEF SaleInv, StatusTellsPaid
<1> QED
  BY <1>6, <1>7, <1>9, <1>10, <1>11, <1>12, <1>13 DEF SaleInv

LEMMA CronFailKeeps ==
  ASSUME SaleInv, CronFail
  PROVE  SaleInv'
<1>1. /\ UNCHANGED <<remaining, sale, req, restored, pay, tokens, job, work, old>>
      /\ faults < MaxFaults /\ faults' = faults + 1 /\ cron' = NoRun /\ TypeOK
  BY DEF CronFail, selling, paying, SaleInv
<1>2. TypeOK'
  BY <1>1, PriceAssumption DEF TypeOK, NoRun
<1>3. FreshSales' /\ JobsHaveAttempts' /\ PaymentsCountOnce' /\ StatusTellsPaid' /\ WorkerKnows'
  BY <1>1, CronLeavesAlone
<1>4. RowsExist' /\ CancelledIsRestored' /\ CronHasRestored'
  BY <1>1 DEF SaleInv, RowsExist, CancelledIsRestored, CronHasRestored
<1> QED
  BY <1>2, <1>3, <1>4 DEF SaleInv

LEMMA CrashKeeps ==
  ASSUME SaleInv, Crash
  PROVE  SaleInv'
<1>1. /\ UNCHANGED <<remaining, sale, pay, tokens, old, restored>>
      /\ faults < MaxFaults /\ faults' = faults + 1
      /\ cron' = NoRun /\ work' = Idle /\ TypeOK
  BY DEF Crash, SaleInv
<1>2. \A s \in Sale : IF req[s].pc = "idle" THEN req'[s] = req[s] ELSE req'[s] = [pc |-> "done"]
  BY DEF Crash
<1>3. req' \in [Sale -> RequestState]
  <2>1. req' = [s \in Sale |-> IF req[s].pc = "idle" THEN req[s] ELSE [pc |-> "done"]]
    BY DEF Crash
  <2>2. [pc |-> "done"] \in RequestState
    BY DEF RequestState
  <2> QED
    BY <1>1, <2>1, <2>2 DEF TypeOK
<1> DEFINE after(j) == IF job[j].state = "active"
                       THEN [job[j] EXCEPT !.state = IF job[j].stalled THEN "failed" ELSE "waiting",
                                           !.stalled = TRUE]
                       ELSE job[j]
<1>4. job' = [j \in Job |-> after(j)]
  BY DEF Crash
<1>5. ASSUME NEW j \in Job
      PROVE  /\ after(j) \in JobState
             /\ after(j).state # "none" => job[j].state # "none" /\ after(j).pay = job[j].pay
             /\ after(j).state \in {"waiting", "active"} => after(j).left > 0
  <2>1. job[j] \in JobState /\ (job[j].state \in {"waiting", "active"} => job[j].left > 0)
    BY <1>1 DEF TypeOK, SaleInv, JobsHaveAttempts
  <2>2. CASE job[j].state = "active"
    <3> DEFINE st == IF job[j].stalled THEN "failed" ELSE "waiting"
    <3>1. job[j] \in [state : {"waiting", "active", "done", "failed"}, pay : Payment,
                      left : 0..MaxAttempts, stalled : BOOLEAN]
      BY <2>1, <2>2 DEF JobState
    <3>2. st \in {"waiting", "failed"}
      OBVIOUS
    <3>3. after(j) = [job[j] EXCEPT !.state = st, !.stalled = TRUE]
      BY <2>2
    <3> HIDE DEF st, after
    <3> QED
      BY <2>1, <2>2, <3>1, <3>2, <3>3 DEF JobState
  <2>3. CASE job[j].state # "active"
    BY <2>1, <2>3
  <2> QED
    BY <2>2, <2>3
<1> HIDE DEF after
<1>6. /\ job' \in [Job -> JobState]
      /\ \A j \in Job : /\ job'[j].state # "none" => /\ job[j].state # "none"
                                                    /\ job'[j].pay = job[j].pay
                        /\ job'[j].state \in {"waiting", "active"} => job'[j].left > 0
  BY <1>4, <1>5
<1>7. work' \in WorkState /\ work'.pc = "idle"
  BY <1>1 DEF Idle, WorkState, PayStatus, SaleStatus
<1>8. TypeOK'
  BY <1>1, <1>3, <1>6, <1>7, PriceAssumption DEF TypeOK, NoRun
<1>9. FreshSales'
  BY <1>1, <1>2 DEF SaleInv, FreshSales
<1>10. RowsExist' /\ JobsHaveAttempts' /\ WorkerKnows' /\ CronHasRestored'
  BY <1>1, <1>6, <1>7 DEF SaleInv, RowsExist, JobsHaveAttempts, WorkerKnows, CronHasRestored
<1>11. PaymentsCountOnce'
  BY <1>1, MoneyStaysCounted DEF MoneyStays, SaleInv
<1>12. StatusTellsPaid' /\ CancelledIsRestored'
  BY <1>1 DEF SaleInv, StatusTellsPaid, CancelledIsRestored
<1> QED
  BY <1>8, <1>9, <1>10, <1>11, <1>12 DEF SaleInv

-----------------------------------------------------------------------------
(* The theorems *)

LEMMA StutterKeeps ==
  ASSUME SaleInv, UNCHANGED vars
  PROVE  SaleInv'
<1>1. UNCHANGED <<remaining, sale, req, pay, tokens, job, work, old, cron, restored, faults>>
  BY DEF vars
<1>2. FreshSales' /\ JobsHaveAttempts' /\ PaymentsCountOnce' /\ StatusTellsPaid' /\ WorkerKnows'
  BY <1>1, CronLeavesAlone
<1>3. TypeOK' /\ RowsExist' /\ CancelledIsRestored' /\ CronHasRestored'
  BY <1>1 DEF SaleInv, TypeOK, RowsExist, CancelledIsRestored, CronHasRestored
<1> QED
  BY <1>2, <1>3 DEF SaleInv

\* Every step of the requests, the worker, the cron job and a restart keeps
\* the whole of SaleInv.
THEOREM SaleInvInductive == SaleInv /\ [Next]_vars => SaleInv'
<1> SUFFICES ASSUME SaleInv, [Next]_vars
             PROVE  SaleInv'
  OBVIOUS
<1>1. ASSUME NEW s \in Sale, SaleStep(s) PROVE SaleInv'
  BY <1>1, StartSaleKeeps, PriceItemKeeps, CommitSaleKeeps, LinkContractOrAccountKeeps,
     BillKeeps, FailSaleKeeps DEF SaleStep
<1>2. ASSUME NEW s \in Sale, Age(s) PROVE SaleInv'
  BY <1>2, AgeKeeps
<1>3. ASSUME NEW j \in Job, NEW p \in Payment, Callback(j, p) PROVE SaleInv'
  BY <1>3, CallbackKeeps
<1>4. CASE WorkerStep
  BY <1>4, TakeJobKeeps, VerifyKeeps, LoadSaleKeeps, CreditSaleKeeps, IssueTokensKeeps,
     DeliverAccountKeeps DEF WorkerStep
<1>5. CASE FailAttempt
  BY <1>5, OnlyAttemptEndsKeeps DEF FailAttempt
<1>6. CASE CronStep
  BY <1>6, CronReadKeeps, CronRestoreKeeps, CronCancelKeeps DEF CronStep
<1>7. CASE CronFail
  BY <1>7, CronFailKeeps
<1>8. CASE Crash
  BY <1>8, CrashKeeps
<1>9. CASE Browse \/ UNCHANGED vars
  BY <1>9, StutterKeeps DEF Browse
<1> QED
  BY <1>1, <1>2, <1>3, <1>4, <1>5, <1>6, <1>7, <1>8, <1>9 DEF Next

\* SaleInv holds in every reachable state of the product sales, for every
\* value of the constants.
THEOREM SaleInvAlways == Spec => []SaleInv
<1> QED
  BY InitSaleInv, SaleInvInductive, PTL DEF Spec

\* Every variable of the product sales stays in its domain: in particular an
\* attempt counter never leaves 0..MaxAttempts.
THEOREM SaleTypeCorrect == Spec => []TypeOK
<1>1. SaleInv => TypeOK
  BY DEF SaleInv
<1> QED
  BY <1>1, SaleInvAlways, PTL

\* However many callbacks, retries and restarts there are, a sale is credited
\* at most once for each verified payment, and gets no more sets of tokens
\* than that.
THEOREM PaymentsCountedOnce == Spec => []PaymentsCountOnce
<1>1. SaleInv => PaymentsCountOnce
  BY DEF SaleInv
<1> QED
  BY <1>1, SaleInvAlways, PTL

\* The status that handlePostPayment derives from an earlier read always
\* agrees with totalPaid, for every price and starting price.
THEOREM StatusAgrees == Spec => []StatusTellsPaid
<1>1. SaleInv => StatusTellsPaid
  BY DEF SaleInv
<1> QED
  BY <1>1, SaleInvAlways, PTL

\* A sale that checkUnpaidSales cancelled has every allocation back in its
\* batch, however many runs were cut off before.
THEOREM CancelledRestored == Spec => []CancelledIsRestored
<1>1. SaleInv => CancelledIsRestored
  BY DEF SaleInv
<1> QED
  BY <1>1, SaleInvAlways, PTL

-----------------------------------------------------------------------------
(* The sales keep the promise of the payments *)

LEMMA PromiseInit == Init => Promise!Init
<1> SUFFICES ASSUME Init PROVE Promise!Init
  OBVIOUS
<1>1. \A s \in Sale : Due(s) \in Nat \ {0}
  BY InitSaleInv, DueType DEF SaleInv
<1>2. [s \in Sale |-> Due(s)] \in [Sale -> Nat \ {0}]
  BY <1>1
<1>3. /\ \A p \in Payment : pay[p].sale = NoSale /\ pay[p].status # "COMPLETED"
      /\ \A s \in Sale : sale[s].paid = 0
      /\ tokens = [s \in Sale |-> 0]
  BY DEF Init, NoPay, NoRow
<1> QED
  BY <1>2, <1>3 DEF Promise!Init

LEMMA PromiseStays ==
  ASSUME MoneyStays
  PROVE  UNCHANGED Promise!promise
<1>1. \A s \in Sale : Due(s)' = Due(s) /\ sale'[s].paid = sale[s].paid
  BY DEF MoneyStays, Due
<1>2. UNCHANGED <<pay, tokens>>
  BY DEF MoneyStays
<1> QED
  BY <1>1, <1>2 DEF Promise!promise

LEMMA ConfirmedPayments ==
  ASSUME NEW s \in Sale
  PROVE  Promise!PaymentsOf(s) \cap {p \in Payment : pay[p].status = "COMPLETED"} = Completed(s)
BY DEF Promise!PaymentsOf, Completed

LEMMA CommitSaleSettles ==
  ASSUME SaleInv, NEW s \in Sale, CommitSale(s)
  PROVE  Promise!Settle(s)
<1> DEFINE row == [NoRow EXCEPT !.status = "UNPAID", !.mode = req[s].mode, !.alloc = req[s].alloc]
<1>1. /\ req[s].pc = "selling" /\ TypeOK
      /\ sale' = [sale EXCEPT ![s] = row]
      /\ UNCHANGED <<pay, tokens>>
  BY DEF SaleInv, CommitSale, paying
<1>2. sale[s].status = "NONE" /\ sale[s].paid = 0
  BY <1>1 DEF SaleInv, FreshSales
<1>3. row.paid = 0
  BY DEF NoRow
<1> HIDE DEF row
<1>4. sale'[s] = row /\ \A x \in Sale : x # s => sale'[x] = sale[x]
  BY <1>1 DEF TypeOK
<1>5. Promise!PaymentsOf(s) = {}
  BY <1>2, SaleAssumption DEF SaleInv, RowsExist, Promise!PaymentsOf
<1>6. Due(s)' \in Nat \ {0}
  BY PriceAssumption DEF Due
<1>7. \A x \in Sale : x # s => Due(x)' = Due(x)
  BY <1>4 DEF Due
<1>8. \A x \in Sale : sale'[x].paid = sale[x].paid
  BY <1>2, <1>3, <1>4
<1> QED
  BY <1>1, <1>5, <1>6, <1>7, <1>8 DEF Promise!Settle

LEMMA NewPaymentAsks ==
  ASSUME SaleInv, NEW s \in Sale, NEW p \in Payment, NewPayment(s, p)
  PROVE  Promise!Ask(p, s)
<1>1. /\ pay[p].status = "NONE" /\ TypeOK /\ UNCHANGED <<sale, tokens>>
      /\ pay' = [pay EXCEPT ![p] = [status |-> "PENDING", sale |-> s]]
  BY DEF NewPayment, SaleInv
<1>2. /\ pay'[p].sale = s /\ pay'[p].status = "PENDING"
      /\ \A x \in Payment : x # p => pay'[x] = pay[x]
  BY <1>1 DEF TypeOK
<1>3. pay[p].sale = NoSale
  BY <1>1 DEF SaleInv, RowsExist
<1>4. \A x \in Sale : Due(x)' = Due(x)
  BY <1>1 DEF Due
<1>5. \A x \in Payment : pay'[x].status = "COMPLETED" <=> pay[x].status = "COMPLETED"
  BY <1>1, <1>2
<1>6. [x \in Payment |-> pay'[x].sale] = [[x \in Payment |-> pay[x].sale] EXCEPT ![p] = s]
  BY <1>2
<1>7. {x \in Payment : pay'[x].status = "COMPLETED"} = {x \in Payment : pay[x].status = "COMPLETED"}
  BY <1>5
<1> QED
  BY <1>1, <1>3, <1>4, <1>6, <1>7 DEF Promise!Ask

LEMMA VerifyConfirms ==
  ASSUME SaleInv, Verify
  PROVE  \/ \E p \in Payment : Promise!Confirm(p)
         \/ UNCHANGED Promise!promise
<1>1. PICK p \in Payment : p = PaymentOf(work.job) /\ pay[p].sale \in Sale
  BY WorkersSale DEF Verify, SaleOf
<1>2. /\ work.pay = pay[p].status /\ TypeOK /\ UNCHANGED <<sale, tokens>>
  BY <1>1, WorkersSale DEF SaleInv, WorkerKnows, Verify
<1>3. \A x \in Sale : Due(x)' = Due(x)
  BY <1>2 DEF Due
<1>4. CASE UNCHANGED pay
  BY <1>2, <1>4, PromiseStays DEF MoneyStays
<1>5. ASSUME NEW st \in {"COMPLETED", "REFUNDED"}, pay' = [pay EXCEPT ![p].status = st]
      PROVE  /\ \A x \in Payment : pay'[x].sale = pay[x].sale
             /\ pay'[p].status = st
             /\ \A x \in Payment : x # p => pay'[x] = pay[x]
  BY <1>2, <1>5 DEF TypeOK
<1>6. CASE work.pay # "COMPLETED" /\ pay' = [pay EXCEPT ![p].status = "REFUNDED"]
  <2>1. \A x \in Payment : /\ pay'[x].sale = pay[x].sale
                           /\ pay'[x].status = "COMPLETED" <=> pay[x].status = "COMPLETED"
    BY <1>2, <1>5, <1>6
  <2> QED
    BY <1>2, <1>3, <2>1 DEF Promise!promise
<1>7. CASE work.pay # "COMPLETED" /\ pay' = [pay EXCEPT ![p].status = "COMPLETED"]
  <2>1. /\ \A x \in Payment : pay'[x].sale = pay[x].sale
        /\ {x \in Payment : pay'[x].status = "COMPLETED"}
             = {x \in Payment : pay[x].status = "COMPLETED"} \cup {p}
        /\ p \notin {x \in Payment : pay[x].status = "COMPLETED"}
    BY <1>2, <1>5, <1>7
  <2>2. Promise!Confirm(p)
    BY <1>1, <1>2, <1>3, <2>1 DEF Promise!Confirm
  <2> QED
    BY <2>2
<1> QED
  BY <1>1, <1>4, <1>6, <1>7 DEF Verify

LEMMA CreditSaleCredits ==
  ASSUME SaleInv, CreditSale
  PROVE  \E s \in Sale : Promise!Credit(s)
<1>1. PICK s \in Sale : s = SaleOf(work.job)
  BY WorkersSale DEF CreditSale
<1>2. /\ sale[s].paid + Due(s) <= Verified(s) /\ TypeOK /\ UNCHANGED <<pay, tokens>>
  BY <1>1 DEF CreditSale, SaleInv, WorkerKnows, selling
<1>3. /\ \A x \in Sale : sale'[x].mode = sale[x].mode
      /\ sale'[s].paid = sale[s].paid + Due(s)
      /\ \A x \in Sale : x # s => sale'[x].paid = sale[x].paid
  BY <1>1, <1>2 DEF CreditSale, TypeOK, Row
<1>4. \A x \in Sale : Due(x)' = Due(x)
  BY <1>3 DEF Due
<1>5. sale[s].paid + Due(s)
        <= Due(s) * Cardinality(Promise!PaymentsOf(s) \cap {p \in Payment : pay[p].status = "COMPLETED"})
  BY <1>2, ConfirmedPayments DEF Verified
<1>6. [x \in Sale |-> sale'[x].paid]
        = [[x \in Sale |-> sale[x].paid] EXCEPT ![s] = sale[s].paid + Due(s)]
  BY <1>3
<1>7. [x \in Sale |-> Due(x)]' = [x \in Sale |-> Due(x)]
  BY <1>4
<1>8. [x \in Sale |-> Due(x)][s] = Due(s) /\ [x \in Sale |-> sale[x].paid][s] = sale[s].paid
  OBVIOUS
<1> DEFINE credited == [x \in Sale |-> sale[x].paid]
           due == [x \in Sale |-> Due(x)]
           confirmed == {p \in Payment : pay[p].status = "COMPLETED"}
<1>9. credited[s] + due[s] <= due[s] * Cardinality(Promise!PaymentsOf(s) \cap confirmed)
  BY <1>5, <1>8, Zenon
<1>10. credited' = [credited EXCEPT ![s] = credited[s] + due[s]]
  BY <1>6, <1>8, Zenon
<1>11. UNCHANGED <<due, [p \in Payment |-> pay[p].sale], confirmed, tokens>>
  BY <1>2, <1>7
<1>12. credited[s] + due[s] <= due[s] * Promise!Cardinality(Promise!PaymentsOf(s) \cap confirmed)
  BY <1>9, Zenon DEF Cardinality, Promise!Cardinality
<1>13. Promise!Credit(s)
  BY <1>10, <1>11, <1>12, Zenon DEF Promise!Credit
<1> QED
  BY <1>13

LEMMA IssueTokensIssues ==
  ASSUME SaleInv, IssueTokens
  PROVE  \E s \in Sale : Promise!Issue(s)
<1>1. PICK s \in Sale : s = SaleOf(work.job)
  BY WorkersSale DEF IssueTokens
<1>2. /\ Due(s) * tokens[s] + Due(s) <= sale[s].paid /\ TypeOK /\ UNCHANGED <<pay, sale>>
      /\ tokens' = [tokens EXCEPT ![s] = @ + 1]
  BY <1>1 DEF IssueTokens, SaleInv, WorkerKnows, selling
<1>3. \A x \in Sale : Due(x)' = Due(x)
  BY <1>2 DEF Due
<1>4. Due(s) * (tokens[s] + 1) <= sale[s].paid
  <2> DEFINE d == Due(s)
             n == tokens[s]
  <2>1. d \in Nat /\ n \in Nat
    BY <1>2, DueType DEF TypeOK
  <2> HIDE DEF d, n
  <2>2. d * (n + 1) = d * n + d
    BY <2>1, ProductType
  <2> QED
    BY <1>2, <2>2 DEF d, n
<1>5. Promise!Issue(s)
  BY <1>2, <1>3, <1>4 DEF Promise!Issue
<1> QED
  BY <1>5

\* The steps that no payment is about.
LEMMA OtherStepsStay ==
  ASSUME SaleInv,
         \/ \E s \in Sale : \/ \E o \in Orders, m \in Modes : StartSale(s, o, m)
                            \/ PriceItem(s)
                            \/ LinkContract(s)
                            \/ CreateAccount(s)
                            \/ FailSale(s)
                            \/ Age(s)
                            \/ CronRead(s)
         \/ \E j \in Job, p \in Payment : Callback(j, p)
         \/ \E j \in Job : TakeJob(j)
         \/ LoadSale
         \/ DeliverAccount
         \/ FailAttempt
         \/ \E b \in Batch : CronRestore(b)
         \/ CronCancel
         \/ CronFail
         \/ Crash
         \/ UNCHANGED vars
  PROVE  MoneyStays
<1>1. TypeOK
  BY DEF SaleInv
<1>2. ASSUME UNCHANGED <<sale, pay, tokens>> PROVE MoneyStays
  BY <1>2 DEF MoneyStays
<1>4. ASSUME NEW s \in Sale, LinkContract(s) PROVE MoneyStays
  BY <1>1, <1>4 DEF LinkContract, paying, MoneyStays, TypeOK, Row
<1>5. ASSUME NEW s \in Sale, CreateAccount(s) PROVE MoneyStays
  BY <1>1, <1>5 DEF CreateAccount, paying, MoneyStays, TypeOK, Row
<1>6. ASSUME DeliverAccount PROVE MoneyStays
  BY <1>1, <1>6 DEF DeliverAccount, MoneyStays, TypeOK, Row
<1>7. ASSUME CronCancel PROVE MoneyStays
  BY <1>1, <1>7 DEF CronCancel, paying, MoneyStays, TypeOK, Row
<1>8. ASSUME NEW s \in Sale, \/ \E o \in Orders, m \in Modes : StartSale(s, o, m)
                             \/ PriceItem(s)
                             \/ FailSale(s)
                             \/ Age(s)
                             \/ CronRead(s)
      PROVE MoneyStays
  BY <1>2, <1>8 DEF StartSale, PriceItem, FailSale, Age, CronRead, paying
<1>9. ASSUME \/ \E j \in Job, p \in Payment : Callback(j, p)
             \/ \E j \in Job : TakeJob(j)
             \/ LoadSale
             \/ FailAttempt
      PROVE MoneyStays
  BY <1>2, <1>9 DEF Callback, TakeJob, LoadSale, FailAttempt
<1>10. ASSUME \/ \E b \in Batch : CronRestore(b)
              \/ CronFail
              \/ Crash
              \/ UNCHANGED vars
       PROVE MoneyStays
  BY <1>2, <1>10 DEF CronRestore, CronFail, Crash, paying, vars
<1> QED
  BY <1>4, <1>5, <1>6, <1>7, <1>8, <1>9, <1>10

\* Every step of the sales is a step of the promise, or none.
LEMMA PromiseStep ==
  ASSUME SaleInv, [Next]_vars
  PROVE  [Promise!Next]_(Promise!promise)
<1>1. ASSUME MoneyStays PROVE UNCHANGED Promise!promise
  BY <1>1, PromiseStays
<1>2. ASSUME NEW s \in Sale, SaleStep(s) PROVE [Promise!Next]_(Promise!promise)
  <2>1. ASSUME CommitSale(s) PROVE Promise!Next
    BY <2>1, CommitSaleSettles DEF Promise!Next
  <2>2. ASSUME NEW p \in Payment, Bill(s, p) \/ BillAgain(s, p) PROVE Promise!Next
    BY <2>2, NewPaymentAsks DEF Bill, BillAgain, Promise!Next
  <2> QED
    BY <1>1, <1>2, <2>1, <2>2, OtherStepsStay DEF SaleStep
<1>3. ASSUME WorkerStep PROVE [Promise!Next]_(Promise!promise)
  <2>1. ASSUME Verify PROVE [Promise!Next]_(Promise!promise)
    BY <2>1, VerifyConfirms DEF Promise!Next
  <2>2. ASSUME CreditSale PROVE Promise!Next
    BY <2>2, CreditSaleCredits DEF Promise!Next
  <2>3. ASSUME IssueTokens PROVE Promise!Next
    BY <2>3, IssueTokensIssues DEF Promise!Next
  <2> QED
    BY <1>1, <1>3, <2>1, <2>2, <2>3, OtherStepsStay DEF WorkerStep
<1> QED
  BY <1>1, <1>2, <1>3, OtherStepsStay DEF Next, CronStep, Browse

\* Every behaviour of the sales, their worker and the cron job keeps the
\* promise of PaymentPromise, whatever is retried or cut off by a restart.
THEOREM PromiseKept == Spec => PromiseSpec
<1>1. SaleInv /\ [Next]_vars => [Promise!Next]_(Promise!promise)
  BY PromiseStep
<1> QED
  BY <1>1, PromiseInit, SaleInvAlways, PTL DEF Spec, PromiseSpec, Promise!Spec

-----------------------------------------------------------------------------
(* The stock check: units, and what a line requires *)

LEMMA DivEnough ==
  ASSUME NEW a \in Int, NEW u \in Nat \ {0}, NEW q \in Nat
  PROVE  a \div u >= q <=> u * q <= a
<1> DEFINE d == a \div u
           r == a % u
<1>1. d \in Int /\ r \in Int /\ 0 <= r /\ r < u /\ a = u * d + r
  OBVIOUS
<1>2. ASSUME d >= q PROVE u * q <= a
  <2>1. u * q <= u * d
    BY <1>1, <1>2
  <2> QED
    BY <1>1, <2>1
<1>3. ASSUME d < q PROVE u * q > a
  <2>1. u * (d + 1) <= u * q
    BY <1>1, <1>3
  <2>2. u * (d + 1) = u * d + u
    BY <1>1
  <2> QED
    BY <1>1, <2>1, <2>2
<1> QED
  BY <1>1, <1>2, <1>3

LEMMA AllocatedUnits ==
  ASSUME NEW a
  PROVE  /\ IsFiniteSet(UnitsOf(a))
         /\ Cardinality(UnitsOf(a)) \in Nat
<1>1. IsFiniteSet(Batch) /\ IsFiniteSet(1..MaxQuantity)
  BY ShelfAssumption, FS_Interval
<1>2. IsFiniteSet(Batch \X (1..MaxQuantity))
  BY <1>1, FS_Product, Zenon
<1>3. UnitsOf(a) \in SUBSET (Batch \X (1..MaxQuantity))
  BY DEF UnitsOf
<1>4. IsFiniteSet(UnitsOf(a))
  BY <1>2, <1>3, FS_Subset, Zenon
<1> QED
  BY <1>4, FS_CardinalityType

\* A batch that gave nothing yet and gives n units adds n units.
LEMMA BatchAddsUnits ==
  ASSUME NEW a \in Allocation, NEW c \in Allocation, NEW b \in Batch,
         NEW n \in 0..MaxQuantity, a[b] = 0, c = [a EXCEPT ![b] = n]
  PROVE  Cardinality(UnitsOf(c)) = Cardinality(UnitsOf(a)) + n
<1> DEFINE New == {b} \X (1..n)
<1>1. \A x \in Batch : c[x] = IF x = b THEN n ELSE a[x]
  BY DEF Allocation
<1>2. UnitsOf(c) = UnitsOf(a) \cup New
  BY <1>1, ShelfAssumption DEF UnitsOf, Allocation
<1>3. UnitsOf(a) \cap New = {}
  BY ShelfAssumption DEF UnitsOf
<1>4. IsFiniteSet({b}) /\ Cardinality({b}) = 1
  BY FS_Singleton
<1>5. IsFiniteSet(1..n) /\ Cardinality(1..n) = n
  BY ShelfAssumption, FS_Interval
<1>6. IsFiniteSet(New) /\ Cardinality(New) = Cardinality({b}) * Cardinality(1..n)
  BY <1>4, <1>5, FS_Product, Zenon
<1>7. Cardinality(New) = n
  BY <1>4, <1>5, <1>6, ShelfAssumption
<1>8. Cardinality(UnitsOf(a) \cup New)
        = Cardinality(UnitsOf(a)) + Cardinality(New) - Cardinality(UnitsOf(a) \cap New)
  BY <1>6, AllocatedUnits, FS_Union, Zenon
<1>9. Cardinality({}) = 0
  BY FS_EmptySet
<1>10. Cardinality(UnitsOf(a)) \in Nat
  BY AllocatedUnits
<1>11. Cardinality(UnitsOf(a) \cap New) = 0
  BY <1>3, <1>9
<1>12. n \in Nat
  BY ShelfAssumption
<1>13. Cardinality(UnitsOf(c)) = Cardinality(UnitsOf(a)) + Cardinality(New) - 0
  BY <1>2, <1>8, <1>11
<1> HIDE DEF New
<1> QED
  BY <1>7, <1>10, <1>12, <1>13

LEMMA EmptyAllocation ==
  /\ Nothing \in Allocation
  /\ Cardinality(UnitsOf(Nothing)) = 0
<1>1. Nothing \in Allocation
  BY ShelfAssumption DEF Nothing, Allocation
<1>2. UnitsOf(Nothing) = {}
  BY DEF UnitsOf, Nothing
<1> QED
  BY <1>1, <1>2, FS_EmptySet

LEMMA OnlyType ==
  ASSUME NEW a \in Allocation, NEW i
  PROVE  /\ Only(a, i) \in Allocation
         /\ \A b \in Batch : Only(a, i)[b] = IF InventoryOf[b] = i THEN a[b] ELSE 0
BY ShelfAssumption DEF Only, Allocation

LEMMA InStockType ==
  ASSUME NEW i
  PROVE  InStock(i) \in Nat
BY AllocatedUnits DEF InStock

LEMMA CartDomain ==
  ASSUME CheckTypeOK
  PROVE  /\ Len(cart) \in Nat
         /\ DOMAIN cart = 1..Len(cart)
<1>1. cart \in Seq([product : Product, quantity : Nat \ {0}])
  BY CartAssumption DEF CheckTypeOK
<1> QED
  BY <1>1, LenProperties

LEMMA LineType ==
  ASSUME CheckTypeOK, NEW k \in DOMAIN cart
  PROVE  /\ cart[k].product \in Product
         /\ cart[k].quantity \in Nat \ {0}
         /\ Parts(cart[k]) \subseteq Inventory
         /\ \A i \in Parts(cart[k]) :
              /\ Recipe[cart[k].product][i] \in Nat \ {0}
              /\ Required(cart[k], i) \in Nat \ {0}
              /\ Needs(cart[k], i) = Required(cart[k], i)
<1>1. cart \in Seq([product : Product, quantity : Nat \ {0}])
  BY CartAssumption DEF CheckTypeOK
<1>2. cart[k] \in [product : Product, quantity : Nat \ {0}]
  BY <1>1, CartDomain, ElementOfSeq
<1>3. cart[k].product \in Product /\ cart[k].quantity \in Nat \ {0}
  BY <1>2
<1>4. ASSUME NEW i \in Parts(cart[k])
      PROVE  /\ i \in Inventory
             /\ Recipe[cart[k].product][i] \in Nat \ {0}
             /\ Required(cart[k], i) \in Nat \ {0}
  <2>1. i \in Inventory /\ Recipe[cart[k].product][i] \in Nat \ {0}
    BY <1>3, RecipeAssumption DEF Parts
  <2>2. \A m, n \in Nat \ {0} : m * n \in Nat \ {0}
    OBVIOUS
  <2> QED
    BY <1>3, <2>1, <2>2 DEF Required
<1> QED
  BY <1>3, <1>4 DEF Needs

\* maxPossibleUnits reaches a quantity if and only if what is available
\* covers what is required.
LEMMA EnoughIsCovered ==
  ASSUME CheckTypeOK, NEW k \in DOMAIN cart
  PROVE  /\ Enough(cart[k]) <=> \A i \in Parts(cart[k]) : Required(cart[k], i) <= Available(i)
         /\ \A i \in Parts(cart[k]) : Available(i) \in Int /\ Available(i) <= InStock(i)
<1>1. ASSUME NEW i \in Parts(cart[k])
      PROVE  /\ Available(i) \in Int /\ Available(i) <= InStock(i)
             /\ Available(i) \div Recipe[cart[k].product][i] >= cart[k].quantity
                  <=> Required(cart[k], i) <= Available(i)
  <2>1. i \in Inventory /\ Recipe[cart[k].product][i] \in Nat \ {0} /\ cart[k].quantity \in Nat
    BY <1>1, LineType
  <2>2. Available(i) \in Int /\ Available(i) <= InStock(i)
    BY <2>1, InStockType DEF Available, CheckTypeOK
  <2> QED
    BY <2>1, <2>2, DivEnough DEF Required
<1> QED
  BY <1>1 DEF Enough

\* Everything that is asked of the stock is the same while the stock is.
LEMMA StockStays ==
  ASSUME UNCHANGED stock
  PROVE  /\ \A i : InStock(i)' = InStock(i)
         /\ \A l : Fits(l)' <=> Fits(l)
         /\ \A a, l, i : FifoFor(a, l, i)' <=> FifoFor(a, l, i)
BY DEF InStock, Fits, FifoFor

-----------------------------------------------------------------------------
(* Init *)

LEMMA CheckInitInv == CheckInit => CheckInv
<1> SUFFICES ASSUME CheckInit PROVE CheckInv
  OBVIOUS
<1>1. Len(cart) \in Nat /\ DOMAIN cart = 1..Len(cart)
  BY CartAssumption, LenProperties DEF CheckInit
<1>2. CheckTypeOK
  BY <1>1, ShelfAssumption, EmptySeq DEF CheckInit, CheckTypeOK, Allocation
<1>3. PassedFits
  BY <1>1 DEF CheckInit, PassedFits
<1>4. PartsTaken /\ BatchesTaken
  BY DEF CheckInit, PartsTaken, BatchesTaken
<1> QED
  BY <1>2, <1>3, <1>4 DEF CheckInv

-----------------------------------------------------------------------------
(* The steps of the check *)

\* No step of the check is in the loops of the allocation.
LEMMA CheckingTakesNothing ==
  ASSUME UNCHANGED taken, PartsTaken, at \in {"check", "aside"}, at' \in {"check", "aside"}
  PROVE  PartsTaken' /\ BatchesTaken'
BY DEF PartsTaken, BatchesTaken

LEMMA CheckLineKeeps ==
  ASSUME CheckInv, CheckLine
  PROVE  CheckInv'
<1>1. CheckTypeOK /\ PassedFits /\ PartsTaken
  BY DEF CheckInv
<1>2. /\ at = "check" /\ UNCHANGED <<stock, cart, aside, taken, part, unread>>
      /\ line \in 1..Len(cart) /\ line \in DOMAIN cart /\ Len(cart) \in Nat
      /\ DOMAIN cart = 1..Len(cart)
  BY <1>1, CartDomain DEF CheckLine, CheckTypeOK
<1>3. CASE Enough(cart[line])
  <2>1. at' = "aside" /\ todo' = Parts(cart[line]) /\ want' = cart[line].quantity
        /\ UNCHANGED <<line, short>>
    BY <1>3 DEF CheckLine
  <2>2. \A i \in Parts(cart[line]) :
          /\ Required(cart[line], i) <= Available(i)
          /\ Available(i) \in Int /\ Available(i) <= InStock(i)
          /\ InStock(i) \in Nat /\ Required(cart[line], i) \in Nat
    BY <1>1, <1>2, <1>3, EnoughIsCovered, InStockType, LineType
  <2>3. Fits(cart[line])
    <3> SUFFICES ASSUME NEW i \in Parts(cart[line])
                 PROVE  Required(cart[line], i) <= InStock(i)
      BY DEF Fits
    <3> QED BY <2>2
  <2>4. CheckTypeOK'
    <3>1. Parts(cart[line]) \subseteq Inventory /\ cart[line].quantity \in Nat
      BY <1>1, <1>2, LineType
    <3> QED
      BY <1>1, <1>2, <2>1, <3>1 DEF CheckTypeOK
  <2>5. PassedFits'
    <3>1. \A i : InStock(i)' = InStock(i)
      BY <1>2, StockStays
    <3>2. \A i : Available(i)' = Available(i)
      BY <1>2, <3>1 DEF Available
    <3>3. \A l : Fits(l)' <=> Fits(l)
      BY <1>2, StockStays
    <3> QED
      BY <1>1, <1>2, <2>1, <2>2, <2>3, <3>2, <3>3 DEF PassedFits
  <2> QED
    BY <1>1, <1>2, <2>1, <2>4, <2>5, CheckingTakesNothing DEF CheckInv
<1>4. CASE ~ Enough(cart[line])
  <2>1. short' = short \cup {cart[line].product} /\ line' = line + 1
        /\ UNCHANGED <<at, todo, want>>
    BY <1>4 DEF CheckLine
  <2>2. CheckTypeOK'
    BY <1>1, <1>2, <2>1 DEF CheckTypeOK
  <2>3. PassedFits'
    <3>1. \A l : Fits(l)' <=> Fits(l)
      BY <1>2, StockStays
    <3>2. line = 1 => ~ Fits(cart[line])
      <4> SUFFICES ASSUME line = 1 PROVE ~ Fits(cart[line])
        OBVIOUS
      <4>1. PICK i \in Parts(cart[line]) : ~ (Required(cart[line], i) <= Available(i))
        BY <1>1, <1>2, <1>4, EnoughIsCovered
      <4>2. i \in Inventory /\ aside[i] = 0
        BY <1>1, <1>2, LineType DEF PassedFits
      <4>3. Available(i) = InStock(i)
        BY <4>2, InStockType DEF Available
      <4> QED
        BY <4>1, <4>3 DEF Fits
    <3>3. short' # {}
      BY <2>1
    <3>4. Len(cart) = 1 => line = 1
      BY <1>2
    <3>5. line' # 1
      BY <1>2, <2>1
    <3> QED
      BY <1>1, <1>2, <2>1, <3>1, <3>2, <3>3, <3>4, <3>5 DEF PassedFits
  <2> QED
    BY <1>1, <1>2, <2>1, <2>2, <2>3, CheckingTakesNothing DEF CheckInv
<1> QED
  BY <1>3, <1>4

LEMMA SetAsideKeeps ==
  ASSUME CheckInv, NEW i \in Inventory, SetAside(i)
  PROVE  CheckInv'
<1> DEFINE required == Required(cart[line], i)
           n == Lesser(want, Available(i) \div required)
<1>1. CheckTypeOK /\ PassedFits /\ PartsTaken
  BY DEF CheckInv
<1>2. /\ at = "aside" /\ want > 0 /\ i \in todo
      /\ aside' = [aside EXCEPT ![i] = @ + n * required]
      /\ want' = want - n /\ todo' = todo \ {i}
      /\ UNCHANGED <<stock, cart, at, line, short, taken, part, unread>>
  BY DEF SetAside
<1>3. /\ line \in DOMAIN cart /\ i \in Parts(cart[line])
      /\ required <= Available(i)
  BY <1>1, <1>2, CartDomain DEF CheckTypeOK, PassedFits
<1>4. required \in Nat \ {0} /\ Available(i) \in Int
  BY <1>1, <1>3, LineType, EnoughIsCovered
<1>5. n \in Nat /\ n <= want
  <2>1. Available(i) \div required >= 1
    <3>1. required * 1 <= Available(i)
      BY <1>3, <1>4
    <3> HIDE DEF required
    <3> QED
      BY <1>4, <3>1, DivEnough
  <2>2. Available(i) \div required \in Int
    BY <1>4
  <2> HIDE DEF required
  <2> QED
    BY <1>1, <1>2, <2>1, <2>2 DEF Lesser, CheckTypeOK
<1>6. n * required \in Nat
  <2> HIDE DEF n, required
  <2> QED BY <1>4, <1>5
<1>7. CheckTypeOK'
  <2>1. aside' \in [Inventory -> Nat]
    <3> HIDE DEF n, required
    <3> QED BY <1>1, <1>2, <1>6 DEF CheckTypeOK
  <2>2. want' \in Nat
    <3> HIDE DEF n
    <3> QED BY <1>1, <1>2, <1>5 DEF CheckTypeOK
  <2> QED
    BY <1>1, <1>2, <2>1, <2>2 DEF CheckTypeOK
<1>8. PassedFits'
  <2>1. \A l : Fits(l)' <=> Fits(l)
    BY <1>2, StockStays
  <2>2. \A x \in todo' : Available(x)' = Available(x)
    <3>1. \A x : InStock(x)' = InStock(x)
      BY <1>2, StockStays
    <3>2. \A x \in todo' : aside'[x] = aside[x]
      <4> HIDE DEF n, required
      <4> QED BY <1>1, <1>2 DEF CheckTypeOK
    <3> QED
      BY <3>1, <3>2 DEF Available
  <2>3. /\ todo' \subseteq todo
        /\ UNCHANGED <<stock, cart, at, line, short>>
    BY <1>2
  <2> QED
    BY <1>1, <1>2, <2>1, <2>2, <2>3 DEF PassedFits
<1> QED
  BY <1>1, <1>2, <1>7, <1>8, CheckingTakesNothing DEF CheckInv

LEMMA EndAsideKeeps ==
  ASSUME CheckInv, EndAside
  PROVE  CheckInv'
<1>1. CheckTypeOK /\ PassedFits /\ PartsTaken
  BY DEF CheckInv
<1>2. /\ at = "aside" /\ at' = "check" /\ line' = line + 1
      /\ UNCHANGED <<stock, cart, aside, short, taken, todo, want, part, unread>>
  BY DEF EndAside, looping
<1>3. line \in 1..Len(cart) /\ DOMAIN cart = 1..Len(cart) /\ Len(cart) \in Nat
  BY <1>1, <1>2, CartDomain DEF CheckTypeOK
<1>4. CheckTypeOK'
  BY <1>1, <1>2, <1>3 DEF CheckTypeOK
<1>5. PassedFits'
  <2>1. \A l : Fits(l)' <=> Fits(l)
    BY <1>2, StockStays
  <2>2. \A k \in DOMAIN cart : k < line + 1 => short # {} \/ Fits(cart[k])
    <3>1. \A k \in DOMAIN cart : k < line + 1 => k < line \/ k = line
      BY <1>3
    <3> QED
      BY <1>1, <1>2, <3>1 DEF PassedFits
  <2>3. line' # 1
    BY <1>2, <1>3
  <2> QED
    BY <1>1, <1>2, <2>1, <2>2, <2>3 DEF PassedFits
<1> QED
  BY <1>1, <1>2, <1>4, <1>5, CheckingTakesNothing DEF CheckInv

LEMMA EndCheckKeeps ==
  ASSUME CheckInv, EndCheck
  PROVE  CheckInv'
<1>1. CheckTypeOK /\ PassedFits /\ PartsTaken
  BY DEF CheckInv
<1>2. /\ at = "check" /\ line > Len(cart) /\ line' = 1
      /\ at' = IF short = {} THEN "price" ELSE "refused"
      /\ UNCHANGED <<stock, cart, aside, short, taken, todo, want, part, unread>>
  BY DEF EndCheck, looping
<1>3. DOMAIN cart = 1..Len(cart) /\ Len(cart) \in Nat
  BY <1>1, CartDomain
<1>4. CheckTypeOK'
  BY <1>1, <1>2, <1>3 DEF CheckTypeOK
<1>5. PassedFits'
  <2>1. \A l : Fits(l)' <=> Fits(l)
    BY <1>2, StockStays
  <2>2. \A k \in DOMAIN cart : short # {} \/ Fits(cart[k])
    <3>1. \A k \in DOMAIN cart : k < line
      BY <1>1, <1>2, <1>3 DEF CheckTypeOK
    <3> QED
      BY <1>1, <1>2, <3>1 DEF PassedFits
  <2> QED
    BY <1>1, <1>2, <2>1, <2>2 DEF PassedFits
<1>6. PartsTaken' /\ BatchesTaken'
  <2>1. Len(taken) = 0
    BY <1>1, <1>2, EmptySeq DEF PartsTaken
  <2> QED
    BY <1>1, <1>2, <2>1 DEF PartsTaken, BatchesTaken
<1> QED
  BY <1>4, <1>5, <1>6 DEF CheckInv

-----------------------------------------------------------------------------
(* The steps of the allocation *)

LEMMA AllocatingKeepsPassed ==
  ASSUME CheckInv, UNCHANGED <<stock, cart, aside, short>>,
         at \in {"price", "parts", "batches"}, at' \in {"price", "parts", "batches"}
  PROVE  PassedFits'
<1>1. \A l : Fits(l)' <=> Fits(l)
  BY StockStays
<1> QED
  BY <1>1 DEF CheckInv, PassedFits

\* What the allocation of the line at work is.
LEMMA LineTaken ==
  ASSUME CheckInv, at \in {"parts", "batches"}
  PROVE  /\ line \in DOMAIN cart /\ line \in 1..Len(taken) /\ line \in Nat
         /\ DOMAIN taken = 1..Len(taken)
         /\ Len(taken) = line
         /\ taken[line] \in Allocation
         /\ \A k \in 1..(line - 1) : k \in 1..Len(taken) /\ k \in DOMAIN cart /\ k # line
<1>1. CheckTypeOK /\ Len(taken) = line
  BY DEF CheckInv, PartsTaken
<1>2. line \in 1..Len(cart) /\ DOMAIN cart = 1..Len(cart) /\ Len(cart) \in Nat
  BY <1>1, CartDomain DEF CheckTypeOK
<1>3. taken \in Seq(Allocation)
  BY <1>1 DEF CheckTypeOK
<1>4. DOMAIN taken = 1..Len(taken)
  BY <1>3, LenProperties
<1>5. taken[line] \in Allocation
  BY <1>1, <1>2, <1>3, ElementOfSeq
<1> QED
  BY <1>1, <1>2, <1>4, <1>5

LEMMA PriceLineKeeps ==
  ASSUME CheckInv, PriceLine
  PROVE  CheckInv'
<1>1. CheckTypeOK /\ PassedFits /\ PartsTaken
  BY DEF CheckInv
<1>2. /\ at = "price" /\ line <= Len(cart) /\ at' = "parts"
      /\ taken' = Append(taken, Nothing) /\ todo' = Parts(cart[line])
      /\ UNCHANGED <<stock, cart, line, aside, short, want, part, unread>>
  BY DEF PriceLine
<1>3. line \in 1..Len(cart) /\ DOMAIN cart = 1..Len(cart) /\ Len(cart) \in Nat
  BY <1>1, <1>2, CartDomain DEF CheckTypeOK
<1>4. taken \in Seq(Allocation) /\ Len(taken) = line - 1
  BY <1>1, <1>2 DEF CheckTypeOK, PartsTaken
<1>5. /\ taken' \in Seq(Allocation) /\ Len(taken') = line
      /\ taken'[line] = Nothing
      /\ \A k \in 1..(line - 1) : taken'[k] = taken[k]
  <2>1. /\ Append(taken, Nothing) \in Seq(Allocation)
        /\ Len(Append(taken, Nothing)) = Len(taken) + 1
        /\ \A k \in 1..Len(taken) : Append(taken, Nothing)[k] = taken[k]
        /\ Append(taken, Nothing)[Len(taken) + 1] = Nothing
    BY <1>4, EmptyAllocation, AppendProperties
  <2> QED
    BY <1>2, <1>3, <1>4, <2>1
<1>6. Parts(cart[line]) \subseteq Inventory
  BY <1>1, <1>3, LineType
<1>7. CheckTypeOK'
  BY <1>1, <1>2, <1>3, <1>5, <1>6 DEF CheckTypeOK
<1>8. PartsTaken'
  <2>1. \A a, l, i : FifoFor(a, l, i)' <=> FifoFor(a, l, i)
    BY <1>2, StockStays
  <2>2. \A k \in 1..(line - 1) : \A i \in Inventory : FifoFor(taken[k], cart[k], i)
    BY <1>1, <1>2 DEF PartsTaken
  <2>3. \A k \in 1..(line - 1) : \A i \in Inventory : FifoFor(taken'[k], cart[k], i)
    BY <1>5, <2>2
  <2>4. \A i : Only(Nothing, i) = Nothing
    BY DEF Only, Nothing
  <2>5. \A i \in Inventory \ Parts(cart[line]) : FifoFor(Nothing, cart[line], i)
    BY <2>4 DEF FifoFor, Needs
  <2> QED
    BY <1>2, <1>5, <2>1, <2>3, <2>4, <2>5 DEF PartsTaken
<1> QED
  BY <1>2, <1>7, <1>8, AllocatingKeepsPassed DEF CheckInv, BatchesTaken

LEMMA StartPartKeeps ==
  ASSUME CheckInv, NEW i \in Inventory, StartPart(i)
  PROVE  CheckInv'
<1>1. CheckTypeOK /\ PassedFits /\ PartsTaken
  BY DEF CheckInv
<1>2. /\ at = "parts" /\ i \in todo /\ at' = "batches" /\ todo' = todo \ {i}
      /\ want' = Required(cart[line], i) /\ part' = i
      /\ unread' = {b \in Batch : InventoryOf[b] = i /\ stock[b] > 0}
      /\ UNCHANGED <<stock, cart, line, aside, short, taken>>
  BY DEF StartPart
<1>3. line \in DOMAIN cart /\ taken[line] \in Allocation
  BY <1>2, LineTaken
<1>4. i \in Parts(cart[line]) /\ todo \subseteq Parts(cart[line])
      /\ Required(cart[line], i) \in Nat \ {0}
  BY <1>1, <1>2, <1>3, LineType DEF PartsTaken
<1>5. CheckTypeOK'
  BY <1>1, <1>2, <1>4 DEF CheckTypeOK
<1>6. PartsTaken'
  <2>1. \A a, l, x : FifoFor(a, l, x)' <=> FifoFor(a, l, x)
    BY <1>2, StockStays
  <2> QED
    BY <1>1, <1>2, <2>1 DEF PartsTaken
<1>7. BatchesTaken'
  <2>1. Only(taken[line], i) = Nothing
    BY <1>1, <1>2 DEF PartsTaken
  <2>2. \A b \in Batch : Nothing[b] = 0 /\ stock[b] \in Nat
    BY <1>1, <1>2, ShelfAssumption DEF Nothing, CheckTypeOK, Allocation
  <2>3. want' + Cardinality(UnitsOf(Nothing)) = Required(cart[line], i)
    BY <1>2, <1>4, EmptyAllocation
  <2>4. \A b \in Batch \ unread' : Nothing[b] = Only(stock, i)[b]
    BY <1>2, <2>2 DEF Only
  <2>5. \A b \in unread' : Nothing[b] = 0
    BY <1>2, <2>2
  <2>6. \A b, c \in Batch : ~ (Older(b, c) /\ Nothing[c] > 0)
    BY <2>2
  <2>7. UNCHANGED <<stock, cart, line, taken>> /\ part' = i /\ at' = "batches"
        /\ i \in Parts(cart[line]) \ todo'
    BY <1>2, <1>4
  <2> QED
    BY <1>2, <2>1, <2>2, <2>3, <2>4, <2>5, <2>6, <2>7 DEF BatchesTaken
<1> QED
  BY <1>2, <1>5, <1>6, <1>7, AllocatingKeepsPassed DEF CheckInv

LEMMA TakeBatchKeeps ==
  ASSUME CheckInv, NEW b \in Batch, TakeBatch(b)
  PROVE  CheckInv'
<1> DEFINE n == Lesser(stock[b], want)
           a == Only(taken[line], part)
           c == [a EXCEPT ![b] = n]
<1>1. CheckTypeOK /\ PassedFits /\ PartsTaken /\ BatchesTaken
  BY DEF CheckInv
<1>2. /\ at = "batches" /\ want > 0 /\ b \in unread
      /\ \A x \in unread : ~ Older(x, b)
      /\ taken' = [taken EXCEPT ![line] = [taken[line] EXCEPT ![b] = taken[line][b] + n]]
      /\ want' = want - n /\ unread' = unread \ {b}
      /\ UNCHANGED <<stock, cart, at, line, aside, short, todo, part>>
  BY DEF TakeBatch
<1>3. /\ line \in DOMAIN cart /\ line \in 1..Len(taken) /\ taken[line] \in Allocation
      /\ Len(taken) = line
      /\ \A k \in 1..(line - 1) : k \in 1..Len(taken) /\ k # line
  BY <1>2, LineTaken
<1>4. /\ part \in Parts(cart[line]) \ todo
      /\ want + Cardinality(UnitsOf(a)) = Required(cart[line], part)
      /\ unread \subseteq {x \in Batch : InventoryOf[x] = part /\ stock[x] > 0}
      /\ \A x \in Batch : a[x] <= stock[x]
      /\ \A x \in unread : a[x] = 0
      /\ \A x \in Batch \ unread : a[x] = Only(stock, part)[x]
      /\ \A x, y \in Batch : Older(x, y) /\ a[y] > 0 => a[x] >= stock[x]
  BY <1>1, <1>2 DEF BatchesTaken
<1>5. /\ stock \in Allocation /\ stock[b] \in 1..MaxQuantity /\ want \in Nat
      /\ \A x \in Batch : stock[x] \in Nat
  BY <1>1, <1>2, <1>4, ShelfAssumption DEF CheckTypeOK, Allocation
<1>6. n \in 1..MaxQuantity /\ n <= stock[b] /\ n <= want /\ (n < want => n = stock[b])
  BY <1>2, <1>5, ShelfAssumption DEF Lesser
<1>7. /\ InventoryOf[b] = part /\ a \in Allocation /\ a[b] = 0 /\ taken[line][b] = 0
      /\ \A x \in Batch : a[x] = IF InventoryOf[x] = part THEN taken[line][x] ELSE 0
  BY <1>2, <1>3, <1>4, OnlyType
<1> HIDE DEF n, a
<1>8. c \in Allocation /\ \A x \in Batch : c[x] = IF x = b THEN n ELSE a[x]
  BY <1>6, <1>7, ShelfAssumption DEF Allocation
<1>9. PICK t : t = [taken[line] EXCEPT ![b] = n]
  OBVIOUS
<1>10. t \in Allocation /\ \A x \in Batch : t[x] = IF x = b THEN n ELSE taken[line][x]
  BY <1>3, <1>6, <1>9, ShelfAssumption DEF Allocation
<1>11. /\ taken' \in Seq(Allocation) /\ Len(taken') = line /\ taken'[line] = t
       /\ \A k \in 1..(line - 1) : taken'[k] = taken[k]
  <2>1. taken' = [taken EXCEPT ![line] = t]
    <3>1. taken[line][b] + n = n
      BY <1>6, <1>7
    <3> QED
      BY <1>2, <1>9, <3>1
  <2>2. taken \in Seq(Allocation)
    BY <1>1 DEF CheckTypeOK
  <2>3. /\ [taken EXCEPT ![line] = t] \in Seq(Allocation)
        /\ Len([taken EXCEPT ![line] = t]) = Len(taken)
        /\ \A k \in 1..Len(taken) : [taken EXCEPT ![line] = t][k] = IF k = line THEN t ELSE taken[k]
    BY <1>3, <1>10, <2>2, ExceptSeq
  <2> QED
    BY <1>3, <2>1, <2>3
<1>12. /\ Only(t, part) = c
       /\ \A i : i # part => Only(t, i) = Only(taken[line], i)
  <2>1. Only(t, part) = [x \in Batch |-> c[x]]
    BY <1>7, <1>8, <1>10 DEF Only
  <2>2. c = [x \in Batch |-> c[x]]
    BY <1>8 DEF Allocation
  <2>3. ASSUME NEW i, i # part PROVE Only(t, i) = Only(taken[line], i)
    BY <1>7, <1>10, <2>3 DEF Only
  <2> QED
    BY <2>1, <2>2, <2>3
<1> HIDE DEF c
<1>13. CheckTypeOK'
  BY <1>1, <1>2, <1>5, <1>6, <1>11 DEF CheckTypeOK
<1>14. PartsTaken'
  <2>1. \A f, l, x : FifoFor(f, l, x)' <=> FifoFor(f, l, x)
    BY <1>2, StockStays
  <2>2. \A i \in Inventory : i # part => (FifoFor(t, cart[line], i) <=> FifoFor(taken[line], cart[line], i))
    BY <1>12 DEF FifoFor
  <2>3. \A i \in Inventory :
          IF i \in todo THEN Only(t, i) = Nothing
          ELSE i = part \/ FifoFor(t, cart[line], i)
    BY <1>1, <1>2, <1>4, <1>12, <2>2 DEF PartsTaken
  <2>4. \A k \in 1..(line - 1) : \A i \in Inventory : FifoFor(taken'[k], cart[k], i)
    BY <1>1, <1>2, <1>11 DEF PartsTaken
  <2>5. todo \subseteq Parts(cart[line])
    BY <1>1, <1>2 DEF PartsTaken
  <2> QED
    BY <1>2, <1>11, <2>1, <2>3, <2>4, <2>5 DEF PartsTaken
<1>15. BatchesTaken'
  <2>1. want' + Cardinality(UnitsOf(c)) = Required(cart[line], part)
    <3>1. Cardinality(UnitsOf(c)) = Cardinality(UnitsOf(a)) + n
      BY <1>6, <1>7, <1>8, BatchAddsUnits DEF c
    <3>2. Cardinality(UnitsOf(a)) \in Nat
      BY AllocatedUnits
    <3> QED
      BY <1>2, <1>4, <1>5, <1>6, <3>1, <3>2
  <2>2. \A x \in Batch : c[x] <= stock[x]
    BY <1>4, <1>6, <1>8
  <2>3. \A x \in unread' : c[x] = 0
    BY <1>2, <1>4, <1>8
  <2>4. want' > 0 => \A x \in Batch \ unread' : c[x] = Only(stock, part)[x]
    <3> SUFFICES ASSUME want' > 0, NEW x \in Batch \ unread'
                 PROVE  c[x] = Only(stock, part)[x]
      OBVIOUS
    <3>1. n = stock[b]
      BY <1>2, <1>5, <1>6
    <3>2. CASE x = b
      BY <1>5, <1>7, <1>8, <3>1, <3>2, OnlyType
    <3>3. CASE x # b
      BY <1>2, <1>4, <1>8, <3>3
    <3> QED
      BY <3>2, <3>3
  <2>5. \A x, y \in Batch : Older(x, y) /\ c[y] > 0 => c[x] >= stock[x]
    <3> SUFFICES ASSUME NEW x \in Batch, NEW y \in Batch, Older(x, y), c[y] > 0
                 PROVE  c[x] >= stock[x]
      OBVIOUS
    <3>1. CASE y = b
      <4>1. x \notin unread /\ x # b /\ InventoryOf[x] = part
        BY <1>2, <1>7, <3>1 DEF Older
      <4>2. a[x] = stock[x]
        BY <1>4, <1>5, <4>1, OnlyType
      <4> QED
        BY <1>5, <1>8, <4>1, <4>2
    <3>2. CASE y # b /\ x # b
      BY <1>4, <1>8, <3>2
    <3>3. CASE y # b /\ x = b
      <4>1. a[b] >= stock[b]
        BY <1>4, <1>8, <3>3
      <4> QED
        BY <1>5, <1>7, <4>1
    <3> QED
      BY <3>1, <3>2, <3>3
  <2>6. unread' \subseteq {x \in Batch : InventoryOf[x] = part /\ stock[x] > 0}
    BY <1>2, <1>4
  <2>7. Only(taken[line], part)' = c
    <3>1. line' = line /\ part' = part /\ taken'[line] = t
      BY <1>2, <1>11
    <3>2. Only(taken[line], part)' = Only(t, part)
      BY <3>1 DEF Only
    <3> QED
      BY <1>12, <3>2
  <2>8. UNCHANGED <<stock, cart, at, line, todo, part>>
    BY <1>2
  <2>9. /\ Required(cart[line], part)' = Required(cart[line], part)
        /\ Parts(cart[line])' = Parts(cart[line])
        /\ Only(stock, part)' = Only(stock, part)
    BY <2>8 DEF Required, Parts, Only
  <2> QED
    BY <1>4, <2>1, <2>2, <2>3, <2>4, <2>5, <2>6, <2>7, <2>8, <2>9 DEF BatchesTaken
<1> QED
  BY <1>2, <1>13, <1>14, <1>15, AllocatingKeepsPassed DEF CheckInv

\* A part that is done is a FIFO allocation of what was required.
LEMMA DonePartIsFifo ==
  ASSUME CheckInv, at = "batches", want = 0
  PROVE  FifoFor(taken[line], cart[line], part)
<1> DEFINE a == Only(taken[line], part)
<1>1. CheckTypeOK /\ line \in DOMAIN cart /\ taken[line] \in Allocation
  BY LineTaken DEF CheckInv
<1>2. /\ part \in Parts(cart[line])
      /\ want + Cardinality(UnitsOf(a)) = Required(cart[line], part)
      /\ \A x \in Batch : a[x] <= stock[x]
      /\ \A x, y \in Batch : Older(x, y) /\ a[y] > 0 => a[x] >= stock[x]
  BY DEF CheckInv, BatchesTaken
<1>3. /\ Needs(cart[line], part) = Required(cart[line], part)
      /\ Required(cart[line], part) \in Nat \ {0}
  BY <1>1, <1>2, LineType
<1>4. a \in Allocation /\ \A x \in Batch : a[x] > 0 => InventoryOf[x] = part
  BY <1>1, OnlyType
<1>5. Cardinality(UnitsOf(a)) = Required(cart[line], part)
  BY <1>2, AllocatedUnits
<1> HIDE DEF a
<1>6. a \in FifoAllocations([inventory |-> part, quantity |-> Required(cart[line], part)], stock)
  BY <1>2, <1>4, <1>5 DEF FifoAllocations
<1> QED
  BY <1>3, <1>6 DEF FifoFor, a

\* The stock covers a line that passed, so no part of it runs out of batches.
LEMMA PartIsCovered ==
  ASSUME CheckInv, at = "batches", unread = {}
  PROVE  want = 0
<1> SUFFICES ASSUME want # 0 PROVE FALSE
  OBVIOUS
<1> DEFINE a == Only(taken[line], part)
<1>1. /\ CheckTypeOK /\ line \in DOMAIN cart /\ taken[line] \in Allocation
      /\ want \in Nat /\ stock \in Allocation
  BY LineTaken DEF CheckInv, CheckTypeOK
<1>2. /\ part \in Parts(cart[line])
      /\ want + Cardinality(UnitsOf(a)) = Required(cart[line], part)
      /\ \A x \in Batch : a[x] = Only(stock, part)[x]
  BY <1>1 DEF CheckInv, BatchesTaken
<1>3. a = Only(stock, part)
  BY <1>1, <1>2, OnlyType DEF Allocation
<1>4. Cardinality(UnitsOf(a)) = InStock(part)
  BY <1>3 DEF InStock
<1>5. Required(cart[line], part) <= InStock(part)
  BY <1>1, <1>2 DEF CheckInv, PassedFits, Fits
<1>6. InStock(part) \in Nat
  BY InStockType
<1> HIDE DEF a
<1> QED
  BY <1>1, <1>2, <1>4, <1>5, <1>6

LEMMA EndPartKeeps ==
  ASSUME CheckInv, EndPart
  PROVE  CheckInv'
<1>1. CheckTypeOK /\ PassedFits /\ PartsTaken
  BY DEF CheckInv
<1>2. /\ at = "batches"
      /\ want <= 0 \/ unread = {}
      /\ UNCHANGED <<stock, cart, line, aside, short, taken, todo, want, part, unread>>
  BY DEF EndPart, looping
<1>3. want = 0
  BY <1>1, <1>2, PartIsCovered DEF CheckTypeOK
<1>4. at = "batches" /\ at' = "parts"
  BY <1>3 DEF EndPart
<1>5. CheckTypeOK'
  BY <1>1, <1>2, <1>4 DEF CheckTypeOK
<1>6. PartsTaken'
  <2>1. \A a, l, i : FifoFor(a, l, i)' <=> FifoFor(a, l, i)
    BY <1>2, StockStays
  <2>2. FifoFor(taken[line], cart[line], part)
    BY <1>3, <1>4, DonePartIsFifo
  <2> QED
    BY <1>1, <1>2, <1>4, <2>1, <2>2 DEF PartsTaken
<1> QED
  BY <1>2, <1>4, <1>5, <1>6, AllocatingKeepsPassed DEF CheckInv, BatchesTaken

LEMMA EndLineKeeps ==
  ASSUME CheckInv, EndLine
  PROVE  CheckInv'
<1>1. CheckTypeOK /\ PassedFits /\ PartsTaken
  BY DEF CheckInv
<1>2. /\ at = "parts" /\ todo = {} /\ at' = "price" /\ line' = line + 1
      /\ UNCHANGED <<stock, cart, aside, short, taken, todo, want, part, unread>>
  BY DEF EndLine, looping
<1>3. line \in 1..Len(cart) /\ Len(cart) \in Nat /\ Len(taken) = line
  BY <1>1, <1>2, CartDomain, LineTaken DEF CheckTypeOK
<1>4. CheckTypeOK'
  BY <1>1, <1>2, <1>3 DEF CheckTypeOK
<1>5. PartsTaken'
  <2>1. \A a, l, i : FifoFor(a, l, i)' <=> FifoFor(a, l, i)
    BY <1>2, StockStays
  <2>2. \A i \in Inventory : FifoFor(taken[line], cart[line], i)
    BY <1>1, <1>2 DEF PartsTaken
  <2>3. \A k \in 1..line : k = line \/ k \in 1..(line - 1)
    BY <1>3
  <2>4. \A k \in 1..line : \A i \in Inventory : FifoFor(taken[k], cart[k], i)
    BY <1>1, <1>2, <2>2, <2>3 DEF PartsTaken
  <2>5. line' - 1 = line
    BY <1>2, <1>3
  <2> QED
    BY <1>2, <1>3, <2>1, <2>4, <2>5 DEF PartsTaken
<1> QED
  BY <1>2, <1>4, <1>5, AllocatingKeepsPassed DEF CheckInv, BatchesTaken

LEMMA TakenOfType ==
  ASSUME CheckTypeOK, NEW b \in Batch
  PROVE  /\ TakenOf(b) \in Nat
         /\ Len(taken) = 1 => TakenOf(b) = taken[1][b]
<1> DEFINE U == {u \in (DOMAIN taken) \X (1..MaxQuantity) : u[2] <= taken[u[1]][b]}
<1>1. DOMAIN taken = 1..Len(taken) /\ Len(taken) \in Nat
  BY LenProperties DEF CheckTypeOK
<1>2. IsFiniteSet(DOMAIN taken) /\ IsFiniteSet(1..MaxQuantity)
  BY <1>1, ShelfAssumption, FS_Interval
<1>3. IsFiniteSet((DOMAIN taken) \X (1..MaxQuantity))
  BY <1>2, FS_Product, Zenon
<1>4. U \in SUBSET ((DOMAIN taken) \X (1..MaxQuantity))
  OBVIOUS
<1>5. IsFiniteSet(U)
  BY <1>3, <1>4, FS_Subset, Zenon
<1>6. ASSUME Len(taken) = 1 PROVE Cardinality(U) = taken[1][b]
  <2>1. taken[1] \in Allocation
    <3>1. taken \in Seq(Allocation) /\ 1 \in 1..Len(taken)
      BY <1>6 DEF CheckTypeOK
    <3> QED
      BY <3>1, ElementOfSeq
  <2>2. PICK n \in 0..MaxQuantity : n = taken[1][b]
    BY <2>1 DEF Allocation
  <2>3. U = {1} \X (1..n)
    BY <1>1, <1>6, <2>2, ShelfAssumption
  <2>4. /\ IsFiniteSet({1}) /\ Cardinality({1}) = 1
        /\ IsFiniteSet(1..n) /\ Cardinality(1..n) = n
    <3>1. n \in Nat
      BY ShelfAssumption
    <3>2. IsFiniteSet({1}) /\ Cardinality({1}) = 1
      BY FS_Singleton
    <3>3. IsFiniteSet(1..n) /\ Cardinality(1..n) = n
      BY <3>1, FS_Interval
    <3> QED
      BY <3>2, <3>3
  <2>5. Cardinality({1} \X (1..n)) = Cardinality({1}) * Cardinality(1..n)
    BY <2>4, FS_Product, Zenon
  <2>6. Cardinality({1} \X (1..n)) = n
    BY <2>4, <2>5, ShelfAssumption
  <2> QED
    BY <2>2, <2>3, <2>6
<1> QED
  BY <1>5, <1>6, FS_CardinalityType DEF TakenOf

LEMMA CommitCartKeeps ==
  ASSUME CheckInv, CommitCart
  PROVE  CheckInv'
<1>1. CheckTypeOK /\ PassedFits /\ PartsTaken
  BY DEF CheckInv
<1>2. /\ at = "price" /\ line > Len(cart) /\ at' = "sold"
      /\ stock' = [b \in Batch |-> stock[b] - TakenOf(b)]
      /\ UNCHANGED <<cart, line, aside, short, taken, todo, want, part, unread>>
  BY DEF CommitCart, looping
<1>3. CheckTypeOK'
  <2>1. stock' \in [Batch -> Int]
    BY <1>1, <1>2, TakenOfType DEF CheckTypeOK
  <2> QED
    BY <1>1, <1>2, <2>1 DEF CheckTypeOK
<1>4. ASSUME Len(cart) = 1, NEW b \in Batch PROVE stock'[b] >= 0
  <2>1. line = 2 /\ Len(taken) = 1 /\ taken \in Seq(Allocation)
    <3>1. line \in 1..(Len(cart) + 1) /\ taken \in Seq(Allocation)
      BY <1>1 DEF CheckTypeOK
    <3>2. Len(taken) = line - 1
      BY <1>1, <1>2 DEF PartsTaken
    <3> QED
      BY <1>2, <1>4, <3>1, <3>2
  <2>2. taken[1] \in Allocation /\ taken[1][b] \in Nat /\ stock[b] \in Nat
    <3>1. 1 \in 1..Len(taken)
      BY <2>1
    <3>2. taken[1] \in Allocation
      BY <2>1, <3>1, ElementOfSeq
    <3>3. stock \in Allocation
      BY <1>1, <1>2 DEF CheckTypeOK
    <3> QED
      BY <3>2, <3>3, ShelfAssumption DEF Allocation
  <2>3. InventoryOf[b] \in Inventory
    BY DEF Inventory
  <2>4. FifoFor(taken[1], cart[1], InventoryOf[b])
    BY <1>1, <1>2, <2>1, <2>3 DEF PartsTaken
  <2>5. Only(taken[1], InventoryOf[b])[b] = taken[1][b]
    BY <2>2, OnlyType
  <2>6. taken[1][b] <= stock[b]
    BY <2>2, <2>4, <2>5 DEF FifoFor, FifoAllocations, Nothing
  <2>7. stock'[b] = stock[b] - taken[1][b]
    BY <1>1, <1>2, <2>1, TakenOfType
  <2> QED
    BY <2>2, <2>6, <2>7
<1> QED
  BY <1>1, <1>2, <1>3, <1>4 DEF CheckInv, PassedFits, PartsTaken, BatchesTaken

LEMMA IdleKeeps ==
  ASSUME CheckInv, UNCHANGED checkVars
  PROVE  CheckInv'
<1>1. UNCHANGED <<stock, cart, at, line, aside, short, taken, todo, want, part, unread>>
  BY DEF checkVars, looping
<1>2. CheckTypeOK'
  BY <1>1 DEF CheckInv, CheckTypeOK
<1>3. PassedFits'
  <2>1. /\ \A l : Fits(l)' <=> Fits(l)
        /\ \A i : Available(i)' = Available(i)
    BY <1>1, StockStays DEF Available
  <2> QED
    BY <1>1, <2>1 DEF CheckInv, PassedFits
<1>4. PartsTaken'
  <2>1. \A a, l, i : FifoFor(a, l, i)' <=> FifoFor(a, l, i)
    BY <1>1, StockStays
  <2> QED
    BY <1>1, <2>1 DEF CheckInv, PartsTaken
<1>5. BatchesTaken'
  BY <1>1 DEF CheckInv, BatchesTaken
<1> QED
  BY <1>2, <1>3, <1>4, <1>5 DEF CheckInv

-----------------------------------------------------------------------------
(* The theorems of the stock check *)

\* Every round of the loops of validateSaleProductQuantity and processBatches
\* keeps what CheckInv says holds between two rounds.
THEOREM CheckInvInductive == CheckInv /\ [CheckNext]_checkVars => CheckInv'
<1> SUFFICES ASSUME CheckInv, [CheckNext]_checkVars
             PROVE  CheckInv'
  OBVIOUS
<1>1. ASSUME NEW i \in Inventory, SetAside(i) \/ StartPart(i) PROVE CheckInv'
  BY <1>1, SetAsideKeeps, StartPartKeeps
<1>2. ASSUME NEW b \in Batch, TakeBatch(b) PROVE CheckInv'
  BY <1>2, TakeBatchKeeps
<1>3. ASSUME CheckLine \/ EndAside \/ EndCheck PROVE CheckInv'
  BY <1>3, CheckLineKeeps, EndAsideKeeps, EndCheckKeeps
<1>4. ASSUME PriceLine \/ EndPart \/ EndLine \/ CommitCart PROVE CheckInv'
  BY <1>4, PriceLineKeeps, EndPartKeeps, EndLineKeeps, CommitCartKeeps
<1>5. ASSUME UNCHANGED checkVars PROVE CheckInv'
  BY <1>5, IdleKeeps
<1> QED
  BY <1>1, <1>2, <1>3, <1>4, <1>5 DEF CheckNext, CheckStep, PriceStep

\* CheckInv holds after every round, for every order, recipe and shelf.
THEOREM CheckInvAlways == CheckSpec => []CheckInv
<1> QED
  BY CheckInitInv, CheckInvInductive, PTL DEF CheckSpec

\* Every variable of the stock check stays in its domain: the map of what is
\* put aside, and what is still wanted of a part, never go below zero.
THEOREM CheckTypeCorrect == CheckSpec => []CheckTypeOK
<1>1. CheckInv => CheckTypeOK
  BY DEF CheckInv
<1> QED
  BY <1>1, CheckInvAlways, PTL

\* processBatches never throws for an order that the check let through: a line
\* that passed is covered by the stock of every inventory it is made of.
THEOREM CheckedTakeable == CheckSpec => []CheckedIsTakeable
<1>1. CheckInv => CheckedIsTakeable
  BY DEF CheckInv, PassedFits, CheckedIsTakeable
<1> QED
  BY <1>1, CheckInvAlways, PTL

\* The loop of processBatches over the batches of a part, oldest first, ends
\* with one of the allocations that FifoAllocations defines, so what
\* ProductSale takes in one step is what the loop computes.
THEOREM LoopIsFifo == CheckSpec => []TakenIsFifo
<1>1. CheckInv => TakenIsFifo
  <2> SUFFICES ASSUME CheckInv, at = "price", NEW k \in DOMAIN taken, NEW i \in Inventory
               PROVE  FifoFor(taken[k], cart[k], i)
    BY DEF TakenIsFifo
  <2>1. DOMAIN taken = 1..(line - 1)
    BY LenProperties DEF CheckInv, CheckTypeOK, PartsTaken
  <2> QED
    BY <2>1 DEF CheckInv, PartsTaken
<1> QED
  BY <1>1, CheckInvAlways, PTL

\* For an order of one product the check is exact: it refuses no order that the
\* stock covers, and the sale of one it accepts takes no batch below zero.
THEOREM SingleExact == CheckSpec => []SingleOrderExact
<1>1. ASSUME CheckInv, at = "refused", Len(cart) = 1
      PROVE  \E i \in Inventory : Needs(cart[1], i) > InStock(i)
  <2>1. CheckTypeOK /\ 1 \in DOMAIN cart
    BY <1>1, CartDomain DEF CheckInv
  <2>2. ~ Fits(cart[1])
    BY <1>1 DEF CheckInv, PassedFits
  <2>3. PICK i \in Parts(cart[1]) : ~ (Required(cart[1], i) <= InStock(i))
    BY <2>2 DEF Fits
  <2>4. i \in Inventory /\ Needs(cart[1], i) = Required(cart[1], i) /\ Required(cart[1], i) \in Nat
    BY <2>1, LineType
  <2> QED
    BY <2>3, <2>4, InStockType
<1>2. CheckInv => SingleOrderExact
  BY <1>1 DEF CheckInv, PassedFits, SingleOrderExact
<1> QED
  BY <1>2, CheckInvAlways, PTL
=============================================================================

----------------------------- MODULE ProductSale -----------------------------
(***************************************************************************)
(* Selling products and collecting their price: sales.service.ts creates   *)
(* the sale and its payment rows, the gateway's callback queues a job per  *)
(* payment, the worker of payment-queue verifies it and credits the sale   *)
(* (payment.service.ts), and a cron job gives the stock of sales that stay *)
(* unpaid for six hours back (cronjobs.service.ts).                        *)
(*                                                                         *)
(* A sale has one product of one inventory item.  Every database access    *)
(* outside a $transaction is a step of its own.  BullMQ keeps the queue in *)
(* Redis: a job survives a restart, and a worker runs one job at a time.   *)
(***************************************************************************)
EXTENDS BatchAllocation

CONSTANTS
  Stock,          \* Stock[b]: numberOfStock
  Sale,           \* the sales that requests to createSale make
  NoSale,         \* no sale
  Payment,        \* payments rows
  Job,            \* jobs of payment-queue
  NoJob,          \* no job
  Orders,         \* the items a sale may be for
  Modes,          \* the payment modes in use, among ONE_OFF and INSTALLMENT
  Price,          \* totalPrice of a sale
  StartingPrice,  \* installmentStartingPrice of an INSTALLMENT sale
  MaxAttempts,    \* attempts of a verify-payment job
  MaxFaults       \* bound on restarts and failing cron runs

ASSUME StockAssumption == IsFiniteSet(Batch) /\ Stock \in [Batch -> Nat]
ASSUME SaleAssumption ==
  /\ MaxQuantity \in Nat
  /\ Orders \subseteq Item
  /\ Modes \subseteq {"ONE_OFF", "INSTALLMENT"}
  /\ NoSale \notin Sale
  /\ IsFiniteSet(Payment)
  /\ NoJob \notin Job
ASSUME PriceAssumption ==
  /\ Price \in Nat \ {0}
  /\ StartingPrice \in Nat \ {0}
  /\ MaxAttempts \in Nat \ {0}
  /\ MaxFaults \in Nat

VARIABLES
  remaining,  \* remaining[b]: remainingQuantity
  sale,       \* sale[s]: the sales row of s, with its batchAllocations
  req,        \* req[s]: progress and local variables of the request making s
  pay,        \* pay[p]: the payments row p
  tokens,     \* tokens[s]: how many times tokens were issued for s
  job,        \* job[j]: the state of job j
  work,       \* what the payment worker is doing, with its local variables
  old,        \* the sales created six hours ago or earlier
  cron,       \* the unpaid sale a cron run restores, and the batches to do
  restored,   \* history: restored[s][b] times the units of s went back to b
  faults      \* restarts and failed cron runs so far

selling == <<remaining, req, restored>>
paying == <<pay, tokens, job, work>>
expiring == <<old, cron, faults>>
vars == <<remaining, sale, req, pay, tokens, job, work, old, cron, restored, faults>>

NoRow == [status |-> "NONE", mode |-> "ONE_OFF", paid |-> 0, alloc |-> Nothing,
          contract |-> FALSE, account |-> FALSE, delivered |-> FALSE]
NoPay == [status |-> "NONE", sale |-> NoSale]
Idle == [pc |-> "idle", job |-> NoJob, pay |-> "NONE", sale |-> "NONE", paid |-> 0,
         details |-> FALSE]
NoRun == [sale |-> NoSale, todo |-> {}]

Init ==
  /\ remaining = Stock
  /\ sale = [s \in Sale |-> NoRow]
  /\ req = [s \in Sale |-> [pc |-> "idle"]]
  /\ pay = [p \in Payment |-> NoPay]
  /\ tokens = [s \in Sale |-> 0]
  /\ job = [j \in Job |-> [state |-> "none"]]
  /\ work = Idle
  /\ old = {}
  /\ cron = NoRun
  /\ restored = [s \in Sale |-> Nothing]
  /\ faults = 0

-----------------------------------------------------------------------------
(* createSale *)

\* validateSalesRelations and validateSaleProductQuantity: a first read.
StartSale(s, order, mode) ==
  /\ req[s].pc = "idle"
  /\ FifoAllocations(order, remaining) # {}
  /\ req' = [req EXCEPT ![s] = [pc |-> "pricing", order |-> order, mode |-> mode]]
  /\ UNCHANGED <<remaining, sale, restored, paying, expiring>>

\* calculateItemPrice, processBatches: a second read, which allocates.
PriceItem(s) ==
  /\ req[s].pc = "pricing"
  /\ \E a \in FifoAllocations(req[s].order, remaining) :
       req' = [req EXCEPT ![s] = [pc |-> "selling", mode |-> req[s].mode, alloc |-> a]]
  /\ UNCHANGED <<remaining, sale, restored, paying, expiring>>

\* The transaction: the sale with its allocations, and decrements of the
\* batches that nothing checks.
CommitSale(s) ==
  /\ req[s].pc = "selling"
  /\ sale' = [sale EXCEPT ![s] =
       [NoRow EXCEPT !.status = "UNPAID", !.mode = req[s].mode, !.alloc = req[s].alloc]]
  /\ remaining' = Minus(remaining, req[s].alloc)
  /\ req' = [req EXCEPT ![s] =
       [pc |-> IF req[s].mode = "INSTALLMENT" THEN "contract" ELSE "bill"]]
  /\ UNCHANGED <<restored, paying, expiring>>

LinkContract(s) ==
  /\ req[s].pc = "contract"
  /\ sale' = [sale EXCEPT ![s].contract = TRUE]
  /\ req' = [req EXCEPT ![s].pc = "account"]
  /\ UNCHANGED <<remaining, restored, paying, expiring>>

\* generateStaticAccount, then the installmentAccountDetails row.
CreateAccount(s) ==
  /\ req[s].pc = "account"
  /\ sale' = [sale EXCEPT ![s].account = TRUE]
  /\ req' = [req EXCEPT ![s].pc = "bill"]
  /\ UNCHANGED <<remaining, restored, paying, expiring>>

\* generatePaymentPayload: a PENDING payments row.
NewPayment(s, p) ==
  /\ pay[p].status = "NONE"
  /\ pay' = [pay EXCEPT ![p] = [status |-> "PENDING", sale |-> s]]
  /\ UNCHANGED <<remaining, sale, tokens, job, work, restored, expiring>>

Bill(s, p) ==
  /\ req[s].pc = "bill"
  /\ NewPayment(s, p)
  /\ req' = [req EXCEPT ![s].pc = "done"]

\* getSalesPaymentDetails: one more payments row, whatever the sale's status.
BillAgain(s, p) ==
  /\ sale[s].status # "NONE"
  /\ NewPayment(s, p)
  /\ UNCHANGED req

\* A check, the transaction, the contract, the gateway or a write refuses.
FailSale(s) ==
  /\ req[s].pc \notin {"idle", "done"}
  /\ req' = [req EXCEPT ![s] = [pc |-> "done"]]
  /\ UNCHANGED <<remaining, sale, restored, paying, expiring>>

-----------------------------------------------------------------------------
(* payment-queue and its worker *)

\* What a payments row of sale s asks for.
Due(s) == IF sale[s].mode = "INSTALLMENT" THEN StartingPrice ELSE Price

\* The callback queues a job; it may come late, twice, or for money that
\* never arrived.
Callback(j, p) ==
  /\ job[j].state = "none"
  /\ pay[p].status # "NONE"
  /\ job' = [job EXCEPT ![j] =
       [state |-> "waiting", pay |-> p, left |-> MaxAttempts, stalled |-> FALSE]]
  /\ UNCHANGED <<selling, sale, pay, tokens, work, expiring>>

\* process, verifyPayment: the worker takes a job and reads the payment and
\* its sale.
TakeJob(j) ==
  /\ work.pc = "idle"
  /\ job[j].state = "waiting"
  /\ job' = [job EXCEPT ![j].state = "active"]
  /\ work' = [Idle EXCEPT !.pc = "verify", !.job = j,
                          !.pay = pay[job[j].pay].status,
                          !.sale = sale[pay[job[j].pay].sale].status]
  /\ UNCHANGED <<selling, sale, pay, tokens, expiring>>

\* Mutants: the last attempt is counted wrongly; attempts are not counted.
EndAttemptOneTooMany ==
  /\ job' = [job EXCEPT ![work.job].left = @ - 1,
                        ![work.job].state = IF job[work.job].left >= 0
                                            THEN "waiting" ELSE "failed"]
  /\ work' = Idle

EndAttemptUncounted ==
  /\ job' = [job EXCEPT ![work.job].state = "waiting"]
  /\ work' = Idle

\* An exception ends the attempt; the job waits for the next one, if any.
EndAttempt ==
  /\ job' = [job EXCEPT ![work.job].left = @ - 1,
                        ![work.job].state = IF job[work.job].left > 1
                                            THEN "waiting" ELSE "failed"]
  /\ work' = Idle

EndJob ==
  /\ job' = [job EXCEPT ![work.job].state = "done"]
  /\ work' = Idle

PaymentOf(j) == job[j].pay
SaleOf(j) == pay[PaymentOf(j)].sale

\* Mutant: a payment that is COMPLETED already is processed again.
VerifyAgain ==
  /\ work.pc = "verify"
  /\ pay' = [pay EXCEPT ![PaymentOf(work.job)].status = "COMPLETED"]
  /\ work' = [work EXCEPT !.pc = "load"]
  /\ UNCHANGED <<selling, sale, tokens, job, expiring>>

\* The gateway confirmed the transaction: the payment of a cancelled sale is
\* refunded and the job fails, any other becomes COMPLETED, once.
Verify ==
  /\ work.pc = "verify"
  /\ IF work.pay = "FAILED" /\ work.sale = "CANCELLED"
     THEN /\ pay' = [pay EXCEPT ![PaymentOf(work.job)].status = "REFUNDED"]
          /\ EndAttempt
     ELSE IF work.pay # "COMPLETED"
     THEN /\ pay' = [pay EXCEPT ![PaymentOf(work.job)].status = "COMPLETED"]
          /\ work' = [work EXCEPT !.pc = "load"]
          /\ UNCHANGED job
     ELSE EndJob /\ UNCHANGED pay
  /\ UNCHANGED <<selling, sale, tokens, expiring>>

\* handlePostPayment reads the sale ...
LoadSale ==
  /\ work.pc = "load"
  /\ LET row == sale[SaleOf(work.job)]
     IN work' = [work EXCEPT !.pc = "credit", !.paid = row.paid,
                             !.details = row.account /\ ~row.delivered]
  /\ UNCHANGED <<selling, sale, pay, tokens, job, expiring>>

\* Mutant: the status forgets the amount just paid.
CreditSaleBehind ==
  LET s == SaleOf(work.job)
  IN
  /\ work.pc = "credit"
  /\ sale' = [sale EXCEPT ![s].paid = @ + Due(s),
                          ![s].status = IF work.paid >= Price
                                        THEN "COMPLETED" ELSE "IN_INSTALLMENT"]
  /\ work' = [work EXCEPT !.pc = "token"]
  /\ UNCHANGED <<selling, pay, tokens, job, expiring>>

\* ... increments totalPaid, and derives the status from what it had read ...
CreditSale ==
  LET s == SaleOf(work.job)
  IN
  /\ work.pc = "credit"
  /\ sale' = [sale EXCEPT ![s].paid = @ + Due(s),
                          ![s].status = IF work.paid + Due(s) >= Price
                                        THEN "COMPLETED" ELSE "IN_INSTALLMENT"]
  /\ work' = [work EXCEPT !.pc = "token"]
  /\ UNCHANGED <<selling, pay, tokens, job, expiring>>

\* ... issues a token for every tokenable device and mails them ...
IssueTokens ==
  /\ work.pc = "token"
  /\ tokens' = [tokens EXCEPT ![SaleOf(work.job)] = @ + 1]
  /\ work' = [work EXCEPT !.pc = "deliver"]
  /\ UNCHANGED <<selling, sale, pay, job, expiring>>

\* ... and mails the account for the next installments, if it was not yet.
DeliverAccount ==
  /\ work.pc = "deliver"
  /\ sale' = [sale EXCEPT ![SaleOf(work.job)].delivered = @ \/ work.details]
  /\ EndJob
  /\ UNCHANGED <<selling, pay, tokens, expiring>>

\* The gateway does not confirm, or a read, a write or a mail fails.
FailAttempt ==
  /\ work.pc # "idle"
  /\ EndAttempt
  /\ UNCHANGED <<selling, sale, pay, tokens, expiring>>

-----------------------------------------------------------------------------
(* checkUnpaidSales, every six hours *)

Age(s) ==
  /\ sale[s].status # "NONE"
  /\ s \notin old
  /\ old' = old \cup {s}
  /\ UNCHANGED <<selling, sale, paying, cron, faults>>

\* Mutants: createdAt is compared the wrong way round; only the first
\* allocation of a sale is restored.
CronReadYoung(s) ==
  /\ cron = NoRun
  /\ sale[s].status = "UNPAID"
  /\ s \notin old
  /\ cron' = [sale |-> s, todo |-> {b \in Batch : sale[s].alloc[b] > 0}]
  /\ UNCHANGED <<selling, sale, paying, old, faults>>

CronRestoreFirst(b) ==
  /\ b \in cron.todo
  /\ remaining' = [remaining EXCEPT ![b] = @ + sale[cron.sale].alloc[b]]
  /\ restored' = [restored EXCEPT ![cron.sale][b] = @ + 1]
  /\ cron' = [cron EXCEPT !.todo = {}]
  /\ UNCHANGED <<sale, req, paying, old, faults>>

\* One read lists the sales; the first that has allocations is restored.
CronRead(s) ==
  /\ cron = NoRun
  /\ sale[s].status = "UNPAID"
  /\ s \in old
  /\ cron' = [sale |-> s, todo |-> {b \in Batch : sale[s].alloc[b] > 0}]
  /\ cron'.todo # {}
  /\ UNCHANGED <<selling, sale, paying, old, faults>>

\* One allocation after the other, outside a transaction.
CronRestore(b) ==
  /\ b \in cron.todo
  /\ remaining' = [remaining EXCEPT ![b] = @ + sale[cron.sale].alloc[b]]
  /\ restored' = [restored EXCEPT ![cron.sale][b] = @ + 1]
  /\ cron' = [cron EXCEPT !.todo = @ \ {b}]
  /\ UNCHANGED <<sale, req, paying, old, faults>>

\* The sale is cancelled without a look at its status.  Then the run updates
\* the payment whose id is that of the sale: there is none, so it throws and
\* the run is over.
CronCancel ==
  /\ cron # NoRun
  /\ cron.todo = {}
  /\ sale' = [sale EXCEPT ![cron.sale].status = "CANCELLED"]
  /\ cron' = NoRun
  /\ UNCHANGED <<selling, paying, old, faults>>

CronFail ==
  /\ cron # NoRun
  /\ faults < MaxFaults
  /\ faults' = faults + 1
  /\ cron' = NoRun
  /\ UNCHANGED <<selling, sale, paying, old>>

-----------------------------------------------------------------------------
\* The server restarts: requests and the cron run are gone.  The job it was
\* working on has stalled and is queued again, the first time.
Crash ==
  /\ faults < MaxFaults
  /\ faults' = faults + 1
  /\ req' = [s \in Sale |-> IF req[s].pc = "idle" THEN req[s] ELSE [pc |-> "done"]]
  /\ cron' = NoRun
  /\ work' = Idle
  /\ job' = [j \in Job |->
       IF job[j].state = "active"
       THEN [job[j] EXCEPT !.state = IF job[j].stalled THEN "failed" ELSE "waiting",
                           !.stalled = TRUE]
       ELSE job[j]]
  /\ UNCHANGED <<remaining, sale, pay, tokens, old, restored>>

\* Requests that only read, so the server never has to stop.
Browse == UNCHANGED vars

-----------------------------------------------------------------------------
SaleStep(s) ==
  \/ \E o \in Orders, m \in Modes : StartSale(s, o, m)
  \/ PriceItem(s)
  \/ CommitSale(s)
  \/ LinkContract(s)
  \/ CreateAccount(s)
  \/ \E p \in Payment : Bill(s, p) \/ BillAgain(s, p)
  \/ FailSale(s)

WorkerStep ==
  \/ \E j \in Job : TakeJob(j)
  \/ Verify
  \/ LoadSale
  \/ CreditSale
  \/ IssueTokens
  \/ DeliverAccount

CronStep ==
  \/ \E s \in Sale : CronRead(s)
  \/ \E b \in Batch : CronRestore(b)
  \/ CronCancel

Next ==
  \/ \E s \in Sale : SaleStep(s) \/ Age(s)
  \/ \E j \in Job, p \in Payment : Callback(j, p)
  \/ WorkerStep
  \/ FailAttempt
  \/ CronStep
  \/ CronFail
  \/ Crash
  \/ Browse

Spec == Init /\ [][Next]_vars

\* The worker takes jobs that wait and goes on with the one it has; the cron
\* job comes back every six hours.  No request is assumed to arrive.
FairSpec == Spec /\ WF_vars(WorkerStep) /\ WF_vars(CronStep)

-----------------------------------------------------------------------------
(* Correctness *)

SaleStatus == {"NONE", "UNPAID", "IN_INSTALLMENT", "COMPLETED", "CANCELLED"}
PayStatus == {"NONE", "PENDING", "COMPLETED", "FAILED", "REFUNDED"}

Mode == {"ONE_OFF", "INSTALLMENT"}

Row == [status : SaleStatus, mode : Mode, paid : Nat, alloc : Allocation,
        contract : BOOLEAN, account : BOOLEAN, delivered : BOOLEAN]
RequestState ==
  [pc : {"idle", "contract", "account", "bill", "done"}]
    \cup [pc : {"pricing"}, order : Orders, mode : Mode]
    \cup [pc : {"selling"}, mode : Mode, alloc : Allocation]
JobState ==
  [state : {"none"}]
    \cup [state : {"waiting", "active", "done", "failed"}, pay : Payment,
          left : 0..MaxAttempts, stalled : BOOLEAN]
WorkState ==
  [pc : {"idle", "verify", "load", "credit", "token", "deliver"},
   job : Job \cup {NoJob}, pay : PayStatus, sale : SaleStatus, paid : Nat,
   details : BOOLEAN]

\* Every variable stays in its domain.
TypeOK ==
  /\ remaining \in [Batch -> Int]
  /\ sale \in [Sale -> Row]
  /\ req \in [Sale -> RequestState]
  /\ pay \in [Payment -> [status : PayStatus, sale : Sale \cup {NoSale}]]
  /\ tokens \in [Sale -> Nat]
  /\ job \in [Job -> JobState]
  /\ work \in WorkState
  /\ old \subseteq Sale
  /\ cron \in [sale : Sale \cup {NoSale}, todo : SUBSET Batch]
  /\ restored \in [Sale -> [Batch -> Nat]]
  /\ faults \in 0..MaxFaults

Completed(s) == {p \in Payment : pay[p].sale = s /\ pay[p].status = "COMPLETED"}

\* The money of verified payments of sale s.
Verified(s) == Due(s) * Cardinality(Completed(s))

\* Money is counted once, and tokens are issued for money: however often the
\* callback comes and a job is retried or runs again after a restart, a sale
\* is credited at most once for each payment that was verified, and no more
\* sets of tokens are issued for it than payments were credited.
PaymentsCountOnce ==
  \A s \in Sale :
    /\ sale[s].paid <= Verified(s)
    /\ Due(s) * tokens[s] <= sale[s].paid

\* The sales, their payments and their tokens keep the promise of
\* PaymentPromise in every step: money is never uncredited, nor credited
\* beyond what is verified, a payment never changes its sale, and a price
\* never changes once a payment asks for it.
Promise == INSTANCE PaymentPromise WITH
  due <- [s \in Sale |-> Due(s)],
  asked <- [p \in Payment |-> pay[p].sale],
  confirmed <- {p \in Payment : pay[p].status = "COMPLETED"},
  credited <- [s \in Sale |-> sale[s].paid],
  issued <- tokens
PromiseSpec == Promise!Spec

\* The status of a sale agrees with totalPaid, although it is computed from
\* a totalPaid read in an earlier step than the increment.
StatusTellsPaid ==
  \A s \in Sale :
    /\ sale[s].status = "COMPLETED" => sale[s].paid >= Price
    /\ sale[s].status = "IN_INSTALLMENT" => sale[s].paid \in 1..(Price - 1)
    /\ sale[s].status = "UNPAID" => sale[s].paid = 0

\* "hence, all it's inventories were restored": when a sale is CANCELLED, each
\* of its allocations has gone back to its batch, across runs that failed or
\* were cut off by a restart.
CancelledIsRestored ==
  \A s \in Sale : sale[s].status = "CANCELLED" =>
    \A b \in Batch : sale[s].alloc[b] > 0 => restored[s][b] > 0

\* What makes the properties above inductive: a row refers to rows that exist,
\* a sale that is still to be committed has no money, no tokens and no cron
\* run, a job that can run has an attempt left, what the worker read is still
\* so and the payment it goes on with is verified but not yet credited, and a
\* cron run has restored what it no longer has to do.
RowsExist ==
  /\ \A p \in Payment :
       IF pay[p].status = "NONE" THEN pay[p].sale = NoSale
       ELSE pay[p].sale \in Sale /\ sale[pay[p].sale].status # "NONE"
  /\ \A j \in Job : job[j].state # "none" => pay[job[j].pay].status # "NONE"
  /\ cron # NoRun => cron.sale \in Sale /\ sale[cron.sale].status # "NONE"

FreshSales ==
  \A s \in Sale :
    /\ req[s].pc \in {"idle", "pricing", "selling"} => sale[s].status = "NONE"
    /\ req[s].pc \in {"contract", "account", "bill"} => sale[s].status # "NONE"
    /\ sale[s].status = "NONE" => sale[s].paid = 0 /\ tokens[s] = 0

JobsHaveAttempts ==
  /\ \A j \in Job : job[j].state \in {"waiting", "active"} => job[j].left > 0
  /\ work.pc # "idle" => work.job \in Job /\ job[work.job].state = "active"

WorkerKnows ==
  work.pc # "idle" =>
    LET s == SaleOf(work.job)
    IN /\ work.pc = "verify" => work.pay = pay[PaymentOf(work.job)].status
       /\ work.pc \in {"load", "credit"} => sale[s].paid + Due(s) <= Verified(s)
       /\ work.pc = "credit" => work.paid = sale[s].paid
       /\ work.pc = "token" => Due(s) * tokens[s] + Due(s) <= sale[s].paid

CronHasRestored ==
  cron # NoRun =>
    \A b \in Batch : sale[cron.sale].alloc[b] > 0 =>
      b \in cron.todo \/ restored[cron.sale][b] > 0

SaleInv ==
  /\ TypeOK
  /\ RowsExist
  /\ FreshSales
  /\ JobsHaveAttempts
  /\ WorkerKnows
  /\ CronHasRestored
  /\ PaymentsCountOnce
  /\ StatusTellsPaid
  /\ CancelledIsRestored

\* A sale does not stay unpaid for ever, although every run of the cron job
\* ends in an exception after the first sale it cancels.
UnpaidSettles ==
  \A s \in Sale : (s \in old /\ sale[s].status = "UNPAID") ~> (sale[s].status # "UNPAID")

\* A job of the payment queue does not wait for ever: it is done, or failed
\* after its attempts.
JobsEnd ==
  \A j \in Job : (job[j].state = "waiting") ~> (job[j].state \in {"done", "failed"})

-----------------------------------------------------------------------------
(* What messages and comments of the source say and the code does not keep *)

\* "This sale is cancelled already. Refund Initialised!": a payment verified
\* for a CANCELLED sale does not bring the sale back.
LatePaymentRefunded ==
  [][\A s \in Sale : sale[s].status = "CANCELLED" => sale'[s].status = "CANCELLED"]_vars

\* "Rethrow to trigger retry", then "Payment verified": when the job of a
\* payment is done and no other is in progress, every verified payment of its
\* sale has been credited.
VerifiedIsCredited ==
  \A j \in Job : job[j].state = "done" /\ work.pc = "idle" =>
    sale[SaleOf(j)].paid = Verified(SaleOf(j))
=============================================================================

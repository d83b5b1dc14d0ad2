-------------------------------- MODULE Devices --------------------------------
(***************************************************************************)
(* Devices and the tokens that unlock them: device.service.ts with its two *)
(* queues (CSV uploads and token jobs, one job of each at a time) and the  *)
(* tokens a payment issues (payment.service.ts).  All of them move the     *)
(* count of a device, from which the next token is computed.               *)
(***************************************************************************)
EXTENDS Requests, Sequences, Integers

CONSTANTS
  Serial,       \* serial numbers
  Code,         \* key, starting code, time divider and digit mode of a device, in one
  GivenCount,   \* counts a device is entered with, or is given by hand
  Days          \* durations a token is asked for

VARIABLES
  devices,    \* the device rows, in the order they were created: an id is a place
  tokens,     \* the token rows, in the order they were created
  sent,       \* tokens given to somebody, in this order
  corrected   \* ids of devices whose count was changed by hand

tables == <<devices, tokens, sent, corrected>>
vars == <<tables, req, started, overlap>>

DeviceRow == [serial : Serial, code : Code, count : Nat, tokenable : BOOLEAN, there : BOOLEAN]
NewDevice(d, code, count, tokenable) ==
  [serial |-> d, code |-> code, count |-> count, tokenable |-> tokenable, there |-> TRUE]

Forever == -1
InitialNumberOfDays == 30

\* A count that is given is not negative, and days are whole.
Given == GivenCount \cap Nat
Durations == Days \cap Int

\* What the digits of a token are computed from: the device, the count and the
\* duration.  The row names its device, or none (0).
TokenString == Code \X Nat \X Int
TokenRow == [token : TokenString, device : Nat]

Op == {"idle", "create", "update", "delete", "job", "payment", "upload"}
At == {"idle", "find", "write", "read", "count", "row", "send", "rows"}
Request == [op : Op, at : At, serial : SUBSET Serial, tokenable : BOOLEAN,
            id : Nat, duration : Int, code : Code, n : Nat]
Idle == [op |-> "idle", at |-> "idle", serial |-> {}, tokenable |-> FALSE,
         id |-> 0, duration |-> Forever, code |-> CHOOSE c \in Code : TRUE, n |-> 0]

Init ==
  /\ \E d \in Serial, code \in Code, count \in Given :
       devices = <<NewDevice(d, code, count, TRUE)>>
  /\ tokens = <<>>
  /\ sent = <<>>
  /\ corrected = {}
  /\ InitRequests(Idle)

-----------------------------------------------------------------------------
(* Requests and jobs *)

Begin(s, request) ==
  /\ Accept(s, request)
  /\ UNCHANGED tables

\* A queue has one worker.
QueueIsFree(op) == \A s \in Slot : req[s].op # op

Finish(s) == Set(s, Idle)
Refuse(s) == Finish(s) /\ UNCHANGED tables

\* The devices a request or a job can name.
Devices == {d \in DOMAIN devices : devices[d].there}

\* device.controller.ts; a file and a token become jobs.
AskCreateDevice(s) ==
  \E d \in Serial, tokenable \in BOOLEAN :
    Begin(s, [Idle EXCEPT !.op = "create", !.at = "find", !.serial = {d},
                          !.tokenable = tokenable])
AskUpdateDevice(s) ==
  \E d \in Devices : Begin(s, [Idle EXCEPT !.op = "update", !.at = "find", !.id = d])
AskDeleteDevice(s) ==
  \E d \in Devices : Begin(s, [Idle EXCEPT !.op = "delete", !.at = "find", !.id = d])
TokenJob(s) ==
  \E d \in Devices, duration \in Durations \cup {Forever} :
    /\ QueueIsFree("job")
    /\ Begin(s, [Idle EXCEPT !.op = "job", !.at = "find", !.id = d, !.duration = duration])
UploadJob(s) ==
  \E file \in SUBSET Serial \ {{}}, tokenable \in BOOLEAN :
    /\ QueueIsFree("upload")
    /\ Begin(s, [Idle EXCEPT !.op = "upload", !.at = "rows", !.serial = file,
                             !.tokenable = tokenable])

\* A payment of a sale with the device, in one or by instalments.
PaymentJob(s) ==
  \E d \in Devices, duration \in {Forever, InitialNumberOfDays} :
    /\ QueueIsFree("payment")
    /\ Begin(s, [Idle EXCEPT !.op = "payment", !.at = "read", !.id = d, !.duration = duration])

Start(s) ==
  AskCreateDevice(s) \/ AskUpdateDevice(s) \/ AskDeleteDevice(s)
  \/ TokenJob(s) \/ UploadJob(s) \/ PaymentJob(s)

\* An error or a restart; the jobs of these two queues have one attempt.
Fail(s) == req[s] # Idle /\ Refuse(s)

\* The row the request is about is there.
Present(s) == devices[req[s].id].there

\* @@unique([serialNumber, tenantId]): a row has this serial number.
Taken(d) == \E i \in Devices : devices[i].serial = d

-----------------------------------------------------------------------------
(* device.service.ts: the rows *)

CreateDeviceFind(s) ==
  \E d \in req[s].serial :
    /\ Running(s, "create", "find")
    /\ IF Taken(d) THEN Refuse(s) ELSE Goto(s, "write") /\ UNCHANGED tables

\* A row with the serial number d, and what else came with it.
AddDevice(s, d) ==
  \E code \in Code, count \in Given :
    /\ devices' = Append(devices, NewDevice(d, code, count, req[s].tokenable))
    /\ UNCHANGED <<tokens, sent, corrected>>

CreateDevice(s) ==
  \E d \in req[s].serial :
    /\ Running(s, "create", "write")
    /\ IF Taken(d) THEN Refuse(s) ELSE AddDevice(s, d) /\ Finish(s)

\* validateDeviceExistsAndReturn.
ValidateDevice(s) ==
  /\ Running(s, "update", "find") \/ Running(s, "delete", "find")
  /\ IF ~Present(s) THEN Refuse(s) ELSE Goto(s, "write") /\ UNCHANGED tables

\* What the columns of a row may be after an update: each is given or left out.
Updated(row) ==
  [serial : Serial, code : Code, count : Given \cup {row.count},
   tokenable : BOOLEAN, there : {TRUE}]

\* updateDevice takes every column, the serial number and the count, too.
UpdateDevice(s) ==
  LET d == req[s].id
  IN
  /\ Running(s, "update", "write")
  /\ \/ ~Present(s) /\ Refuse(s)
     \/ \E row \in Updated(devices[d]) :
          /\ Present(s)
          /\ IF row.serial # devices[d].serial /\ Taken(row.serial) THEN Refuse(s)
             ELSE /\ devices' = [devices EXCEPT ![d] = row]
                  /\ corrected' = IF row.count = devices[d].count THEN corrected
                                  ELSE corrected \cup {d}
                  /\ Finish(s)
                  /\ UNCHANGED <<tokens, sent>>

\* The token rows stay, without their device.
DeleteDevice(s) ==
  LET d == req[s].id
  IN
  /\ Running(s, "delete", "write")
  /\ IF ~Present(s) THEN Refuse(s)
     ELSE /\ devices' = [devices EXCEPT ![d].there = FALSE]
          /\ tokens' = [i \in DOMAIN tokens |->
                          IF tokens[i].device = d THEN [tokens[i] EXCEPT !.device = 0]
                          ELSE tokens[i]]
          /\ Finish(s)
          /\ UNCHANGED <<sent, corrected>>

-----------------------------------------------------------------------------
(* Tokens *)

\* openpaygo: the next count whose parity is that of the kind, even to add
\* days and odd to unlock.
NextCount(count, duration) ==
  LET odd == count % 2 = 1
  IN IF (duration = Forever) = odd THEN count + 2 ELSE count + 1

\* generateToken looks whether there is a device ...
JobFind(s) ==
  /\ Running(s, "job", "find")
  /\ IF ~Present(s) THEN Refuse(s) ELSE Goto(s, "read") /\ UNCHANGED tables

\* The token is computed from the device as it is read; a device that takes no
\* tokens is refused, or passed over.
ReadDevice(s) ==
  LET device == devices[req[s].id]
  IN
  /\ req[s].at = "read"
  /\ IF ~device.there \/ ~device.tokenable THEN Refuse(s)
     ELSE /\ Set(s, [req[s] EXCEPT !.at = "count", !.code = device.code,
                                   !.n = NextCount(device.count, req[s].duration)])
          /\ UNCHANGED tables

\* ... generateSingleDeviceToken reads it again, and handlePostPayment reads
\* the devices of the sale.
JobRead(s) == req[s].op = "job" /\ ReadDevice(s)
PaymentRead(s) == req[s].op = "payment" /\ ReadDevice(s)

\* The count comes before the row.
WriteCount(s) ==
  /\ req[s].at = "count"
  /\ IF ~Present(s) THEN Refuse(s)
     ELSE /\ devices' = [devices EXCEPT ![req[s].id].count = req[s].n]
          /\ Goto(s, "row")
          /\ UNCHANGED <<tokens, sent, corrected>>

JobCount(s) == req[s].op = "job" /\ WriteCount(s)
PaymentCount(s) == req[s].op = "payment" /\ WriteCount(s)

Token(s) == <<req[s].code, req[s].n, req[s].duration>>
Issued(token) == \E i \in DOMAIN tokens : tokens[i].token = token

\* Mutant: a token may be issued again.
AddTokenAgain(s) ==
  /\ req[s].at = "row"
  /\ tokens' = Append(tokens, [token |-> Token(s), device |-> req[s].id])
  /\ Goto(s, "send")
  /\ UNCHANGED <<devices, sent, corrected>>

\* @@unique([token, tenantId]); whether the device is still there is not looked at.
AddToken(s) ==
  /\ req[s].at = "row"
  /\ IF Issued(Token(s)) THEN Refuse(s)
     ELSE /\ tokens' = Append(tokens, [token |-> Token(s), device |-> req[s].id])
          /\ Goto(s, "send")
          /\ UNCHANGED <<devices, sent, corrected>>

JobRow(s) == req[s].op = "job" /\ AddToken(s)
PaymentRow(s) == req[s].op = "payment" /\ AddToken(s)

\* The token goes to the recipient of the sale and to the user who asked.
Send(s) ==
  /\ req[s].at = "send"
  /\ sent' = Append(sent, Token(s))
  /\ Finish(s)
  /\ UNCHANGED <<devices, tokens, corrected>>

JobSend(s) == req[s].op = "job" /\ Send(s)
PaymentSend(s) == req[s].op = "payment" /\ Send(s)

-----------------------------------------------------------------------------
(* handleDeviceUpload *)

\* Mutant: the count of a row that is there is overwritten.
UpsertOver(s) ==
  \E d \in req[s].serial :
    /\ Running(s, "upload", "rows")
    /\ \/ \E i \in Devices, count \in Given :
             /\ devices[i].serial = d
             /\ devices' = [devices EXCEPT ![i].count = count]
             /\ UNCHANGED <<tokens, sent, corrected>>
       \/ ~Taken(d) /\ AddDevice(s, d)
    /\ Set(s, [req[s] EXCEPT !.serial = @ \ {d}])

\* The rows of a file are upserted in any order; a row that is there stays as
\* it is (update: {}).
Upsert(s) ==
  \E d \in req[s].serial :
    /\ Running(s, "upload", "rows")
    /\ IF Taken(d) THEN UNCHANGED tables ELSE AddDevice(s, d)
    /\ Set(s, [req[s] EXCEPT !.serial = @ \ {d}])

UploadEnd(s) ==
  /\ Running(s, "upload", "rows")
  /\ req[s].serial = {}
  /\ Refuse(s)

-----------------------------------------------------------------------------
Step(s) ==
  CreateDeviceFind(s) \/ CreateDevice(s) \/ ValidateDevice(s) \/ UpdateDevice(s)
  \/ DeleteDevice(s) \/ JobFind(s) \/ JobRead(s) \/ JobCount(s) \/ JobRow(s) \/ JobSend(s)
  \/ PaymentRead(s) \/ PaymentCount(s) \/ PaymentRow(s) \/ PaymentSend(s)
  \/ Upsert(s) \/ UploadEnd(s)

Next == \E s \in Slot : Start(s) \/ Fail(s) \/ Step(s)

Spec == Init /\ [][Next]_vars

-----------------------------------------------------------------------------
(* Correctness *)

\* Every table and every request keeps its shape.
TypeOK ==
  /\ devices \in Seq(DeviceRow)
  /\ tokens \in Seq(TokenRow)
  /\ sent \in Seq(TokenString)
  /\ corrected \subseteq Nat
  /\ RequestsOK(Request)

\* The count of a device is at or past that of every token it has, so that the
\* next one is new: through failures between count and row, uploads of a file
\* that names it again, updates of everything else and deletions, as long as
\* no two requests overlap and nobody changes the count.
CountCoversTokens ==
  ~overlap => \A d \in Devices \ corrected, i \in DOMAIN tokens :
    tokens[i].device = d => tokens[i].token[2] <= devices[d].count

\* Nobody gets a token that was given out before: not when a job and a payment
\* read the same count and mean the same duration, not for a device that is
\* deleted and comes back, not after its count was changed.
TokensSentOnce == \A i, j \in DOMAIN sent : i # j => sent[i] # sent[j]

-----------------------------------------------------------------------------
(* Why: what the requests know of the tables *)

\* A request that is about a device names one, there or not.
RequestsName ==
  \A s \in Slot :
    req[s].op \in {"update", "delete", "job", "payment"} => req[s].id \in DOMAIN devices

TypeInv == TypeOK /\ RequestsName

\* What is sent is a row, what is about to be sent is one too, and rows are
\* unique: so a token is at one place only between its row and its recipient.
Sending(s) == req[s].at = "send"
SentAreRows == \A i \in DOMAIN sent : Issued(sent[i])
SendingIsNew ==
  \A s \in Slot : Sending(s) => Issued(Token(s)) /\ \A i \in DOMAIN sent : sent[i] # Token(s)
SendingApart == \A s, o \in Slot : s # o /\ Sending(s) /\ Sending(o) => Token(s) # Token(o)
SentInv == TypeInv /\ SentAreRows /\ SendingIsNew /\ SendingApart /\ TokensSentOnce

\* A token is of a device that was created, or of none.
TokensKnown == \A i \in DOMAIN tokens : tokens[i].device <= Len(devices)

\* Without an overlap the count a request has computed is ahead of the device
\* it has read, and not ahead of the one it has written.
CountIsNext ==
  ~overlap => \A s \in Slot :
    /\ Busy(s) /\ req[s].at = "count" => devices[req[s].id].count <= req[s].n
    /\ Busy(s) /\ req[s].at = "row" => req[s].n <= devices[req[s].id].count
CountInv == TypeInv /\ TokensKnown /\ Alone /\ CountIsNext /\ CountCoversTokens
=============================================================================

----------------------------- MODULE DevicesProofs -----------------------------
(***************************************************************************)
(* Proofs about Devices: every table keeps its shape, nobody gets a token  *)
(* twice, and the count of a device covers its tokens, for any serial      *)
(* numbers, counts, durations, slots and numbers of requests.              *)
(***************************************************************************)
EXTENDS Devices, SequenceTheorems, TLAPS

-----------------------------------------------------------------------------
(* Requests *)

\* The tables, without the requests.
TablesOK ==
  /\ devices \in Seq(DeviceRow)
  /\ tokens \in Seq(TokenRow)
  /\ sent \in Seq(TokenString)
  /\ corrected \subseteq Nat

\* The request r names a device if it is about one.
Names(r) == r.op \in {"update", "delete", "job", "payment"} => r.id \in DOMAIN devices

\* The request of slot s becomes r.
Becomes(s, r) == req' = [req EXCEPT ![s] = r] /\ UNCHANGED <<started, overlap>>

\* What TypeInv says of the tables and of the request in a slot.
LEMMA TypeFacts ==
  ASSUME TypeInv, NEW s \in Slot
  PROVE  /\ TablesOK
         /\ req \in [Slot -> Request] /\ req[s] \in Request /\ Names(req[s])
         /\ started \in Nat /\ overlap \in BOOLEAN
BY DEF TypeInv, TypeOK, RequestsOK, TablesOK, RequestsName, Names

\* What is known of a device.
LEMMA RowFacts ==
  ASSUME TablesOK, NEW d \in DOMAIN devices
  PROVE  devices[d] \in DeviceRow /\ d \in Nat \ {0} /\ d <= Len(devices)
BY ElementOfSeq, LenProperties DEF TablesOK

\* A step of the request in slot s; no device leaves the table.
LEMMA Served ==
  ASSUME TypeInv, NEW s \in Slot, NEW r \in Request, Names(r), TablesOK',
         DOMAIN devices \subseteq DOMAIN devices',
         req' = [req EXCEPT ![s] = r], started' \in Nat, overlap' \in BOOLEAN
  PROVE  TypeInv'
<1>1. req \in [Slot -> Request] /\ RequestsName BY DEF TypeInv, TypeOK, RequestsOK
<1>2. req' \in [Slot -> Request] BY <1>1
<1>3. TypeOK' BY <1>2 DEF TypeOK, TablesOK, RequestsOK
<1>4. RequestsName' BY <1>1 DEF RequestsName, Names
<1> QED BY <1>3, <1>4 DEF TypeInv

LEMMA TypeBecomes ==
  ASSUME TypeInv, NEW s \in Slot, NEW r \in Request, Names(r), TablesOK',
         DOMAIN devices \subseteq DOMAIN devices', Becomes(s, r)
  PROVE  TypeInv'
<1>1. started \in Nat /\ overlap \in BOOLEAN BY TypeFacts
<1> QED BY <1>1, Served DEF Becomes

LEMMA IdleIsRequest ==
  ASSUME NEW code \in Code
  PROVE  Idle \in Request /\ Names(Idle)
<1>1. (CHOOSE c \in Code : TRUE) \in Code OBVIOUS
<1> QED BY <1>1 DEF Idle, Request, Op, At, Names, Forever

LEMMA IdleFacts ==
  ASSUME TypeInv, NEW s \in Slot
  PROVE  Idle \in Request /\ Names(Idle)
<1>1. req[s].code \in Code BY TypeFacts DEF Request
<1> QED BY <1>1, IdleIsRequest

LEMMA TypeEnds ==
  ASSUME TypeInv, NEW s \in Slot, Finish(s), TablesOK', DOMAIN devices \subseteq DOMAIN devices'
  PROVE  TypeInv'
BY IdleFacts, TypeBecomes DEF Finish, Set, Becomes

LEMMA TypeRefused ==
  ASSUME TypeInv, NEW s \in Slot, Refuse(s)
  PROVE  TypeInv'
<1>1. TablesOK' /\ devices' = devices BY TypeFacts DEF TablesOK, Refuse, tables
<1> QED BY <1>1, TypeEnds DEF Refuse

\* A request that goes on to step a.
LEMMA TypeGoes ==
  ASSUME TypeInv, NEW s \in Slot, NEW a \in At, Goto(s, a), TablesOK',
         DOMAIN devices \subseteq DOMAIN devices'
  PROVE  TypeInv'
<1> DEFINE r == [req[s] EXCEPT !.at = a]
<1>1. r \in Request /\ Names(r) BY TypeFacts DEF Request, Names
<1>2. Becomes(s, r) BY DEF Goto, Set, Becomes
<1> QED BY <1>1, <1>2, TypeBecomes

LEMMA TypeAccepted ==
  ASSUME TypeInv, NEW s \in Slot, NEW r \in Request, Begin(s, r), Names(r)
  PROVE  TypeInv'
<1>1. TablesOK /\ started \in Nat /\ overlap \in BOOLEAN BY TypeFacts
<1>2. /\ req' = [req EXCEPT ![s] = r] /\ started' = started + 1 /\ UNCHANGED tables
      /\ overlap' \in BOOLEAN
  BY <1>1 DEF Begin, Accept
<1>3. TablesOK' /\ devices' = devices BY <1>1, <1>2 DEF TablesOK, tables
<1>4. started' \in Nat BY <1>1, <1>2
<1> QED BY <1>2, <1>3, <1>4, Served

\* What a request is when it arrives.
Fresh(r) == r \in Request /\ Names(r) /\ r.at \in {"find", "read", "rows"}

LEMMA Starts ==
  ASSUME TypeInv, NEW s \in Slot, Start(s)
  PROVE  \E r : Fresh(r) /\ Begin(s, r)
<1> DEFINE rows(op, at, file, tokenable) ==
             [Idle EXCEPT !.op = op, !.at = at, !.serial = file, !.tokenable = tokenable]
           about(op, at, d) == [Idle EXCEPT !.op = op, !.at = at, !.id = d]
           timed(op, at, d, duration) ==
             [Idle EXCEPT !.op = op, !.at = at, !.id = d, !.duration = duration]
<1>1. Idle \in Request BY IdleFacts
<1>2. \A d \in Devices : d \in DOMAIN devices /\ d \in Nat
  BY TypeFacts, RowFacts DEF Devices
<1>3. ASSUME NEW op \in {"create", "upload"}, NEW at \in {"find", "rows"},
             NEW file \in SUBSET Serial, NEW tokenable \in BOOLEAN
      PROVE  Fresh(rows(op, at, file, tokenable))
  BY <1>1 DEF Fresh, Request, Op, At, Names
<1>4. ASSUME NEW op \in {"update", "delete"}, NEW d \in Devices
      PROVE  Fresh(about(op, "find", d))
  BY <1>1, <1>2 DEF Fresh, Request, Op, At, Names
<1>5. ASSUME NEW op \in {"job", "payment"}, NEW at \in {"find", "read"}, NEW d \in Devices,
             NEW duration \in Int
      PROVE  Fresh(timed(op, at, d, duration))
  BY <1>1, <1>2 DEF Fresh, Request, Op, At, Names
<1>6. CASE AskCreateDevice(s)
  <2>1. PICK d \in Serial, tokenable \in BOOLEAN :
          Begin(s, rows("create", "find", {d}, tokenable))
    BY <1>6 DEF AskCreateDevice
  <2>2. {d} \in SUBSET Serial OBVIOUS
  <2> HIDE DEF rows
  <2> QED BY <1>3, <2>1, <2>2
<1>7. CASE AskUpdateDevice(s) \/ AskDeleteDevice(s)
  <2>1. PICK d \in Devices, op \in {"update", "delete"} : Begin(s, about(op, "find", d))
    BY <1>7 DEF AskUpdateDevice, AskDeleteDevice
  <2> HIDE DEF about
  <2> QED BY <1>4, <2>1
<1>8. CASE TokenJob(s)
  <2>1. PICK d \in Devices, duration \in Durations \cup {Forever} :
          Begin(s, timed("job", "find", d, duration))
    BY <1>8 DEF TokenJob
  <2>2. duration \in Int BY DEF Durations, Forever
  <2> HIDE DEF timed
  <2> QED BY <1>5, <2>1, <2>2
<1>9. CASE UploadJob(s)
  <2>1. PICK file \in SUBSET Serial \ {{}}, tokenable \in BOOLEAN :
          Begin(s, rows("upload", "rows", file, tokenable))
    BY <1>9 DEF UploadJob
  <2> HIDE DEF rows
  <2> QED BY <1>3, <2>1
<1>10. CASE PaymentJob(s)
  <2>1. PICK d \in Devices, duration \in {Forever, InitialNumberOfDays} :
          Begin(s, timed("payment", "read", d, duration))
    BY <1>10 DEF PaymentJob
  <2>2. duration \in Int BY DEF Forever, InitialNumberOfDays
  <2> HIDE DEF timed
  <2> QED BY <1>5, <2>1, <2>2
<1> QED BY <1>6, <1>7, <1>8, <1>9, <1>10 DEF Start

LEMMA TypeStart ==
  ASSUME TypeInv, NEW s \in Slot, Start(s)
  PROVE  TypeInv'
BY Starts, TypeAccepted DEF Fresh

-----------------------------------------------------------------------------
(* The steps of a request *)

\* The device a request is about.
LEMMA DeviceNamed ==
  ASSUME TypeInv, NEW s \in Slot, req[s].op \in {"update", "delete", "job", "payment"}
  PROVE  /\ req[s].id \in DOMAIN devices /\ devices[req[s].id] \in DeviceRow
         /\ req[s].id \in Nat \ {0} /\ req[s].id <= Len(devices)
<1>1. req[s].id \in DOMAIN devices /\ TablesOK BY TypeFacts DEF Names
<1> QED BY <1>1, RowFacts

LEMMA NextCountGrows ==
  ASSUME NEW count \in Nat, NEW duration
  PROVE  NextCount(count, duration) \in Nat /\ count <= NextCount(count, duration)
BY DEF NextCount

\* A step that leaves the tables alone: it refuses, goes on, or has computed
\* the next token.
ReadStep(s) ==
  \/ CreateDeviceFind(s) \/ ValidateDevice(s) \/ JobFind(s) \/ JobRead(s) \/ PaymentRead(s)
  \/ UploadEnd(s)

\* The request of slot s, once it has computed its token.
Counted(s) ==
  [req[s] EXCEPT !.at = "count", !.code = devices[req[s].id].code,
                 !.n = NextCount(devices[req[s].id].count, req[s].duration)]

LEMMA Reads ==
  ASSUME TypeInv, NEW s \in Slot, ReadStep(s)
  PROVE  /\ UNCHANGED tables /\ req[s].op # "idle"
         /\ \/ Finish(s)
            \/ Goto(s, "write")
            \/ Goto(s, "read")
            \/ req[s].op \in {"job", "payment"} /\ Becomes(s, Counted(s))
<1>1. CASE CreateDeviceFind(s) BY <1>1 DEF CreateDeviceFind, Refuse, Running
<1>2. CASE ValidateDevice(s) BY <1>2 DEF ValidateDevice, Refuse, Running
<1>3. CASE JobFind(s) BY <1>3 DEF JobFind, Refuse, Running
<1>4. CASE JobRead(s) \/ PaymentRead(s)
  BY <1>4 DEF JobRead, PaymentRead, ReadDevice, Refuse, Counted, Set, Becomes
<1>5. CASE UploadEnd(s) BY <1>5 DEF UploadEnd, Refuse, Running
<1> QED BY <1>1, <1>2, <1>3, <1>4, <1>5 DEF ReadStep

LEMMA TypeReads ==
  ASSUME TypeInv, NEW s \in Slot, ReadStep(s)
  PROVE  TypeInv'
<1>1. TablesOK /\ req[s] \in Request /\ Names(req[s]) BY TypeFacts
<1>2. TablesOK' /\ devices' = devices BY <1>1, Reads DEF TablesOK, tables
<1>3. CASE Finish(s) BY <1>2, <1>3, TypeEnds
<1>4. CASE Goto(s, "write") \/ Goto(s, "read")
  <2>1. {"write", "read"} \subseteq At BY DEF At
  <2> QED BY <1>2, <1>4, <2>1, TypeGoes
<1>5. CASE req[s].op \in {"job", "payment"} /\ Becomes(s, Counted(s))
  <2>1. devices[req[s].id].count \in Nat /\ devices[req[s].id].code \in Code
    BY <1>5, DeviceNamed DEF DeviceRow
  <2>2. Counted(s) \in Request /\ Names(Counted(s))
    BY <1>1, <2>1, NextCountGrows DEF Counted, Request, At, Names
  <2> QED BY <1>2, <1>5, <2>2, TypeBecomes
<1> QED BY <1>3, <1>4, <1>5, Reads

\* A row of devices is replaced.
LEMMA DeviceWritten ==
  ASSUME TypeInv, NEW d \in DOMAIN devices, NEW row \in DeviceRow, NEW s \in Slot,
         devices' = [devices EXCEPT ![d] = row]
  PROVE  /\ devices' \in Seq(DeviceRow) /\ DOMAIN devices' = DOMAIN devices
         /\ Len(devices') = Len(devices) /\ devices'[d] = row
         /\ \A e \in DOMAIN devices \ {d} : devices'[e] = devices[e]
<1>1. devices \in Seq(DeviceRow) BY TypeFacts DEF TablesOK
<1>2. DOMAIN devices = 1..Len(devices) /\ Len(devices) \in Nat BY <1>1, LenProperties
<1>3. devices' \in Seq(DeviceRow) /\ Len(devices') = Len(devices)
  BY <1>1, <1>2, ExceptSeq
<1> QED BY <1>1, <1>2, <1>3

\* A device that is created gets an id nothing has.
Creates(row) ==
  /\ row \in DeviceRow
  /\ devices' = Append(devices, row)
  /\ UNCHANGED <<tokens, sent, corrected>>

LEMMA TypeCreates ==
  ASSUME TypeInv, NEW s \in Slot, NEW row, Creates(row)
  PROVE  /\ TablesOK' /\ DOMAIN devices \subseteq DOMAIN devices'
         /\ DOMAIN devices' = DOMAIN devices \cup {Len(devices) + 1}
         /\ Len(devices') = Len(devices) + 1 /\ devices'[Len(devices) + 1] = row
         /\ \A d \in DOMAIN devices : devices'[d] = devices[d]
<1>1. TablesOK /\ devices \in Seq(DeviceRow) /\ row \in DeviceRow
  BY TypeFacts DEF TablesOK, Creates
<1>2. devices' \in Seq(DeviceRow) /\ Len(devices') = Len(devices) + 1
  BY <1>1, AppendProperties DEF Creates
<1>3. Len(devices) \in Nat /\ DOMAIN devices = 1..Len(devices) /\ DOMAIN devices' = 1..Len(devices')
  BY <1>1, <1>2, LenProperties
<1>4. devices'[Len(devices) + 1] = row /\ \A d \in DOMAIN devices : devices'[d] = devices[d]
  BY <1>1, <1>3, AppendProperties DEF Creates
<1>5. TablesOK' BY <1>1, <1>2 DEF TablesOK, Creates
<1> QED BY <1>2, <1>3, <1>4, <1>5

LEMMA AddDeviceDoes ==
  ASSUME TypeInv, NEW s \in Slot, NEW d \in req[s].serial, AddDevice(s, d)
  PROVE  \E row : Creates(row)
<1>1. PICK code \in Code, count \in Given :
        /\ devices' = Append(devices, NewDevice(d, code, count, req[s].tokenable))
        /\ UNCHANGED <<tokens, sent, corrected>>
  BY DEF AddDevice
<1>2. NewDevice(d, code, count, req[s].tokenable) \in DeviceRow
  BY TypeFacts DEF Given, NewDevice, DeviceRow, Request
<1> HIDE DEF NewDevice
<1> QED BY <1>1, <1>2 DEF Creates

LEMMA CreateDeviceDoes ==
  ASSUME TypeInv, NEW s \in Slot, CreateDevice(s), ~Refuse(s)
  PROVE  (\E row : Creates(row)) /\ Finish(s) /\ req[s].op = "create"
<1>1. PICK d \in req[s].serial : AddDevice(s, d) /\ Finish(s) /\ Running(s, "create", "write")
  BY DEF CreateDevice
<1> QED BY <1>1, AddDeviceDoes DEF Running

LEMMA UpsertDoes ==
  ASSUME TypeInv, NEW s \in Slot, Upsert(s)
  PROVE  \E d \in req[s].serial :
           /\ req[s].op = "upload" /\ req[s].at = "rows"
           /\ Becomes(s, [req[s] EXCEPT !.serial = @ \ {d}])
           /\ (\E row : Creates(row)) \/ UNCHANGED tables
<1>1. PICK d \in req[s].serial :
        /\ Running(s, "upload", "rows")
        /\ IF Taken(d) THEN UNCHANGED tables ELSE AddDevice(s, d)
        /\ Set(s, [req[s] EXCEPT !.serial = @ \ {d}])
  BY DEF Upsert
<1>2. (\E row : Creates(row)) \/ UNCHANGED tables BY <1>1, AddDeviceDoes
<1> QED BY <1>1, <1>2 DEF Running, Set, Becomes

\* createDevice and handleDeviceUpload.
LEMMA TypeCreate ==
  ASSUME TypeInv, NEW s \in Slot, CreateDevice(s) \/ Upsert(s)
  PROVE  TypeInv'
<1>1. TablesOK /\ req[s] \in Request /\ Names(req[s]) BY TypeFacts
<1>2. CASE Refuse(s) BY <1>2, TypeRefused
<1>3. CASE CreateDevice(s) /\ ~Refuse(s)
  BY <1>3, CreateDeviceDoes, TypeCreates, TypeEnds
<1>4. CASE Upsert(s)
  <2>1. PICK d \in req[s].serial :
          /\ req[s].op = "upload" /\ req[s].at = "rows"
          /\ Becomes(s, [req[s] EXCEPT !.serial = @ \ {d}])
          /\ (\E row : Creates(row)) \/ UNCHANGED tables
    BY <1>4, UpsertDoes
  <2>2. TablesOK' /\ DOMAIN devices \subseteq DOMAIN devices'
    BY <1>1, <2>1, TypeCreates DEF TablesOK, tables
  <2>3. /\ [req[s] EXCEPT !.serial = @ \ {d}] \in Request
        /\ Names([req[s] EXCEPT !.serial = @ \ {d}])
    BY <1>1, <2>1 DEF Request, Names
  <2> QED BY <2>1, <2>2, <2>3, TypeBecomes
<1> QED BY <1>2, <1>3, <1>4

\* An update leaves the count, or says that it was changed by hand.
LEMMA UpdateDoes ==
  ASSUME TypeInv, NEW s \in Slot, UpdateDevice(s), ~Refuse(s)
  PROVE  /\ req[s].op = "update" /\ req[s].id \in DOMAIN devices /\ Finish(s)
         /\ UNCHANGED <<tokens, sent>>
         /\ \E row \in DeviceRow :
              /\ devices' = [devices EXCEPT ![req[s].id] = row]
              /\ \/ row.count = devices[req[s].id].count /\ corrected' = corrected
                 \/ corrected' = corrected \cup {req[s].id}
<1>1. req[s].op = "update" BY DEF UpdateDevice, Running
<1>2. req[s].id \in DOMAIN devices /\ devices[req[s].id] \in DeviceRow BY <1>1, DeviceNamed
<1>3. PICK row \in Updated(devices[req[s].id]) :
        /\ devices' = [devices EXCEPT ![req[s].id] = row]
        /\ corrected' = IF row.count = devices[req[s].id].count THEN corrected
                        ELSE corrected \cup {req[s].id}
        /\ Finish(s) /\ UNCHANGED <<tokens, sent>>
  BY DEF UpdateDevice
<1>4. row \in DeviceRow BY <1>2 DEF Given, Updated, DeviceRow
<1> QED BY <1>1, <1>2, <1>3, <1>4

LEMMA TypeUpdate ==
  ASSUME TypeInv, NEW s \in Slot, UpdateDevice(s)
  PROVE  TypeInv'
<1>1. TablesOK /\ req[s] \in Request BY TypeFacts
<1>2. CASE Refuse(s) BY <1>2, TypeRefused
<1>3. CASE ~Refuse(s)
  <2>1. /\ req[s].id \in DOMAIN devices /\ Finish(s) /\ UNCHANGED <<tokens, sent>>
        /\ corrected' \subseteq Nat
    BY <1>1, <1>3, UpdateDoes DEF TablesOK, Request
  <2>2. PICK row \in DeviceRow : devices' = [devices EXCEPT ![req[s].id] = row]
    BY <1>3, UpdateDoes
  <2>3. devices' \in Seq(DeviceRow) /\ DOMAIN devices' = DOMAIN devices
    BY <2>1, <2>2, DeviceWritten
  <2>4. TablesOK' BY <1>1, <2>1, <2>3 DEF TablesOK
  <2> QED BY <2>1, <2>3, <2>4, TypeEnds
<1> QED BY <1>2, <1>3

\* The token rows of a device that is deleted stay, without it.
LEMMA DeleteDoes ==
  ASSUME TypeInv, NEW s \in Slot, DeleteDevice(s), ~Refuse(s)
  PROVE  /\ req[s].op = "delete" /\ req[s].id \in DOMAIN devices /\ Finish(s)
         /\ UNCHANGED <<sent, corrected>>
         /\ [devices[req[s].id] EXCEPT !.there = FALSE] \in DeviceRow
         /\ devices' = [devices EXCEPT ![req[s].id] = [devices[req[s].id] EXCEPT !.there = FALSE]]
         /\ tokens' \in Seq(TokenRow) /\ DOMAIN tokens' = DOMAIN tokens
         /\ \A i \in DOMAIN tokens :
              tokens'[i].token = tokens[i].token /\ tokens'[i].device \in {0, tokens[i].device}
<1>1. TablesOK BY TypeFacts
<1>2. req[s].op = "delete" BY DEF DeleteDevice, Running
<1>3. req[s].id \in DOMAIN devices /\ devices[req[s].id] \in DeviceRow BY <1>2, DeviceNamed
<1> DEFINE row(i) == IF tokens[i].device = req[s].id THEN [tokens[i] EXCEPT !.device = 0]
                     ELSE tokens[i]
<1>4. /\ devices' = [devices EXCEPT ![req[s].id].there = FALSE]
      /\ tokens' = [i \in DOMAIN tokens |-> row(i)]
      /\ Finish(s) /\ UNCHANGED <<sent, corrected>>
  BY DEF DeleteDevice
<1>5. \A i \in DOMAIN tokens : tokens[i] \in TokenRow
  BY <1>1, ElementOfSeq, LenProperties DEF TablesOK
<1>6. \A i \in DOMAIN tokens :
        /\ row(i) \in TokenRow
        /\ row(i).token = tokens[i].token /\ row(i).device \in {0, tokens[i].device}
  BY <1>5 DEF TokenRow
<1> HIDE DEF row
<1>7. DOMAIN tokens = 1..Len(tokens) /\ Len(tokens) \in Nat BY <1>1, LenProperties DEF TablesOK
<1>8. tokens' \in Seq(TokenRow) BY <1>4, <1>6, <1>7, IsASeq
<1>9. [devices[req[s].id] EXCEPT !.there = FALSE] \in DeviceRow BY <1>3 DEF DeviceRow
<1> QED BY <1>2, <1>3, <1>4, <1>6, <1>8, <1>9

LEMMA TypeDelete ==
  ASSUME TypeInv, NEW s \in Slot, DeleteDevice(s)
  PROVE  TypeInv'
<1>1. CASE Refuse(s) BY <1>1, TypeRefused
<1>2. CASE ~Refuse(s)
  <2>1. devices' \in Seq(DeviceRow) /\ DOMAIN devices' = DOMAIN devices
    BY <1>2, DeleteDoes, DeviceWritten
  <2>2. TablesOK' BY <1>2, <2>1, TypeFacts, DeleteDoes DEF TablesOK
  <2> QED BY <1>2, <2>1, <2>2, DeleteDoes, TypeEnds
<1> QED BY <1>1, <1>2

LEMMA WriteCountDoes ==
  ASSUME TypeInv, NEW s \in Slot, JobCount(s) \/ PaymentCount(s), ~Refuse(s)
  PROVE  /\ req[s].op \in {"job", "payment"} /\ req[s].at = "count" /\ Goto(s, "row")
         /\ req[s].id \in DOMAIN devices /\ req[s].n \in Nat
         /\ [devices[req[s].id] EXCEPT !.count = req[s].n] \in DeviceRow
         /\ devices' = [devices EXCEPT ![req[s].id] =
                          [devices[req[s].id] EXCEPT !.count = req[s].n]]
         /\ UNCHANGED <<tokens, sent, corrected>>
<1>1. req[s].op \in {"job", "payment"} BY DEF JobCount, PaymentCount
<1>2. /\ req[s].id \in DOMAIN devices /\ devices[req[s].id] \in DeviceRow
      /\ req[s].n \in Nat
  BY <1>1, DeviceNamed, TypeFacts DEF Request
<1>3. [devices[req[s].id] EXCEPT !.count = req[s].n] \in DeviceRow BY <1>2 DEF DeviceRow
<1> QED BY <1>1, <1>2, <1>3 DEF JobCount, PaymentCount, WriteCount

LEMMA TypeCount ==
  ASSUME TypeInv, NEW s \in Slot, JobCount(s) \/ PaymentCount(s)
  PROVE  TypeInv'
<1>1. CASE Refuse(s) BY <1>1, TypeRefused
<1>2. CASE ~Refuse(s)
  <2>1. devices' \in Seq(DeviceRow) /\ DOMAIN devices' = DOMAIN devices
    BY <1>2, WriteCountDoes, DeviceWritten
  <2>2. TablesOK' BY <1>2, <2>1, TypeFacts, WriteCountDoes DEF TablesOK
  <2>3. "row" \in At BY DEF At
  <2> QED BY <1>2, <2>1, <2>2, <2>3, WriteCountDoes, TypeGoes
<1> QED BY <1>1, <1>2

\* The row of a token.
NewToken(s) == [token |-> Token(s), device |-> req[s].id]

LEMMA AddTokenDoes ==
  ASSUME TypeInv, NEW s \in Slot, JobRow(s) \/ PaymentRow(s), ~Refuse(s)
  PROVE  /\ req[s].op \in {"job", "payment"} /\ req[s].at = "row" /\ ~Issued(Token(s))
         /\ NewToken(s) \in TokenRow /\ tokens' = Append(tokens, NewToken(s))
         /\ tokens' \in Seq(TokenRow)
         /\ Goto(s, "send") /\ UNCHANGED <<devices, sent, corrected>>
<1>1. TablesOK /\ req[s] \in Request BY TypeFacts
<1>2. NewToken(s) \in TokenRow
  BY <1>1 DEF NewToken, Token, TokenRow, TokenString, Request
<1>3. /\ req[s].op \in {"job", "payment"} /\ req[s].at = "row" /\ ~Issued(Token(s))
      /\ tokens' = Append(tokens, NewToken(s))
      /\ Goto(s, "send") /\ UNCHANGED <<devices, sent, corrected>>
  BY DEF JobRow, PaymentRow, AddToken, NewToken
<1>4. tokens' \in Seq(TokenRow) BY <1>1, <1>2, <1>3 DEF TablesOK
<1> QED BY <1>2, <1>3, <1>4

LEMMA TypeAddToken ==
  ASSUME TypeInv, NEW s \in Slot, JobRow(s) \/ PaymentRow(s)
  PROVE  TypeInv'
<1>1. CASE Refuse(s) BY <1>1, TypeRefused
<1>2. CASE ~Refuse(s)
  <2>1. TablesOK' /\ devices' = devices BY <1>2, TypeFacts, AddTokenDoes DEF TablesOK
  <2>2. "send" \in At BY DEF At
  <2> QED BY <1>2, <2>1, <2>2, AddTokenDoes, TypeGoes
<1> QED BY <1>1, <1>2

LEMMA SendDoes ==
  ASSUME TypeInv, NEW s \in Slot, JobSend(s) \/ PaymentSend(s)
  PROVE  /\ Sending(s) /\ sent' = Append(sent, Token(s)) /\ Token(s) \in TokenString
         /\ sent' \in Seq(TokenString)
         /\ Finish(s) /\ UNCHANGED <<devices, tokens, corrected>>
<1>1. TablesOK /\ req[s] \in Request BY TypeFacts
<1>2. Token(s) \in TokenString BY <1>1 DEF Token, TokenString, Request
<1>3. /\ Sending(s) /\ sent' = Append(sent, Token(s))
      /\ Finish(s) /\ UNCHANGED <<devices, tokens, corrected>>
  BY DEF JobSend, PaymentSend, Send, Sending
<1>4. sent' \in Seq(TokenString) BY <1>1, <1>2, <1>3 DEF TablesOK
<1> QED BY <1>2, <1>3, <1>4

LEMMA TypeSend ==
  ASSUME TypeInv, NEW s \in Slot, JobSend(s) \/ PaymentSend(s)
  PROVE  TypeInv'
<1>1. TablesOK' /\ devices' = devices BY TypeFacts, SendDoes DEF TablesOK
<1> QED BY <1>1, SendDoes, TypeEnds

-----------------------------------------------------------------------------
(* Types *)

LEMMA TypeInit == Init => TypeInv
<1> SUFFICES ASSUME Init PROVE TypeInv OBVIOUS
<1>1. PICK d \in Serial, code \in Code, count \in Given :
        devices = <<NewDevice(d, code, count, TRUE)>>
  BY DEF Init
<1>2. NewDevice(d, code, count, TRUE) \in DeviceRow BY DEF Given, NewDevice, DeviceRow
<1>3. \A row \in DeviceRow : <<row>> \in Seq(DeviceRow) OBVIOUS
<1>4. devices \in Seq(DeviceRow) BY <1>1, <1>2, <1>3, Zenon
<1>5. RequestsOK(Request) /\ RequestsName
  BY IdleIsRequest DEF Init, InitRequests, RequestsOK, RequestsName, Idle
<1>6. tokens \in Seq(TokenRow) /\ sent \in Seq(TokenString) /\ corrected \subseteq Nat
  BY DEF Init
<1> QED BY <1>4, <1>5, <1>6 DEF TypeInv, TypeOK

LEMMA TypeNext == TypeInv /\ [Next]_vars => TypeInv'
<1> SUFFICES ASSUME TypeInv, [Next]_vars PROVE TypeInv' OBVIOUS
<1>1. CASE UNCHANGED vars
  BY <1>1 DEF vars, tables, TypeInv, TypeOK, RequestsOK, RequestsName
<1>2. CASE Next
  <2>1. PICK s \in Slot : Start(s) \/ Fail(s) \/ Step(s) BY <1>2 DEF Next
  <2>2. CASE Start(s) BY <2>2, TypeStart
  <2>3. CASE Fail(s) BY <2>3, TypeRefused DEF Fail
  <2>4. CASE Step(s)
    BY <2>4, TypeReads, TypeCreate, TypeUpdate, TypeDelete, TypeCount, TypeAddToken, TypeSend
       DEF Step, ReadStep
  <2> QED BY <2>1, <2>2, <2>3, <2>4
<1> QED BY <1>1, <1>2

\* Every table and every request keeps its shape, whatever the requests, the
\* jobs and the payments that move the count of a device interleave.
THEOREM TypeCorrect == Spec => []TypeOK
<1>1. TypeInv => TypeOK BY DEF TypeInv
<1> QED BY TypeInit, TypeNext, <1>1, PTL DEF Spec

-----------------------------------------------------------------------------
(* Tokens are given out once *)

\* A request that is not about to send, and tables that keep their tokens.
LEMMA SentKept ==
  ASSUME SentInv, NEW s \in Slot, NEW r, r.at # "send", req' = [req EXCEPT ![s] = r],
         UNCHANGED sent, \A token : Issued(token) => Issued(token)'
  PROVE  /\ SentAreRows' /\ SendingIsNew' /\ SendingApart' /\ TokensSentOnce'
<1>1. req \in [Slot -> Request] BY DEF SentInv, TypeInv, TypeOK, RequestsOK
<1>2. req'[s] = r /\ \A o \in Slot \ {s} : req'[o] = req[o] BY <1>1
<1>3. \A o \in Slot : Sending(o)' => Sending(o) /\ Token(o)' = Token(o)
  BY <1>2 DEF Sending, Token
<1>4. SentAreRows' BY DEF SentInv, SentAreRows
<1>5. SendingIsNew' BY <1>3 DEF SentInv, SendingIsNew
<1>6. SendingApart' BY <1>3 DEF SentInv, SendingApart
<1>7. TokensSentOnce' BY DEF SentInv, TokensSentOnce
<1> QED BY <1>4, <1>5, <1>6, <1>7

\* A token becomes a row that was not there: so it is neither sent nor about
\* to be sent by another.
LEMMA SentAdded ==
  ASSUME SentInv, NEW s \in Slot, JobRow(s) \/ PaymentRow(s), ~Refuse(s)
  PROVE  /\ SentAreRows' /\ SendingIsNew' /\ SendingApart' /\ TokensSentOnce'
<1>1. TypeInv /\ TablesOK /\ req \in [Slot -> Request] /\ req[s] \in Request
  BY TypeFacts DEF SentInv
<1>2. /\ ~Issued(Token(s)) /\ tokens' = Append(tokens, NewToken(s))
      /\ req' = [req EXCEPT ![s] = [req[s] EXCEPT !.at = "send"]] /\ UNCHANGED sent
  BY <1>1, AddTokenDoes DEF Goto, Set
<1>3. /\ req'[s].n = req[s].n /\ req'[s].code = req[s].code
      /\ req'[s].duration = req[s].duration
      /\ \A o \in Slot \ {s} : req'[o] = req[o]
  BY <1>1, <1>2 DEF Request
<1>4. Token(s)' = Token(s) BY <1>3 DEF Token
<1>5. \A o \in Slot \ {s} : Token(o)' = Token(o) /\ Sending(o)' = Sending(o)
  BY <1>3 DEF Token, Sending
<1>6. /\ \A i \in DOMAIN tokens : i \in DOMAIN tokens' /\ tokens'[i] = tokens[i]
      /\ Len(tokens) + 1 \in DOMAIN tokens' /\ tokens'[Len(tokens) + 1] = NewToken(s)
  <2> HIDE DEF NewToken
  <2>1. tokens \in Seq(TokenRow) /\ NewToken(s) \in TokenRow BY <1>1, AddTokenDoes DEF TablesOK
  <2> QED BY <1>2, <2>1
<1>7. \A token : Issued(token) => Issued(token)' BY <1>6 DEF Issued
<1>8. NewToken(s).token = Token(s) BY DEF NewToken
<1>9. Issued(Token(s))' BY <1>4, <1>6, <1>8 DEF Issued
<1>10. SentAreRows' BY <1>2, <1>7 DEF SentInv, SentAreRows
<1>11. \A i \in DOMAIN sent : sent[i] # Token(s) BY <1>2 DEF SentInv, SentAreRows
<1>12. SendingIsNew'
  <2> SUFFICES ASSUME NEW o \in Slot, Sending(o)'
               PROVE  Issued(Token(o))' /\ \A i \in DOMAIN sent' : sent'[i] # Token(o)'
    BY DEF SendingIsNew
  <2>1. CASE o = s BY <1>2, <1>4, <1>9, <1>11, <2>1
  <2>2. CASE o # s BY <1>2, <1>5, <1>7, <2>2 DEF SentInv, SendingIsNew
  <2> QED BY <2>1, <2>2
<1>13. \A o \in Slot \ {s} : Sending(o) => Token(o) # Token(s)
  BY <1>2 DEF SentInv, SendingIsNew
<1>14. SendingApart'
  <2> SUFFICES ASSUME NEW o \in Slot, NEW p \in Slot, o # p, Sending(o)', Sending(p)'
               PROVE  Token(o)' # Token(p)'
    BY DEF SendingApart
  <2>1. CASE o = s BY <1>4, <1>5, <1>13, <2>1
  <2>2. CASE p = s BY <1>4, <1>5, <1>13, <2>2
  <2>3. CASE o # s /\ p # s BY <1>5, <2>3 DEF SentInv, SendingApart
  <2> QED BY <2>1, <2>2, <2>3
<1>15. TokensSentOnce' BY <1>2 DEF SentInv, TokensSentOnce
<1> QED BY <1>10, <1>12, <1>14, <1>15

\* A token is sent that was not sent before, and that nobody else will send.
LEMMA SentGiven ==
  ASSUME SentInv, NEW s \in Slot, JobSend(s) \/ PaymentSend(s)
  PROVE  /\ SentAreRows' /\ SendingIsNew' /\ SendingApart' /\ TokensSentOnce'
<1>1. TypeInv /\ TablesOK /\ req \in [Slot -> Request] BY TypeFacts DEF SentInv
<1>2. /\ Sending(s) /\ sent' = Append(sent, Token(s)) /\ Token(s) \in TokenString
      /\ req' = [req EXCEPT ![s] = Idle] /\ UNCHANGED tokens
  BY <1>1, SendDoes DEF Finish, Set
<1>3. req'[s] = Idle /\ \A o \in Slot \ {s} : req'[o] = req[o] BY <1>1, <1>2
<1>4. \A o \in Slot : Sending(o)' => o # s /\ Sending(o) /\ Token(o)' = Token(o)
  BY <1>3 DEF Sending, Token, Idle
<1>5. \A token : Issued(token)' = Issued(token) BY <1>2 DEF Issued
<1>6. sent \in Seq(TokenString) BY <1>1 DEF TablesOK
<1>7. \A i \in DOMAIN sent' :
        \/ i \in DOMAIN sent /\ sent'[i] = sent[i]
        \/ i = Len(sent) + 1 /\ i \notin DOMAIN sent /\ sent'[i] = Token(s)
  <2> HIDE DEF Token
  <2> QED BY <1>2, <1>6
<1>8. Issued(Token(s)) /\ \A i \in DOMAIN sent : sent[i] # Token(s)
  BY <1>2 DEF SentInv, SendingIsNew
<1>9. SentAreRows'
  <2>1. \A i \in DOMAIN sent' : Issued(sent'[i]) BY <1>7, <1>8 DEF SentInv, SentAreRows
  <2> QED BY <1>2, <2>1 DEF SentAreRows, Issued
<1>10. \A o \in Slot : Sending(o)' => Token(o) # Token(s)
  BY <1>2, <1>4 DEF SentInv, SendingApart
<1>11. SendingIsNew'
  <2> SUFFICES ASSUME NEW o \in Slot, Sending(o)'
               PROVE  Issued(Token(o))' /\ \A i \in DOMAIN sent' : sent'[i] # Token(o)'
    BY DEF SendingIsNew
  <2>1. Issued(Token(o)) BY <1>4 DEF SentInv, SendingIsNew
  <2>2. Issued(Token(o))' BY <1>2, <1>4, <2>1 DEF Issued
  <2>3. \A i \in DOMAIN sent' : sent'[i] # Token(o)'
    BY <1>4, <1>7, <1>10 DEF SentInv, SendingIsNew
  <2> QED BY <2>2, <2>3
<1>12. SendingApart' BY <1>4 DEF SentInv, SendingApart
<1>13. TokensSentOnce'
  <2> SUFFICES ASSUME NEW i \in DOMAIN sent', NEW j \in DOMAIN sent', i # j
               PROVE  sent'[i] # sent'[j]
    BY DEF TokensSentOnce
  <2> QED BY <1>7, <1>8 DEF SentInv, TokensSentOnce
<1> QED BY <1>9, <1>11, <1>12, <1>13

LEMMA SentNext == SentInv /\ [Next]_vars => SentInv'
<1> SUFFICES ASSUME SentInv, [Next]_vars PROVE SentInv' OBVIOUS
<1>1. TypeInv' /\ TypeInv BY TypeNext DEF SentInv
<1> SUFFICES SentAreRows' /\ SendingIsNew' /\ SendingApart' /\ TokensSentOnce'
  BY <1>1 DEF SentInv
<1>2. CASE UNCHANGED vars
  BY <1>2 DEF vars, tables, SentInv, SentAreRows, SendingIsNew, SendingApart, TokensSentOnce,
     Sending, Token, Issued
<1>3. CASE Next
  <2>1. PICK s \in Slot : Start(s) \/ Fail(s) \/ Step(s) BY <1>3 DEF Next
  <2>2. req[s] \in Request BY <1>1, TypeFacts
  <2>3. ASSUME UNCHANGED <<tokens, sent>>,
               NEW r, r.at # "send", req' = [req EXCEPT ![s] = r]
        PROVE  SentAreRows' /\ SendingIsNew' /\ SendingApart' /\ TokensSentOnce'
    BY <2>3, SentKept DEF Issued
  <2>4. ASSUME UNCHANGED <<tokens, sent>>, Finish(s)
        PROVE  SentAreRows' /\ SendingIsNew' /\ SendingApart' /\ TokensSentOnce'
    BY <2>3, <2>4 DEF Finish, Set, Idle
  <2>5. CASE Refuse(s) BY <2>4, <2>5 DEF Refuse, tables
  <2>6. CASE Start(s)
    <3>1. PICK r : Begin(s, r) /\ Fresh(r) BY <1>1, <2>6, Starts
    <3> QED BY <2>3, <3>1 DEF Begin, Accept, tables, Fresh
  <2>7. CASE ReadStep(s)
    <3>1. UNCHANGED <<tokens, sent>> BY <1>1, <2>7, Reads DEF tables
    <3>2. CASE Finish(s) BY <2>4, <3>1, <3>2
    <3>3. CASE Goto(s, "write") BY <2>2, <2>3, <3>1, <3>3 DEF Goto, Set, Request
    <3>4. CASE Goto(s, "read") BY <2>2, <2>3, <3>1, <3>4 DEF Goto, Set, Request
    <3>5. CASE Becomes(s, Counted(s))
      BY <2>2, <2>3, <3>1, <3>5 DEF Becomes, Counted, Request
    <3> QED BY <1>1, <2>7, <3>2, <3>3, <3>4, <3>5, Reads
  <2>8. CASE (CreateDevice(s) \/ UpdateDevice(s)) /\ ~Refuse(s)
    <3>1. UNCHANGED <<tokens, sent>> /\ Finish(s)
      BY <1>1, <2>8, CreateDeviceDoes, UpdateDoes DEF Creates
    <3> QED BY <2>4, <3>1
  <2>9. CASE DeleteDevice(s) /\ ~Refuse(s)
    <3>1. \A token : Issued(token) => Issued(token)' BY <1>1, <2>9, DeleteDoes DEF Issued
    <3>2. req' = [req EXCEPT ![s] = Idle] /\ UNCHANGED sent
      BY <1>1, <2>9, DeleteDoes DEF Finish, Set
    <3>3. Idle.at # "send" BY DEF Idle
    <3> QED BY <3>1, <3>2, <3>3, SentKept
  <2>10. CASE (JobCount(s) \/ PaymentCount(s)) /\ ~Refuse(s)
    BY <1>1, <2>2, <2>3, <2>10, WriteCountDoes DEF Goto, Set, Request
  <2>11. CASE (JobRow(s) \/ PaymentRow(s)) /\ ~Refuse(s) BY <2>11, SentAdded
  <2>12. CASE JobSend(s) \/ PaymentSend(s) BY <2>12, SentGiven
  <2>13. CASE Upsert(s)
    <3>1. PICK d \in req[s].serial :
            /\ req[s].op = "upload" /\ req[s].at = "rows"
            /\ Becomes(s, [req[s] EXCEPT !.serial = @ \ {d}])
            /\ (\E row : Creates(row)) \/ UNCHANGED tables
      BY <1>1, <2>13, UpsertDoes
    <3>2. UNCHANGED <<tokens, sent>> BY <3>1 DEF Creates, tables
    <3> QED BY <2>2, <2>3, <3>1, <3>2 DEF Becomes, Request
  <2> QED BY <2>1, <2>5, <2>6, <2>7, <2>8, <2>9, <2>10, <2>11, <2>12, <2>13
      DEF Fail, Step, ReadStep
<1> QED BY <1>2, <1>3

LEMMA SentInit == Init => SentInv
<1> SUFFICES ASSUME Init PROVE SentInv OBVIOUS
<1>1. TypeInv BY TypeInit
<1>2. sent = <<>> /\ \A s \in Slot : ~Sending(s)
  BY DEF Init, InitRequests, Idle, Sending
<1> QED BY <1>1, <1>2 DEF SentInv, SentAreRows, SendingIsNew, SendingApart, TokensSentOnce

\* Nobody gets a token that was given out before: the unique index lets the
\* row of a token in once, and only whoever made the row sends it.
THEOREM SentOnceCorrect == Spec => []TokensSentOnce
<1>1. SentInv => TokensSentOnce BY DEF SentInv
<1> QED BY SentInit, SentNext, <1>1, PTL DEF Spec

-----------------------------------------------------------------------------
(* The count of a device covers its tokens *)

Counts == TokensKnown /\ CountIsNext /\ CountCoversTokens

\* Who is alone stays alone, until another request arrives.
LEMMA AloneKept ==
  ASSUME Alone, NEW s \in Slot, NEW r, req \in [Slot -> Request], Becomes(s, r),
         Busy(s) \/ r.op = "idle"
  PROVE  Alone'
<1>1. req'[s] = r /\ \A o \in Slot \ {s} : req'[o] = req[o] BY DEF Becomes
<1>2. \A o \in Slot : Busy(o)' => Busy(o) BY <1>1 DEF Busy
<1> QED BY <1>2 DEF Alone, Becomes

LEMMA AloneAccepted ==
  ASSUME TypeInv, NEW s \in Slot, NEW r, Begin(s, r)
  PROVE  Alone' /\ (~overlap' => ~overlap) /\ req' = [req EXCEPT ![s] = r] /\ UNCHANGED tables
<1>1. req \in [Slot -> Request] /\ overlap \in BOOLEAN BY TypeFacts
<1>2. /\ req' = [req EXCEPT ![s] = r] /\ UNCHANGED tables
      /\ overlap' = (overlap \/ \E o \in Slot \ {s} : Busy(o))
  BY DEF Begin, Accept
<1>3. \A o \in Slot \ {s} : req'[o] = req[o] BY <1>1, <1>2
<1>4. ~overlap' => ~overlap /\ \A o \in Slot \ {s} : ~Busy(o) BY <1>1, <1>2
<1>5. Alone' BY <1>3, <1>4 DEF Alone, Busy
<1> QED BY <1>2, <1>4, <1>5

\* The count that matters without an overlap is that of the request of slot s.
LEMMA CountOfOne ==
  ASSUME TypeInv, Alone, NEW s \in Slot, NEW r, Busy(s), Becomes(s, r),
         ~overlap /\ Busy(s)' =>
           /\ r.at = "count" => devices'[r.id].count <= r.n
           /\ r.at = "row" => r.n <= devices'[r.id].count
  PROVE  CountIsNext'
<1>1. req'[s] = r /\ \A o \in Slot \ {s} : req'[o] = req[o]
  BY TypeFacts DEF Becomes
<1>2. ~overlap => \A o \in Slot : Busy(o)' => o = s BY <1>1 DEF Alone, Busy
<1> QED BY <1>1, <1>2 DEF CountIsNext, Becomes

\* A step that keeps the devices and their tokens, and is not about a count.
LEMMA CountKept ==
  ASSUME CountInv, NEW s \in Slot, NEW r, r.at \notin {"count", "row"},
         req' = [req EXCEPT ![s] = r], ~overlap' => ~overlap,
         UNCHANGED <<devices, tokens, corrected>>
  PROVE  Counts'
<1>1. req'[s] = r /\ \A o \in Slot \ {s} : req'[o] = req[o]
  BY TypeFacts DEF CountInv
<1>2. CountIsNext' BY <1>1 DEF CountInv, CountIsNext, Busy
<1>3. TokensKnown' /\ CountCoversTokens'
  BY DEF CountInv, TokensKnown, CountCoversTokens, Devices
<1> QED BY <1>2, <1>3 DEF Counts

\* The next count is computed from the device as it is.
LEMMA CountComputed ==
  ASSUME CountInv, NEW s \in Slot, req[s].op \in {"job", "payment"}, Becomes(s, Counted(s)),
         UNCHANGED tables
  PROVE  Counts'
<1>1. TypeInv /\ Alone /\ req[s] \in Request /\ Busy(s) BY TypeFacts DEF CountInv, Busy
<1>2. devices[req[s].id].count \in Nat BY <1>1, DeviceNamed DEF DeviceRow
<1> DEFINE r == Counted(s)
<1>3. /\ r.at = "count" /\ r.n = NextCount(devices[req[s].id].count, req[s].duration)
      /\ r.id = req[s].id
  BY <1>1 DEF Counted, Request
<1>4. devices[req[s].id].count <= r.n BY <1>2, <1>3, NextCountGrows
<1>5. Becomes(s, r) /\ devices' = devices BY DEF tables
<1> HIDE DEF r
<1>6. CountIsNext' BY <1>1, <1>3, <1>4, <1>5, CountOfOne
<1>7. TokensKnown' /\ CountCoversTokens'
  BY DEF CountInv, TokensKnown, CountCoversTokens, tables, Becomes, Devices
<1> QED BY <1>6, <1>7 DEF Counts

\* A device that is created has an id no token has.
LEMMA CountCreated ==
  ASSUME CountInv, NEW s \in Slot, NEW row, NEW r, Creates(row), Becomes(s, r),
         Busy(s), r.at \notin {"count", "row"}
  PROVE  Counts'
<1>1. TypeInv /\ TablesOK /\ Alone BY TypeFacts DEF CountInv
<1>2. /\ UNCHANGED <<tokens, sent, corrected, overlap>>
      /\ DOMAIN devices' = DOMAIN devices \cup {Len(devices) + 1}
      /\ Len(devices') = Len(devices) + 1 /\ Len(devices) \in Nat
      /\ \A d \in DOMAIN devices : devices'[d] = devices[d]
  BY <1>1, TypeCreates, LenProperties DEF Creates, Becomes, TablesOK
<1>3. \A i \in DOMAIN tokens : tokens[i].device \in Nat /\ tokens[i].device <= Len(devices)
  <2>1. \A i \in DOMAIN tokens : tokens[i] \in TokenRow
    BY <1>1, ElementOfSeq, LenProperties DEF TablesOK
  <2> QED BY <2>1 DEF TokenRow, CountInv, TokensKnown
<1>4. TokensKnown' BY <1>2, <1>3 DEF TokensKnown
<1>5. CountIsNext' BY <1>1, CountOfOne
<1>6. CountCoversTokens'
  <2> SUFFICES ASSUME ~overlap, NEW d \in Devices', d \notin corrected,
                      NEW i \in DOMAIN tokens, tokens[i].device = d
               PROVE  tokens[i].token[2] <= devices'[d].count
    BY <1>2 DEF CountCoversTokens
  <2>1. d \in DOMAIN devices BY <1>2, <1>3 DEF Devices
  <2>2. d \in Devices BY <1>2, <2>1 DEF Devices
  <2> QED BY <1>2, <2>1, <2>2 DEF CountInv, CountCoversTokens
<1> QED BY <1>4, <1>5, <1>6 DEF Counts

\* A row of devices is replaced, and the tokens of its device are those it had,
\* or none.
LEMMA CountReplaced ==
  ASSUME CountInv, NEW d \in DOMAIN devices, NEW row \in DeviceRow, NEW s \in Slot,
         devices' = [devices EXCEPT ![d] = row], corrected \subseteq corrected',
         DOMAIN tokens' = DOMAIN tokens, UNCHANGED overlap,
         \A i \in DOMAIN tokens :
           tokens'[i].token = tokens[i].token /\ tokens'[i].device \in {0, tokens[i].device},
         ~overlap /\ row.there /\ d \notin corrected' =>
           /\ devices[d].there
           /\ \A i \in DOMAIN tokens :
                tokens[i].device = d /\ tokens[i].token[2] <= devices[d].count
                  => tokens[i].token[2] <= row.count
  PROVE  TokensKnown' /\ CountCoversTokens'
<1>1. TypeInv /\ TablesOK BY TypeFacts DEF CountInv
<1>2. /\ DOMAIN devices' = DOMAIN devices /\ Len(devices') = Len(devices)
      /\ devices'[d] = row /\ \A e \in DOMAIN devices \ {d} : devices'[e] = devices[e]
  BY <1>1, DeviceWritten
<1>3. Len(devices) \in Nat /\ \A e \in DOMAIN devices : e # 0
  BY <1>1, LenProperties DEF TablesOK
<1>4. TokensKnown' BY <1>2, <1>3 DEF CountInv, TokensKnown
<1>5. CountCoversTokens'
  <2> SUFFICES ASSUME ~overlap, NEW e \in Devices', e \notin corrected',
                      NEW i \in DOMAIN tokens, tokens'[i].device = e
               PROVE  tokens[i].token[2] <= devices'[e].count
    BY DEF CountCoversTokens
  <2>1. e \in DOMAIN devices /\ tokens[i].device = e BY <1>2, <1>3 DEF Devices
  <2>2. e \in Devices BY <1>2, <2>1 DEF Devices
  <2>3. tokens[i].token[2] <= devices[e].count
    BY <2>1, <2>2 DEF CountInv, CountCoversTokens
  <2>4. CASE e = d BY <1>2, <2>1, <2>3, <2>4 DEF Devices
  <2>5. CASE e # d BY <1>2, <2>1, <2>3, <2>5
  <2> QED BY <2>4, <2>5
<1> QED BY <1>4, <1>5

\* An update keeps the count, or nothing is claimed of it any more.
LEMMA CountSet ==
  ASSUME CountInv, NEW s \in Slot, UpdateDevice(s), ~Refuse(s)
  PROVE  Counts'
<1>1. TypeInv /\ Alone BY DEF CountInv
<1>2. req[s].id \in DOMAIN devices /\ Becomes(s, Idle) /\ Busy(s) /\ UNCHANGED tokens
  BY <1>1, UpdateDoes DEF Finish, Set, Becomes, Busy
<1>3. devices[req[s].id].there BY DEF UpdateDevice, Present
<1>4. PICK row \in DeviceRow :
        /\ devices' = [devices EXCEPT ![req[s].id] = row]
        /\ \/ row.count = devices[req[s].id].count /\ corrected' = corrected
           \/ corrected' = corrected \cup {req[s].id}
  BY <1>1, UpdateDoes
<1>5. TokensKnown' /\ CountCoversTokens' BY <1>2, <1>3, <1>4, CountReplaced DEF Becomes
<1>6. CountIsNext' BY <1>1, <1>2, CountOfOne DEF Idle
<1> QED BY <1>5, <1>6 DEF Counts

\* The tokens of a device that is deleted are of no device.
LEMMA CountDeleted ==
  ASSUME CountInv, NEW s \in Slot, DeleteDevice(s), ~Refuse(s)
  PROVE  Counts'
<1> DEFINE row == [devices[req[s].id] EXCEPT !.there = FALSE]
<1>1. TypeInv /\ Alone BY DEF CountInv
<1>2. /\ req[s].id \in DOMAIN devices /\ Becomes(s, Idle) /\ Busy(s) /\ UNCHANGED corrected
      /\ row \in DeviceRow /\ devices' = [devices EXCEPT ![req[s].id] = row]
      /\ DOMAIN tokens' = DOMAIN tokens
      /\ \A i \in DOMAIN tokens :
           tokens'[i].token = tokens[i].token /\ tokens'[i].device \in {0, tokens[i].device}
  BY <1>1, DeleteDoes DEF Finish, Set, Becomes, Busy
<1>3. ~row.there BY <1>1, <1>2, TypeFacts, RowFacts DEF DeviceRow
<1> HIDE DEF row
<1>4. TokensKnown' /\ CountCoversTokens' BY <1>2, <1>3, CountReplaced DEF Becomes
<1>5. CountIsNext' BY <1>1, <1>2, CountOfOne DEF Idle
<1> QED BY <1>4, <1>5 DEF Counts

\* The count moves on, and no token is ahead of it.
LEMMA CountWritten ==
  ASSUME CountInv, NEW s \in Slot, JobCount(s) \/ PaymentCount(s), ~Refuse(s)
  PROVE  Counts'
<1> DEFINE d == req[s].id
           r == [req[s] EXCEPT !.at = "row"]
           row == [devices[d] EXCEPT !.count = req[s].n]
<1>1. TypeInv /\ Alone /\ TablesOK /\ req[s] \in Request BY TypeFacts DEF CountInv
<1>2. /\ d \in DOMAIN devices /\ req[s].at = "count" /\ Becomes(s, r) /\ Busy(s)
      /\ devices' = [devices EXCEPT ![d] = row] /\ row \in DeviceRow
      /\ UNCHANGED <<tokens, corrected>>
  BY <1>1, WriteCountDoes DEF Goto, Set, Becomes, Busy
<1>3. devices[d] \in DeviceRow BY <1>1, <1>2, RowFacts
<1>4. /\ row.count = req[s].n /\ row.there = devices[d].there
      /\ row.count \in Nat /\ devices[d].count \in Nat
  BY <1>1, <1>3 DEF DeviceRow, Request
<1>5. r.n = req[s].n /\ r.id = d /\ r.at = "row" BY <1>1 DEF Request
<1>6. devices'[d] = row BY <1>1, <1>2, DeviceWritten
<1> HIDE DEF row, r, d
<1>7. CountIsNext' BY <1>1, <1>2, <1>4, <1>5, <1>6, CountOfOne
<1>8. ~overlap => devices[d].count <= row.count
  BY <1>2, <1>4 DEF CountInv, CountIsNext, d
<1>9. \A i \in DOMAIN tokens : tokens[i].token[2] \in Nat
  <2>1. \A i \in DOMAIN tokens : tokens[i] \in TokenRow
    BY <1>1, ElementOfSeq, LenProperties DEF TablesOK
  <2> QED BY <2>1 DEF TokenRow, TokenString
<1>10. TokensKnown' /\ CountCoversTokens'
  <2>1. ~overlap /\ row.there =>
          /\ devices[d].there
          /\ \A i \in DOMAIN tokens :
               tokens[i].device = d /\ tokens[i].token[2] <= devices[d].count
                 => tokens[i].token[2] <= row.count
    BY <1>4, <1>8, <1>9
  <2> QED BY <1>2, <2>1, CountReplaced DEF Becomes
<1> QED BY <1>7, <1>10 DEF Counts

\* A new token is within the count of its device.
LEMMA CountOfRow ==
  ASSUME CountInv, NEW s \in Slot, JobRow(s) \/ PaymentRow(s), ~Refuse(s)
  PROVE  Counts'
<1> DEFINE d == req[s].id
           r == [req[s] EXCEPT !.at = "send"]
           t == NewToken(s)
<1>1. TypeInv /\ Alone /\ TablesOK /\ req[s] \in Request BY TypeFacts DEF CountInv
<1>2. /\ req[s].op \in {"job", "payment"} /\ req[s].at = "row"
      /\ t \in TokenRow /\ tokens' = Append(tokens, t)
      /\ Becomes(s, r) /\ Busy(s) /\ UNCHANGED <<devices, corrected>>
  BY <1>1, AddTokenDoes DEF Goto, Set, Becomes, Busy
<1>3. r.at = "send" BY <1>1 DEF Request
<1>4. t.token[2] = req[s].n /\ t.device = d BY DEF NewToken, Token
<1>5. d <= Len(devices) BY <1>1, <1>2, DeviceNamed
<1> HIDE DEF t, r, d
<1>6. \A i \in DOMAIN tokens' :
        (i \in DOMAIN tokens /\ tokens'[i] = tokens[i]) \/ tokens'[i] = t
  BY <1>1, <1>2 DEF TablesOK
<1>7. TokensKnown' BY <1>2, <1>4, <1>5, <1>6 DEF CountInv, TokensKnown
<1>8. CountIsNext' BY <1>1, <1>2, <1>3, CountOfOne
<1>9. CountCoversTokens'
  <2> SUFFICES ASSUME ~overlap, NEW e \in Devices, e \notin corrected,
                      NEW i \in DOMAIN tokens', tokens'[i].device = e
               PROVE  tokens'[i].token[2] <= devices[e].count
    BY <1>2 DEF CountCoversTokens, Becomes, Devices
  <2>1. CASE i \in DOMAIN tokens /\ tokens'[i] = tokens[i]
    BY <2>1 DEF CountInv, CountCoversTokens
  <2>2. CASE tokens'[i] = t
    <3>1. req[s].n <= devices[d].count BY <1>2 DEF CountInv, CountIsNext, d
    <3> QED BY <1>4, <2>2, <3>1
  <2> QED BY <1>6, <2>1, <2>2
<1> QED BY <1>7, <1>8, <1>9 DEF Counts

LEMMA CountNext == CountInv /\ [Next]_vars => CountInv'
<1> SUFFICES ASSUME CountInv, [Next]_vars PROVE CountInv' OBVIOUS
<1>1. TypeInv' /\ TypeInv /\ Alone BY TypeNext DEF CountInv
<1> SUFFICES Alone' /\ Counts' BY <1>1 DEF CountInv, Counts
<1>2. CASE UNCHANGED vars
  BY <1>2 DEF vars, tables, CountInv, Counts, Alone, Busy, TokensKnown, CountIsNext,
     CountCoversTokens, Devices
<1>3. CASE Next
  <2>1. PICK s \in Slot : Start(s) \/ Fail(s) \/ Step(s) BY <1>3 DEF Next
  <2>2. req[s] \in Request /\ req \in [Slot -> Request] BY <1>1, TypeFacts
  <2>3. CASE Start(s)
    <3>1. PICK r : Begin(s, r) /\ Fresh(r) BY <1>1, <2>3, Starts
    <3>2. /\ Alone' /\ (~overlap' => ~overlap) /\ req' = [req EXCEPT ![s] = r]
          /\ UNCHANGED tables
      BY <1>1, <3>1, AloneAccepted
    <3> QED BY <3>1, <3>2, CountKept DEF Fresh, tables
  <2>4. ASSUME NEW r, Becomes(s, r), r.at \notin {"count", "row"}, Busy(s) \/ r.op = "idle",
               UNCHANGED <<devices, tokens, corrected>>
        PROVE  Alone' /\ Counts'
    BY <1>1, <2>2, <2>4, AloneKept, CountKept DEF Becomes
  <2>5. ASSUME Finish(s), UNCHANGED <<devices, tokens, corrected>>
        PROVE  Alone' /\ Counts'
    BY <2>4, <2>5 DEF Finish, Set, Becomes, Idle
  <2>6. CASE Refuse(s) BY <2>5, <2>6 DEF Refuse, tables
  <2>7. ASSUME Finish(s) PROVE Alone'
    BY <1>1, <2>2, <2>7, AloneKept DEF Finish, Set, Becomes, Idle
  <2>8. CASE ReadStep(s)
    <3>1. UNCHANGED <<devices, tokens, corrected, sent>> /\ Busy(s)
      BY <1>1, <2>8, Reads DEF tables, Busy
    <3>2. CASE Finish(s) BY <2>5, <3>1, <3>2
    <3>3. ASSUME NEW a \in {"write", "read"}, Goto(s, a) PROVE Alone' /\ Counts'
      <4>1. [req[s] EXCEPT !.at = a].at \notin {"count", "row"} BY <2>2 DEF Request
      <4> QED BY <2>4, <3>1, <3>3, <4>1 DEF Goto, Set, Becomes
    <3>4. CASE req[s].op \in {"job", "payment"} /\ Becomes(s, Counted(s))
      BY <1>1, <2>2, <3>1, <3>4, AloneKept, CountComputed DEF tables
    <3> QED BY <1>1, <2>8, <3>2, <3>3, <3>4, Reads
  <2>9. CASE CreateDevice(s) /\ ~Refuse(s)
    <3>1. PICK row : Creates(row) BY <1>1, <2>9, CreateDeviceDoes
    <3>2. Becomes(s, Idle) /\ Busy(s) /\ Idle.at = "idle" /\ Finish(s)
      BY <1>1, <2>9, CreateDeviceDoes DEF Finish, Set, Becomes, Busy, Idle
    <3> QED BY <2>7, <3>1, <3>2, CountCreated
  <2>10. CASE Upsert(s)
    <3>1. PICK d \in req[s].serial :
            /\ req[s].op = "upload" /\ req[s].at = "rows"
            /\ Becomes(s, [req[s] EXCEPT !.serial = @ \ {d}])
            /\ (\E row : Creates(row)) \/ UNCHANGED tables
      BY <1>1, <2>10, UpsertDoes
    <3>2. [req[s] EXCEPT !.serial = @ \ {d}].at = "rows" /\ Busy(s)
      BY <2>2, <3>1 DEF Request, Busy
    <3>3. ASSUME NEW row, Creates(row) PROVE Alone' /\ Counts'
      BY <1>1, <2>2, <3>1, <3>2, <3>3, AloneKept, CountCreated
    <3>4. CASE UNCHANGED tables BY <2>4, <3>1, <3>2, <3>4 DEF tables
    <3> QED BY <3>1, <3>3, <3>4
  <2>11. CASE UpdateDevice(s) /\ ~Refuse(s)
    BY <1>1, <2>7, <2>11, CountSet, UpdateDoes
  <2>12. CASE DeleteDevice(s) /\ ~Refuse(s)
    BY <1>1, <2>7, <2>12, DeleteDoes, CountDeleted
  <2>13. CASE (JobCount(s) \/ PaymentCount(s)) /\ ~Refuse(s)
    <3>1. Becomes(s, [req[s] EXCEPT !.at = "row"]) /\ Busy(s)
      BY <1>1, <2>13, WriteCountDoes DEF Goto, Set, Becomes, Busy
    <3> QED BY <1>1, <2>2, <2>13, <3>1, AloneKept, CountWritten
  <2>14. CASE (JobRow(s) \/ PaymentRow(s)) /\ ~Refuse(s)
    <3>1. Becomes(s, [req[s] EXCEPT !.at = "send"]) /\ Busy(s)
      BY <1>1, <2>14, AddTokenDoes DEF Goto, Set, Becomes, Busy
    <3> QED BY <1>1, <2>2, <2>14, <3>1, AloneKept, CountOfRow
  <2>15. CASE JobSend(s) \/ PaymentSend(s)
    BY <1>1, <2>5, <2>15, SendDoes
  <2> QED BY <2>1, <2>3, <2>6, <2>8, <2>9, <2>10, <2>11, <2>12, <2>13, <2>14, <2>15
      DEF Fail, Step, ReadStep
<1> QED BY <1>2, <1>3

LEMMA CountInit == Init => CountInv
<1> SUFFICES ASSUME Init PROVE CountInv OBVIOUS
<1>1. TypeInv BY TypeInit
<1>2. \A s \in Slot : ~Busy(s) BY DEF Init, InitRequests, Idle, Busy
<1>3. tokens = <<>> BY DEF Init
<1> QED BY <1>1, <1>2, <1>3 DEF CountInv, Alone, TokensKnown, CountIsNext, CountCoversTokens

\* The count of a device that nobody changes is at or past every token it has,
\* as long as no two requests overlap: it is written before the token, an
\* update leaves it, and an id is never given again.
THEOREM CountCorrect == Spec => []CountCoversTokens
<1>1. CountInv => CountCoversTokens BY DEF CountInv
<1> QED BY CountInit, CountNext, <1>1, PTL DEF Spec
=============================================================================

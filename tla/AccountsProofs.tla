---------------------------- MODULE AccountsProofs ----------------------------
(***************************************************************************)
(* Proofs about Accounts: every table keeps its shape, a link that is dead *)
(* stays dead, and a user has one reset link that works unless requests    *)
(* overlap, for any users (finitely many of them are invited), passwords,  *)
(* slots and numbers of requests.                                          *)
(***************************************************************************)
EXTENDS Accounts, SequenceTheorems, FiniteSetTheorems, TLAPS

-----------------------------------------------------------------------------
(* Requests *)

\* The tables, without the requests.
TablesOK ==
  /\ password \in [User -> Password \cup {Random}]
  /\ active \subseteq User
  /\ links \in Seq(LinkRow)
  /\ mailed \subseteq Nat
  /\ dead \subseteq Nat
  /\ issued \in Nat

\* The request of slot s becomes r.
Becomes(s, r) == req' = [req EXCEPT ![s] = r] /\ UNCHANGED <<started, overlap>>

\* What TypeInv says of the tables and of the request in a slot.
LEMMA TypeFacts ==
  ASSUME TypeInv, NEW s \in Slot
  PROVE  /\ TablesOK
         /\ req \in [Slot -> Request] /\ req[s] \in Request /\ Named(req[s])
         /\ started \in Nat /\ overlap \in BOOLEAN
BY DEF TypeInv, TypeOK, RequestsOK, TablesOK, RequestsName

\* The rows are numbered, and each is one.
LEMMA RowsAreRows ==
  ASSUME TypeInv
  PROVE  /\ links \in Seq(LinkRow) /\ Len(links) \in Nat /\ DOMAIN links = 1..Len(links)
         /\ \A i \in DOMAIN links : links[i] \in LinkRow
<1>1. links \in Seq(LinkRow) BY DEF TypeInv, TypeOK
<1> QED BY <1>1, LenProperties, ElementOfSeq

\* A step of the request in slot s; rows are never removed.
LEMMA Served ==
  ASSUME TypeInv, NEW s \in Slot, NEW r \in Request, Named(r), TablesOK',
         req' = [req EXCEPT ![s] = r], started' \in Nat, overlap' \in BOOLEAN,
         DOMAIN links \subseteq DOMAIN links'
  PROVE  TypeInv'
<1>1. req \in [Slot -> Request] /\ RequestsName BY DEF TypeInv, TypeOK, RequestsOK
<1>2. req' \in [Slot -> Request] BY <1>1
<1>3. TypeOK' BY <1>2 DEF TypeOK, TablesOK, RequestsOK
<1>4. RequestsName' BY <1>1 DEF RequestsName, Named
<1> QED BY <1>3, <1>4 DEF TypeInv

LEMMA TypeBecomes ==
  ASSUME TypeInv, NEW s \in Slot, NEW r \in Request, Named(r), TablesOK', Becomes(s, r),
         DOMAIN links \subseteq DOMAIN links'
  PROVE  TypeInv'
<1>1. started \in Nat /\ overlap \in BOOLEAN BY TypeFacts
<1> QED BY <1>1, Served DEF Becomes

LEMMA IdleIsRequest == Idle \in Request /\ Named(Idle) /\ Idle.link = NoLink /\ ~Verified(Idle)
BY DEF Idle, Request, Op, At, Named, Verified, NoLink

LEMMA TypeEnds ==
  ASSUME TypeInv, NEW s \in Slot, Finish(s), TablesOK', DOMAIN links \subseteq DOMAIN links'
  PROVE  TypeInv'
BY IdleIsRequest, TypeBecomes DEF Finish, Set, Becomes

LEMMA TypeRefused ==
  ASSUME TypeInv, NEW s \in Slot, Refuse(s)
  PROVE  TypeInv'
<1>1. TablesOK' BY TypeFacts DEF TablesOK, Refuse, tables
<1> QED BY <1>1, TypeEnds DEF Refuse, tables

LEMMA TypeAccepted ==
  ASSUME TypeInv, NEW s \in Slot, NEW r \in Request, Begin(s, r), Named(r)
  PROVE  TypeInv'
<1>1. TablesOK /\ started \in Nat /\ overlap \in BOOLEAN BY TypeFacts
<1>2. /\ req' = [req EXCEPT ![s] = r] /\ started' = started + 1 /\ UNCHANGED tables
      /\ overlap' \in BOOLEAN
  BY <1>1 DEF Begin, Accept
<1>3. TablesOK' /\ UNCHANGED links BY <1>1, <1>2 DEF TablesOK, tables
<1>4. started' \in Nat BY <1>1, <1>2
<1> QED BY <1>2, <1>3, <1>4, Served

\* What a request is when it arrives.
Fresh(r) ==
  /\ r \in Request /\ Named(r) /\ ~Verified(r)
  /\ r.at \in {"find", "verify", "user"}
  /\ r.link \in mailed \cup {NoLink}

LEMMA Starts ==
  ASSUME TypeInv, NEW s \in Slot, Start(s)
  PROVE  \E r : Fresh(r) /\ Begin(s, r)
<1> USE DEF Idle, Request, Op, At, Named, Verified, NoLink, Fresh
<1>1. mailed \subseteq Nat BY DEF TypeInv, TypeOK
<1>2. CASE AskForgotPassword(s)
  <2>1. PICK u \in User : Begin(s, [Idle EXCEPT !.op = "forgot", !.at = "find", !.user = {u}])
    BY <1>2 DEF AskForgotPassword
  <2>2. Fresh([Idle EXCEPT !.op = "forgot", !.at = "find", !.user = {u}]) OBVIOUS
  <2> QED BY <2>1, <2>2
<1>3. CASE AskResetPassword(s)
  <2>1. PICK n \in mailed, p \in Password :
          Begin(s, [Idle EXCEPT !.op = "reset", !.at = "verify", !.link = n, !.new = p])
    BY <1>3 DEF AskResetPassword
  <2>2. Fresh([Idle EXCEPT !.op = "reset", !.at = "verify", !.link = n, !.new = p]) BY <1>1
  <2> QED BY <2>1, <2>2
<1>4. CASE AskCreateUserPassword(s)
  <2>1. PICK n \in mailed, p \in Password :
          Begin(s, [Idle EXCEPT !.op = "create", !.at = "verify", !.link = n, !.new = p])
    BY <1>4 DEF AskCreateUserPassword
  <2>2. Fresh([Idle EXCEPT !.op = "create", !.at = "verify", !.link = n, !.new = p]) BY <1>1
  <2> QED BY <2>1, <2>2
<1>5. CASE AskChangePassword(s)
  <2>1. PICK u \in User, o \in Password, p \in Password :
          Begin(s, [Idle EXCEPT !.op = "change", !.at = "user", !.user = {u}, !.old = o,
                                !.new = p])
    BY <1>5 DEF AskChangePassword
  <2>2. Fresh([Idle EXCEPT !.op = "change", !.at = "user", !.user = {u}, !.old = o, !.new = p])
    OBVIOUS
  <2> QED BY <2>1, <2>2
<1> QED BY <1>2, <1>3, <1>4, <1>5 DEF Start

-----------------------------------------------------------------------------
(* The steps of a request *)

\* The user of a request.
LEMMA UserNamed ==
  ASSUME TypeInv, NEW s \in Slot,
         req[s].op \in {"forgot", "change"} \/ req[s].at \in {"password", "consume"}
  PROVE  UserOf(s) \in User /\ UserOf(s) \in req[s].user
<1>1. req[s] \in Request /\ Named(req[s]) BY TypeFacts
<1>2. req[s].user # {} /\ req[s].user \subseteq User BY <1>1 DEF Named, Request
<1> QED BY <1>2 DEF UserOf

\* The request of slot s, once its row is found.
Found(s, i) == [req[s] EXCEPT !.at = "save", !.row = i, !.link = links[i].token]
Checked(s, i) == [req[s] EXCEPT !.at = "password", !.row = i, !.user = {links[i].user}]
Follows(s, i) == links[i].token = req[s].link /\ links[i].valid

\* What a step that only reads does.
Reads(s) == ForgotFind(s) \/ VerifyToken(s) \/ ChangeFind(s)
LEMMA ReadsDo ==
  ASSUME NEW s \in Slot, Reads(s)
  PROVE  /\ UNCHANGED tables
         /\ \/ Finish(s)
            \/ /\ Running(s, "change", "user")
               /\ Becomes(s, [req[s] EXCEPT !.at = "password"])
            \/ /\ Running(s, "forgot", "find")
               /\ \A i \in DOMAIN links :
                    IsReset(UserOf(s), i) => links[i].token = NoLink
               /\ Becomes(s, [req[s] EXCEPT !.at = "save"])
            \/ /\ Running(s, "forgot", "find")
               /\ \E i \in DOMAIN links :
                    /\ IsReset(UserOf(s), i) /\ links[i].token # NoLink
                    /\ Becomes(s, Found(s, i))
            \/ /\ req[s].at = "verify"
               /\ \E i \in DOMAIN links : Follows(s, i) /\ Becomes(s, Checked(s, i))
<1>1. CASE ChangeFind(s) BY <1>1 DEF ChangeFind, Refuse, Running, Goto, Set, Becomes
<1>2. CASE ForgotFind(s)
  BY <1>2 DEF ForgotFind, Set, Becomes, Found, IsReset, Running
<1>3. CASE VerifyToken(s)
  BY <1>3 DEF VerifyToken, Refuse, Set, Becomes, Checked, Follows
<1> QED BY <1>1, <1>2, <1>3 DEF Reads

LEMMA TypeReads ==
  ASSUME TypeInv, NEW s \in Slot, Reads(s)
  PROVE  TypeInv'
<1>1. TablesOK /\ req[s] \in Request /\ Named(req[s]) BY TypeFacts
<1>2. UNCHANGED tables BY ReadsDo
<1>3. TablesOK' /\ UNCHANGED links BY <1>1, <1>2 DEF TablesOK, tables
<1>4. \A i \in DOMAIN links : links[i] \in LinkRow /\ i \in Nat BY RowsAreRows
<1>5. ASSUME NEW r \in Request, Named(r), Becomes(s, r) PROVE TypeInv'
  BY <1>3, <1>5, TypeBecomes
<1>6. CASE Finish(s) BY <1>3, <1>6, TypeEnds
<1>7. CASE /\ Running(s, "change", "user")
           /\ Becomes(s, [req[s] EXCEPT !.at = "password"])
  <2>1. [req[s] EXCEPT !.at = "password"] \in Request /\ Named([req[s] EXCEPT !.at = "password"])
    BY <1>1, <1>7 DEF Request, At, Named, Verified, Running
  <2> QED BY <1>5, <1>7, <2>1
<1>8. CASE Running(s, "forgot", "find") /\ Becomes(s, [req[s] EXCEPT !.at = "save"])
  <2>1. [req[s] EXCEPT !.at = "save"] \in Request /\ Named([req[s] EXCEPT !.at = "save"])
    BY <1>1, <1>8 DEF Request, At, Named, Verified, Running
  <2> QED BY <1>5, <1>8, <2>1
<1>9. ASSUME Running(s, "forgot", "find"), NEW i \in DOMAIN links, Becomes(s, Found(s, i))
      PROVE  TypeInv'
  <2>1. Found(s, i) \in Request /\ Named(Found(s, i))
    BY <1>1, <1>4, <1>9 DEF Request, At, Named, Verified, Running, Found, LinkRow
  <2> QED BY <1>5, <1>9, <2>1
<1>10. ASSUME req[s].at = "verify", NEW i \in DOMAIN links, Becomes(s, Checked(s, i))
       PROVE  TypeInv'
  <2>1. Checked(s, i) \in Request /\ Named(Checked(s, i))
    BY <1>1, <1>4, <1>10 DEF Request, At, Named, Verified, Checked, LinkRow
  <2> QED BY <1>5, <1>10, <2>1
<1> QED BY <1>6, <1>7, <1>8, <1>9, <1>10, ReadsDo

\* forgotPassword gives the row it found the next link ...
Replaces(s, i) ==
  /\ i \in DOMAIN links /\ issued' = issued + 1
  /\ links' \in Seq(LinkRow) /\ DOMAIN links' = DOMAIN links
  /\ \A j \in DOMAIN links \ {i} : links'[j] = links[j]
  /\ links'[i].token = issued + 1 /\ links'[i].valid
  /\ links'[i].user = links[i].user /\ links'[i].type = links[i].type
  /\ dead' = dead \cup ({links[i].token} \ {NoLink})
  /\ Becomes(s, [req[s] EXCEPT !.at = "mail"])
  /\ UNCHANGED <<password, active, mailed>>

LEMMA ReplaceDoes ==
  ASSUME TypeInv, NEW s \in Slot, ForgotSave(s), req[s].row # 0
  PROVE  Replaces(s, req[s].row) /\ Running(s, "forgot", "save")
<1> DEFINE i == req[s].row
           row == [links[i] EXCEPT !.token = issued + 1, !.valid = TRUE]
<1>1. TablesOK /\ Named(req[s]) BY TypeFacts
<1>2. /\ Running(s, "forgot", "save") /\ issued' = issued + 1
      /\ links' = [links EXCEPT ![i].token = issued', ![i].valid = TRUE]
      /\ dead' = dead \cup ({links[i].token} \ {NoLink})
      /\ Becomes(s, [req[s] EXCEPT !.at = "mail"])
      /\ UNCHANGED <<password, active, mailed>>
  BY DEF ForgotSave, Goto, Set, Becomes
<1>3. i \in DOMAIN links /\ links[i] \in LinkRow BY <1>1, <1>2, RowsAreRows DEF Named, Running
<1>4. /\ row \in LinkRow /\ row.token = issued + 1 /\ row.valid
      /\ row.user = links[i].user /\ row.type = links[i].type
  <2>1. issued + 1 \in Nat BY <1>1 DEF TablesOK
  <2> QED BY <1>3, <2>1 DEF LinkRow
<1>5. links' = [links EXCEPT ![i] = row] BY <1>2, <1>3
<1> HIDE DEF row
<1>6. /\ links' \in Seq(LinkRow) /\ DOMAIN links' = DOMAIN links /\ links'[i] = row
      /\ \A j \in DOMAIN links \ {i} : links'[j] = links[j]
  BY <1>3, <1>4, <1>5, RowsAreRows, ExceptSeq
<1> QED BY <1>2, <1>3, <1>4, <1>6 DEF Replaces

\* ... or adds a row with it.
NewReset(s) ==
  [user |-> UserOf(s), type |-> "password_reset", token |-> issued + 1, valid |-> TRUE]
Adds(s) ==
  /\ issued' = issued + 1 /\ links' \in Seq(LinkRow)
  /\ DOMAIN links' = DOMAIN links \cup {Len(links) + 1} /\ Len(links) + 1 \notin DOMAIN links
  /\ \A j \in DOMAIN links : links'[j] = links[j]
  /\ links'[Len(links) + 1] = NewReset(s)
  /\ Becomes(s, [req[s] EXCEPT !.at = "mail", !.link = issued + 1])
  /\ UNCHANGED <<password, active, mailed, dead>>

LEMMA AddDoes ==
  ASSUME TypeInv, NEW s \in Slot, ForgotSave(s), req[s].row = 0
  PROVE  Adds(s) /\ Running(s, "forgot", "save")
<1>1. TablesOK BY TypeFacts
<1>2. /\ Running(s, "forgot", "save") /\ issued' = issued + 1
      /\ links' = Append(links, NewReset(s))
      /\ Becomes(s, [req[s] EXCEPT !.at = "mail", !.link = issued + 1])
      /\ UNCHANGED <<password, active, mailed, dead>>
  BY DEF ForgotSave, Set, Becomes, NewReset
<1>3. UserOf(s) \in User BY <1>2, UserNamed DEF Running
<1>4. NewReset(s) \in LinkRow BY <1>1, <1>3 DEF NewReset, LinkRow, Type, TablesOK
<1> HIDE DEF NewReset
<1>5. /\ links' \in Seq(LinkRow) /\ Len(links') = Len(links) + 1
      /\ DOMAIN links' = 1..(Len(links) + 1)
      /\ \A j \in 1..Len(links) : links'[j] = links[j]
      /\ links'[Len(links) + 1] = NewReset(s)
  BY <1>2, <1>4, RowsAreRows, AppendProperties
<1>6. Len(links) \in Nat /\ DOMAIN links = 1..Len(links) BY RowsAreRows
<1> QED BY <1>2, <1>5, <1>6 DEF Adds

\* The row of the link that was followed loses its token.
Consumes(s, i) ==
  /\ i \in DOMAIN links /\ links' \in Seq(LinkRow) /\ DOMAIN links' = DOMAIN links
  /\ \A j \in DOMAIN links \ {i} : links'[j] = links[j]
  /\ links'[i].token = NoLink /\ ~links'[i].valid
  /\ links'[i].user = links[i].user /\ links'[i].type = links[i].type
  /\ dead' = dead \cup ({req[s].link, links[i].token} \ {NoLink})
  /\ Finish(s)
  /\ UNCHANGED <<password, active, mailed, issued>>

LEMMA ConsumeDoes ==
  ASSUME TypeInv, NEW s \in Slot, ConsumeToken(s)
  PROVE  Consumes(s, req[s].row) /\ Verified(req[s])
<1> DEFINE i == req[s].row
           row == [links[i] EXCEPT !.token = NoLink, !.valid = FALSE]
<1>1. TablesOK /\ Named(req[s]) BY TypeFacts
<1>2. /\ req[s].at = "consume"
      /\ links' = [links EXCEPT ![i].token = NoLink, ![i].valid = FALSE]
      /\ dead' = dead \cup ({req[s].link, links[i].token} \ {NoLink})
      /\ Finish(s)
      /\ UNCHANGED <<password, active, mailed, issued>>
  BY DEF ConsumeToken
<1>3. Verified(req[s]) BY <1>2 DEF Verified
<1>4. i \in DOMAIN links /\ links[i] \in LinkRow BY <1>1, <1>3, RowsAreRows DEF Named
<1>5. /\ row \in LinkRow /\ row.token = NoLink /\ ~row.valid
      /\ row.user = links[i].user /\ row.type = links[i].type
  BY <1>4 DEF LinkRow, NoLink
<1>6. links' = [links EXCEPT ![i] = row] BY <1>2, <1>4
<1> HIDE DEF row
<1>7. /\ links' \in Seq(LinkRow) /\ DOMAIN links' = DOMAIN links /\ links'[i] = row
      /\ \A j \in DOMAIN links \ {i} : links'[j] = links[j]
  BY <1>4, <1>5, <1>6, RowsAreRows, ExceptSeq
<1> QED BY <1>2, <1>3, <1>4, <1>5, <1>7 DEF Consumes

\* A row stops working; its token stays in it.
Expires(i) ==
  /\ i \in DOMAIN links /\ links' \in Seq(LinkRow) /\ DOMAIN links' = DOMAIN links
  /\ \A j \in DOMAIN links \ {i} : links'[j] = links[j]
  /\ links'[i].token = links[i].token /\ ~links'[i].valid
  /\ links'[i].user = links[i].user /\ links'[i].type = links[i].type
  /\ UNCHANGED <<password, active, mailed, dead, issued, req, started, overlap>>

LEMMA ExpireDoes ==
  ASSUME TypeInv, Expire
  PROVE  \E i \in DOMAIN links : Expires(i)
<1>1. PICK i \in DOMAIN links : links' = [links EXCEPT ![i].valid = FALSE]
  BY DEF Expire
<1> DEFINE row == [links[i] EXCEPT !.valid = FALSE]
<1>2. links[i] \in LinkRow BY RowsAreRows
<1>3. /\ row \in LinkRow /\ row.token = links[i].token /\ ~row.valid
      /\ row.user = links[i].user /\ row.type = links[i].type
  BY <1>2 DEF LinkRow
<1>4. links' = [links EXCEPT ![i] = row] BY <1>1, <1>2
<1> HIDE DEF row
<1>5. /\ links' \in Seq(LinkRow) /\ DOMAIN links' = DOMAIN links /\ links'[i] = row
      /\ \A j \in DOMAIN links \ {i} : links'[j] = links[j]
  BY <1>3, <1>4, RowsAreRows, ExceptSeq
<1> QED BY <1>3, <1>5 DEF Expires, Expire

\* Steps that write a password or a mail, and no row.
Passes(s) == ForgotMail(s) \/ ResetPassword(s) \/ CreateUserPassword(s) \/ ChangePassword(s)
LEMMA PassesDo ==
  ASSUME TypeInv, NEW s \in Slot, Passes(s)
  PROVE  /\ TablesOK' /\ UNCHANGED <<links, dead, issued>>
         /\ mailed' \subseteq mailed \cup {req[s].link}
         /\ \/ Finish(s)
            \/ /\ Becomes(s, [req[s] EXCEPT !.at = "consume"])
               /\ Verified(req[s])
<1>1. TablesOK /\ req[s] \in Request BY TypeFacts
<1>2. /\ req[s].new \in Password \cup {Random} /\ req[s].link \in Nat
  BY <1>1 DEF Request
<1>3. CASE ForgotMail(s) BY <1>1, <1>2, <1>3 DEF ForgotMail, TablesOK
<1>4. ASSUME ResetPassword(s) \/ CreateUserPassword(s) \/ ChangePassword(s)
      PROVE  TablesOK' /\ UNCHANGED <<links, dead, issued, mailed>>
  <2>1. UserOf(s) \in User
    BY <1>4, UserNamed DEF ResetPassword, CreateUserPassword, ChangePassword, Running
  <2>2. /\ password' = [password EXCEPT ![UserOf(s)] = req[s].new]
        /\ active' \in {active, active \cup {UserOf(s)}}
        /\ UNCHANGED <<links, mailed, dead, issued>>
    BY <1>4 DEF ResetPassword, CreateUserPassword, ChangePassword
  <2> QED BY <1>1, <1>2, <2>1, <2>2 DEF TablesOK
<1>5. CASE ResetPassword(s)
  BY <1>4, <1>5 DEF ResetPassword, Running, Goto, Set, Becomes, Verified
<1>6. CASE CreateUserPassword(s)
  BY <1>4, <1>6 DEF CreateUserPassword, Running, Goto, Set, Becomes, Verified
<1>7. CASE ChangePassword(s) BY <1>4, <1>7 DEF ChangePassword
<1> QED BY <1>3, <1>5, <1>6, <1>7 DEF Passes

-----------------------------------------------------------------------------
(* Types *)

LEMMA TypePasses ==
  ASSUME TypeInv, NEW s \in Slot, Passes(s)
  PROVE  TypeInv'
<1>1. req[s] \in Request /\ Named(req[s]) BY TypeFacts
<1>2. CASE Finish(s) BY <1>2, PassesDo, TypeEnds
<1>3. CASE Becomes(s, [req[s] EXCEPT !.at = "consume"]) /\ Verified(req[s])
  <2>1. /\ [req[s] EXCEPT !.at = "consume"] \in Request
        /\ Named([req[s] EXCEPT !.at = "consume"])
    BY <1>1, <1>3 DEF Request, At, Named, Verified
  <2> QED BY <1>3, <2>1, PassesDo, TypeBecomes
<1> QED BY <1>2, <1>3, PassesDo

LEMMA TypeSave ==
  ASSUME TypeInv, NEW s \in Slot, ForgotSave(s)
  PROVE  TypeInv'
<1>1. TablesOK /\ req[s] \in Request /\ Named(req[s]) BY TypeFacts
<1>2. CASE req[s].row # 0
  <2>1. Replaces(s, req[s].row) /\ Running(s, "forgot", "save") BY <1>2, ReplaceDoes
  <2>2. links[req[s].row] \in LinkRow BY <2>1, RowsAreRows DEF Replaces
  <2>3. TablesOK' BY <1>1, <2>1, <2>2 DEF TablesOK, Replaces, LinkRow
  <2>4. /\ [req[s] EXCEPT !.at = "mail"] \in Request /\ Named([req[s] EXCEPT !.at = "mail"])
    BY <1>1, <2>1 DEF Request, At, Named, Verified, Running
  <2> QED BY <2>1, <2>3, <2>4, TypeBecomes DEF Replaces
<1>3. CASE req[s].row = 0
  <2> DEFINE r == [req[s] EXCEPT !.at = "mail", !.link = issued + 1]
  <2>1. Adds(s) /\ Running(s, "forgot", "save") BY <1>3, AddDoes
  <2>2. TablesOK' BY <1>1, <2>1 DEF TablesOK, Adds
  <2>3. r \in Request /\ Named(r)
    <3>1. issued + 1 \in Nat BY <1>1 DEF TablesOK
    <3> QED BY <1>1, <2>1, <3>1 DEF Request, At, Named, Verified, Running
  <2> QED BY <2>1, <2>2, <2>3, TypeBecomes DEF Adds
<1> QED BY <1>2, <1>3

LEMMA TypeConsume ==
  ASSUME TypeInv, NEW s \in Slot, ConsumeToken(s)
  PROVE  TypeInv'
<1>1. TablesOK /\ req[s] \in Request BY TypeFacts
<1>2. Consumes(s, req[s].row) BY ConsumeDoes
<1>3. links[req[s].row] \in LinkRow BY <1>2, RowsAreRows DEF Consumes
<1>4. TablesOK' BY <1>1, <1>2, <1>3 DEF TablesOK, Consumes, LinkRow, Request
<1> QED BY <1>2, <1>4, TypeEnds DEF Consumes

LEMMA TypeExpire ==
  ASSUME TypeInv, Expire
  PROVE  TypeInv'
<1>1. PICK i \in DOMAIN links : Expires(i) BY ExpireDoes
<1> QED BY <1>1 DEF TypeInv, TypeOK, RequestsOK, RequestsName, Named, Expires

LEMMA TypeNext == TypeInv /\ [Next]_vars => TypeInv'
<1> SUFFICES ASSUME TypeInv, [Next]_vars PROVE TypeInv' OBVIOUS
<1>1. CASE UNCHANGED vars
  BY <1>1 DEF vars, tables, TypeInv, TypeOK, RequestsOK, RequestsName, Named
<1>2. CASE Expire BY <1>2, TypeExpire
<1>3. ASSUME NEW s \in Slot, Start(s) \/ Fail(s) \/ Step(s) PROVE TypeInv'
  <2>1. CASE Start(s) BY <2>1, Starts, TypeAccepted DEF Fresh
  <2>2. CASE Fail(s) BY <2>2, TypeRefused DEF Fail
  <2>3. CASE Step(s)
    BY <2>3, TypeReads, TypePasses, TypeSave, TypeConsume DEF Step, Reads, Passes
  <2> QED BY <1>3, <2>1, <2>2, <2>3
<1> QED BY <1>1, <1>2, <1>3 DEF Next

\* The invitations: each is a row, and each has a token of its own.
Invited ==
  /\ issued \in Nat /\ links \in Seq(LinkRow) /\ DOMAIN links = 1..issued
  /\ \A i \in DOMAIN links :
       links[i].token = i /\ links[i].type = "email_verification" /\ links[i].valid
  /\ mailed = 1..issued /\ dead = {}

LEMMA InitDoes ==
  ASSUME IsFiniteSet(User), Init
  PROVE  Invited
<1> DEFINE N == Cardinality(User)
<1>1. N \in Nat BY FS_CardinalityType
<1>2. PICK invited \in [1..N -> User] :
        links = [n \in DOMAIN invited |-> NewAccount(invited[n], n)]
  BY DEF Init
<1>3. links = [n \in 1..N |-> NewAccount(invited[n], n)] BY <1>2
<1>4. \A n \in 1..N : /\ NewAccount(invited[n], n) \in LinkRow
                      /\ NewAccount(invited[n], n).token = n
                      /\ NewAccount(invited[n], n).type = "email_verification"
                      /\ NewAccount(invited[n], n).valid
  BY <1>1, <1>2 DEF NewAccount, LinkRow, Type
<1>5. issued = N /\ mailed = 1..N /\ dead = {} BY DEF Init
<1> HIDE DEF N, NewAccount
<1>6. links \in Seq(LinkRow) BY <1>1, <1>3, <1>4, IsASeq
<1> QED BY <1>1, <1>3, <1>4, <1>5, <1>6 DEF Invited

LEMMA TypeInit ==
  ASSUME IsFiniteSet(User), Init
  PROVE  TypeInv
<1>1. Invited BY InitDoes
<1>2. TablesOK BY <1>1 DEF Invited, TablesOK, Init
<1>3. RequestsOK(Request) /\ RequestsName
  BY IdleIsRequest DEF Init, InitRequests, RequestsOK, RequestsName, Idle
<1> QED BY <1>2, <1>3 DEF TypeInv, TypeOK, TablesOK

\* Every table and every request keeps its shape, whatever the requests about
\* passwords interleave, fail or expire.
THEOREM TypeCorrect ==
  ASSUME IsFiniteSet(User)
  PROVE  Spec => []TypeOK
<1>1. Init => TypeInv BY TypeInit
<1>2. TypeInv => TypeOK BY DEF TypeInv
<1> QED BY <1>1, TypeNext, <1>2, PTL DEF Spec

-----------------------------------------------------------------------------
(* Dead links stay dead *)

\* DeadInv, without the types.
Links == LinksAreFresh /\ TokensAreUnique /\ ValidHasToken /\ FollowsItsRow /\ DeadAreGone

\* The link of r is an old one, and if r follows it, in no row but its own.
Knows(r) ==
  /\ r.link <= issued
  /\ Verified(r) => /\ r.link # NoLink
                    /\ \A i \in DOMAIN links : links[i].token = r.link => i = r.row

\* A step that writes no row.
LEMMA LinksKept ==
  ASSUME DeadInv, NEW s \in Slot, NEW r, req' = [req EXCEPT ![s] = r], Knows(r),
         UNCHANGED <<links, dead, issued>>, mailed' \subseteq mailed \cup {req[s].link}
  PROVE  Links'
<1>1. req'[s] = r /\ \A o \in Slot \ {s} : req'[o] = req[o] BY TypeFacts DEF DeadInv
<1>2. LinksAreFresh' BY <1>1 DEF DeadInv, LinksAreFresh, Knows
<1>3. FollowsItsRow' BY <1>1 DEF DeadInv, FollowsItsRow, Knows
<1>4. TokensAreUnique' /\ ValidHasToken' /\ DeadAreGone'
  BY DEF DeadInv, TokensAreUnique, ValidHasToken, DeadAreGone
<1> QED BY <1>2, <1>3, <1>4 DEF Links

LEMMA LinksEnd ==
  ASSUME DeadInv, NEW s \in Slot, Finish(s),
         UNCHANGED <<links, dead, issued>>, mailed' \subseteq mailed \cup {req[s].link}
  PROVE  Links'
<1>1. issued \in Nat BY TypeFacts DEF DeadInv, TablesOK
<1>2. Knows(Idle) BY <1>1, IdleIsRequest DEF Knows, NoLink
<1> QED BY <1>2, LinksKept DEF Finish, Set

LEMMA LinksRead ==
  ASSUME DeadInv, NEW s \in Slot, Reads(s)
  PROVE  Links'
<1>1. req[s] \in Request /\ TypeInv BY TypeFacts DEF DeadInv
<1>2. UNCHANGED <<links, dead, issued, mailed>> BY ReadsDo DEF tables
<1>3. req[s].link <= issued /\ \A i \in DOMAIN links : links[i].token <= issued
  BY DEF DeadInv, LinksAreFresh
<1>4. ASSUME NEW r, Becomes(s, r), Knows(r) PROVE Links'
  BY <1>2, <1>4, LinksKept DEF Becomes
<1>5. CASE Finish(s) BY <1>2, <1>5, LinksEnd
<1>6. CASE /\ Running(s, "change", "user")
           /\ Becomes(s, [req[s] EXCEPT !.at = "password"])
  <2>1. Knows([req[s] EXCEPT !.at = "password"])
    BY <1>1, <1>3, <1>6 DEF Knows, Verified, Request, Running
  <2> QED BY <1>4, <1>6, <2>1
<1>7. CASE Becomes(s, [req[s] EXCEPT !.at = "save"])
  <2>1. Knows([req[s] EXCEPT !.at = "save"])
    BY <1>1, <1>3 DEF Knows, Verified, Request
  <2> QED BY <1>4, <1>7, <2>1
<1>8. ASSUME NEW i \in DOMAIN links, Becomes(s, Found(s, i)) PROVE Links'
  <2>1. Knows(Found(s, i)) BY <1>1, <1>3 DEF Knows, Verified, Request, Found
  <2> QED BY <1>4, <1>8, <2>1
<1>9. ASSUME NEW i \in DOMAIN links, Follows(s, i), Becomes(s, Checked(s, i)) PROVE Links'
  <2>1. /\ Checked(s, i).link = links[i].token /\ Checked(s, i).row = i
    BY <1>1, <1>9 DEF Follows, Checked, Request
  <2>2. links[i].token # NoLink BY <1>9 DEF Follows, DeadInv, ValidHasToken
  <2>3. \A j \in DOMAIN links : links[j].token = links[i].token => j = i
    BY <2>2 DEF DeadInv, TokensAreUnique
  <2>4. Knows(Checked(s, i)) BY <1>3, <2>1, <2>2, <2>3 DEF Knows
  <2> QED BY <1>4, <1>9, <2>4
<1> QED BY <1>5, <1>6, <1>7, <1>8, <1>9, ReadsDo

LEMMA LinksPass ==
  ASSUME DeadInv, NEW s \in Slot, Passes(s)
  PROVE  Links'
<1>1. req[s] \in Request /\ TypeInv BY TypeFacts DEF DeadInv
<1>2. CASE Finish(s) BY <1>1, <1>2, PassesDo, LinksEnd
<1>3. CASE Becomes(s, [req[s] EXCEPT !.at = "consume"]) /\ Verified(req[s])
  <2>1. /\ [req[s] EXCEPT !.at = "consume"].link = req[s].link
        /\ [req[s] EXCEPT !.at = "consume"].row = req[s].row
    BY <1>1 DEF Request
  <2>2. Knows([req[s] EXCEPT !.at = "consume"])
    BY <1>3, <2>1 DEF Knows, DeadInv, LinksAreFresh, FollowsItsRow
  <2> QED BY <1>1, <1>3, <2>2, PassesDo, LinksKept DEF Becomes
<1> QED BY <1>1, <1>2, <1>3, PassesDo

\* The token of a row is replaced: it dies, and no other row has it.
LEMMA LinksReplaced ==
  ASSUME DeadInv, NEW s \in Slot, NEW i, Replaces(s, i)
  PROVE  Links'
<1> DEFINE r == [req[s] EXCEPT !.at = "mail"]
<1>1. /\ req[s] \in Request /\ req \in [Slot -> Request] /\ TypeInv /\ issued \in Nat
      /\ dead \subseteq Nat /\ mailed \subseteq Nat
  BY TypeFacts DEF DeadInv, TablesOK
<1>2. req'[s] = r /\ \A o \in Slot \ {s} : req'[o] = req[o]
  BY <1>1 DEF Replaces, Becomes
<1>3. r.link = req[s].link /\ ~Verified(r) BY <1>1 DEF Request, Verified
<1> HIDE DEF r
<1>4. \A j \in DOMAIN links : links[j].token \in Nat BY <1>1, RowsAreRows DEF LinkRow
<1>5. \A o \in Slot : req[o].link \in Nat BY <1>1 DEF Request
<1>6. /\ \A j \in DOMAIN links : links[j].token <= issued
      /\ \A o \in Slot : req[o].link <= issued
      /\ \A n \in mailed \cup dead : n <= issued
  BY DEF DeadInv, LinksAreFresh
<1> USE DEF NoLink
<1>7. /\ i \in DOMAIN links /\ DOMAIN links' = DOMAIN links
      /\ \A j \in DOMAIN links : links'[j].token = IF j = i THEN issued + 1 ELSE links[j].token
      /\ \A j \in DOMAIN links \ {i} : links'[j].valid = links[j].valid
      /\ issued' = issued + 1 /\ UNCHANGED mailed
      /\ dead' = dead \cup ({links[i].token} \ {NoLink})
  BY DEF Replaces
<1>8. LinksAreFresh'
  <2>1. \A j \in DOMAIN links' : links'[j].token <= issued + 1 BY <1>1, <1>4, <1>6, <1>7
  <2>2. \A o \in Slot : req'[o].link <= issued + 1 BY <1>1, <1>2, <1>3, <1>5, <1>6
  <2>3. \A n \in mailed' \cup dead' : n <= issued + 1 BY <1>1, <1>4, <1>6, <1>7
  <2> QED BY <1>7, <2>1, <2>2, <2>3 DEF LinksAreFresh
<1>9. TokensAreUnique' BY <1>1, <1>6, <1>7 DEF DeadInv, TokensAreUnique
<1>10. ValidHasToken' BY <1>1, <1>7 DEF DeadInv, ValidHasToken
<1>11. FollowsItsRow'
  BY <1>1, <1>2, <1>3, <1>5, <1>6, <1>7 DEF DeadInv, FollowsItsRow
<1>12. DeadAreGone'
  BY <1>1, <1>6, <1>7 DEF DeadInv, DeadAreGone, TokensAreUnique
<1> QED BY <1>8, <1>9, <1>10, <1>11, <1>12 DEF Links

LEMMA LinksAdded ==
  ASSUME DeadInv, NEW s \in Slot, Adds(s)
  PROVE  Links'
<1> DEFINE r == [req[s] EXCEPT !.at = "mail", !.link = issued + 1]
           k == Len(links) + 1
<1>1. /\ req[s] \in Request /\ req \in [Slot -> Request] /\ TypeInv /\ issued \in Nat
      /\ dead \subseteq Nat /\ mailed \subseteq Nat
  BY TypeFacts DEF DeadInv, TablesOK
<1>2. req'[s] = r /\ \A o \in Slot \ {s} : req'[o] = req[o]
  BY <1>1 DEF Adds, Becomes
<1>3. r.link = issued + 1 /\ ~Verified(r) BY <1>1 DEF Request, Verified
<1>4. /\ issued' = issued + 1 /\ UNCHANGED <<mailed, dead>>
      /\ DOMAIN links' = DOMAIN links \cup {k} /\ k \notin DOMAIN links
      /\ \A j \in DOMAIN links : links'[j] = links[j]
      /\ links'[k].token = issued + 1
  BY DEF Adds, NewReset
<1> HIDE DEF r, k
<1>5. \A j \in DOMAIN links : links[j].token \in Nat BY <1>1, RowsAreRows DEF LinkRow
<1>6. \A o \in Slot : req[o].link \in Nat BY <1>1 DEF Request
<1>7. /\ \A j \in DOMAIN links : links[j].token <= issued
      /\ \A o \in Slot : req[o].link <= issued
      /\ \A n \in mailed \cup dead : n <= issued
  BY DEF DeadInv, LinksAreFresh
<1> USE DEF NoLink
<1>8. LinksAreFresh'
  <2>1. \A j \in DOMAIN links' : links'[j].token <= issued + 1 BY <1>1, <1>4, <1>5, <1>7
  <2>2. \A o \in Slot : req'[o].link <= issued + 1 BY <1>1, <1>2, <1>3, <1>6, <1>7
  <2>3. \A n \in mailed' \cup dead' : n <= issued + 1 BY <1>1, <1>4, <1>7
  <2> QED BY <1>4, <2>1, <2>2, <2>3 DEF LinksAreFresh
<1>9. TokensAreUnique'
  <2>1. \A j \in DOMAIN links : links[j].token # issued + 1 BY <1>1, <1>5, <1>7
  <2> QED BY <1>4, <2>1 DEF DeadInv, TokensAreUnique
<1>10. ValidHasToken' BY <1>1, <1>4 DEF DeadInv, ValidHasToken
<1>11. FollowsItsRow'
  <2>1. \A o \in Slot : req[o].link # issued + 1 BY <1>1, <1>6, <1>7
  <2> QED BY <1>2, <1>3, <1>4, <2>1 DEF DeadInv, FollowsItsRow
<1>12. DeadAreGone'
  <2>1. issued + 1 \notin dead BY <1>1, <1>7
  <2> QED BY <1>4, <2>1 DEF DeadInv, DeadAreGone
<1> QED BY <1>8, <1>9, <1>10, <1>11, <1>12 DEF Links

\* The link that was followed dies, and with it the one its row has by now.
LEMMA LinksConsumed ==
  ASSUME DeadInv, NEW s \in Slot, Verified(req[s]), Consumes(s, req[s].row)
  PROVE  Links'
<1> DEFINE i == req[s].row
<1>1. /\ req[s] \in Request /\ req \in [Slot -> Request] /\ TypeInv /\ issued \in Nat
  BY TypeFacts DEF DeadInv, TablesOK
<1>2. req'[s] = Idle /\ \A o \in Slot \ {s} : req'[o] = req[o]
  BY <1>1 DEF Consumes, Finish, Set
<1>3. \A j \in DOMAIN links : links[j].token \in Nat BY <1>1, RowsAreRows DEF LinkRow
<1>4. /\ \A j \in DOMAIN links : links[j].token <= issued
      /\ \A o \in Slot : req[o].link <= issued
      /\ \A n \in mailed \cup dead : n <= issued
  BY DEF DeadInv, LinksAreFresh
<1>5. /\ i \in DOMAIN links /\ DOMAIN links' = DOMAIN links
      /\ \A j \in DOMAIN links : links'[j].token = IF j = i THEN NoLink ELSE links[j].token
      /\ \A j \in DOMAIN links \ {i} : links'[j].valid = links[j].valid
      /\ ~links'[i].valid /\ UNCHANGED <<issued, mailed>>
      /\ dead' = dead \cup ({req[s].link, links[i].token} \ {NoLink})
  BY DEF Consumes
<1> HIDE DEF i
<1>6. LinksAreFresh'
  <2>1. NoLink <= issued BY <1>1 DEF NoLink
  <2>2. \A o \in Slot : req'[o].link <= issued BY <1>2, <1>4, <2>1, IdleIsRequest
  <2>3. \A j \in DOMAIN links' : links'[j].token <= issued BY <1>4, <1>5, <2>1
  <2>4. \A n \in mailed' \cup dead' : n <= issued BY <1>4, <1>5
  <2> QED BY <1>5, <2>2, <2>3, <2>4 DEF LinksAreFresh
<1>7. TokensAreUnique' BY <1>5 DEF DeadInv, TokensAreUnique
<1>8. ValidHasToken' BY <1>5 DEF DeadInv, ValidHasToken
<1>9. FollowsItsRow' BY <1>2, <1>5, IdleIsRequest DEF DeadInv, FollowsItsRow
<1>10. DeadAreGone'
  <2>1. NoLink \notin dead' BY <1>5 DEF DeadInv, DeadAreGone
  <2>2. \A j \in DOMAIN links : links[j].token = req[s].link => j = i
    BY DEF DeadInv, FollowsItsRow, i
  <2>3. ASSUME NEW j \in DOMAIN links, j # i PROVE links[j].token \notin dead'
    <3>1. links[j].token \notin dead BY DEF DeadInv, DeadAreGone
    <3>2. links[j].token # req[s].link BY <2>2, <2>3
    <3>3. links[j].token # NoLink => links[j].token # links[i].token
      BY <1>5, <2>3 DEF DeadInv, TokensAreUnique
    <3> QED BY <1>5, <3>1, <3>2, <3>3
  <2> QED BY <1>5, <2>1, <2>3 DEF DeadAreGone
<1> QED BY <1>6, <1>7, <1>8, <1>9, <1>10 DEF Links

LEMMA LinksExpire ==
  ASSUME DeadInv, NEW i, Expires(i)
  PROVE  Links'
<1>1. /\ DOMAIN links' = DOMAIN links
      /\ \A j \in DOMAIN links : /\ links'[j].token = links[j].token
                                 /\ links'[j].valid => links[j].valid
      /\ UNCHANGED <<issued, mailed, dead, req>>
  BY DEF Expires
<1>2. LinksAreFresh' BY <1>1 DEF DeadInv, LinksAreFresh
<1>3. TokensAreUnique' /\ ValidHasToken' BY <1>1 DEF DeadInv, TokensAreUnique, ValidHasToken
<1>4. FollowsItsRow' BY <1>1 DEF DeadInv, FollowsItsRow
<1>5. DeadAreGone' BY <1>1 DEF DeadInv, DeadAreGone
<1> QED BY <1>2, <1>3, <1>4, <1>5 DEF Links

LEMMA DeadNext == DeadInv /\ [Next]_vars => DeadInv'
<1> SUFFICES ASSUME DeadInv, [Next]_vars PROVE DeadInv' OBVIOUS
<1>1. TypeInv' /\ TypeInv BY TypeNext DEF DeadInv
<1> SUFFICES Links' BY <1>1 DEF DeadInv, Links
<1>2. CASE UNCHANGED vars
  BY <1>2 DEF vars, tables, DeadInv, Links, LinksAreFresh, TokensAreUnique, ValidHasToken,
     FollowsItsRow, DeadAreGone
<1>3. CASE Expire BY <1>1, <1>3, ExpireDoes, LinksExpire
<1>4. ASSUME NEW s \in Slot, Start(s) \/ Fail(s) \/ Step(s) PROVE Links'
  <2>1. CASE Start(s)
    <3>1. PICK r : Begin(s, r) /\ Fresh(r) BY <1>1, <2>1, Starts
    <3>2. req' = [req EXCEPT ![s] = r] /\ UNCHANGED <<links, dead, issued, mailed>>
      BY <3>1 DEF Begin, Accept, tables
    <3>3. issued \in Nat BY <1>1, TypeFacts DEF TablesOK
    <3>4. Knows(r) BY <3>1, <3>3 DEF Fresh, Knows, DeadInv, LinksAreFresh, NoLink
    <3> QED BY <3>2, <3>4, LinksKept
  <2>2. CASE Fail(s) BY <2>2, LinksEnd DEF Fail, Refuse, tables
  <2>3. CASE Step(s)
    <3>1. CASE Reads(s) BY <3>1, LinksRead
    <3>2. CASE Passes(s) BY <3>2, LinksPass
    <3>3. CASE ForgotSave(s) BY <1>1, <3>3, ReplaceDoes, LinksReplaced, AddDoes, LinksAdded
    <3>4. CASE ConsumeToken(s) BY <1>1, <3>4, ConsumeDoes, LinksConsumed
    <3> QED BY <2>3, <3>1, <3>2, <3>3, <3>4 DEF Step, Reads, Passes
  <2> QED BY <1>4, <2>1, <2>2, <2>3
<1> QED BY <1>2, <1>3, <1>4 DEF Next

LEMMA DeadInit ==
  ASSUME IsFiniteSet(User), Init
  PROVE  DeadInv
<1>1. TypeInv /\ Invited BY TypeInit, InitDoes
<1>2. \A s \in Slot : req[s] = Idle BY DEF Init, InitRequests
<1> QED BY <1>1, <1>2, IdleIsRequest
    DEF Invited, DeadInv, LinksAreFresh, TokensAreUnique, ValidHasToken, FollowsItsRow,
        DeadAreGone, NoLink

LEMMA DeadIsDead == DeadInv => DeadLinksStayDead
BY DEF DeadInv, DeadAreGone, DeadLinksStayDead, Works

\* A link that was followed to the end or replaced opens nothing again: no
\* row has it, tokens are never shared and never made twice, and a request
\* ends the link it followed together with the one its row has by then.
THEOREM DeadCorrect ==
  ASSUME IsFiniteSet(User)
  PROVE  Spec => []DeadLinksStayDead
<1>1. Init => DeadInv BY DeadInit
<1> QED BY <1>1, DeadNext, DeadIsDead, PTL DEF Spec

-----------------------------------------------------------------------------
(* A user has one reset link that works *)

LEMMA AloneKept ==
  ASSUME Alone, NEW s \in Slot, NEW r, req \in [Slot -> Request], Becomes(s, r),
         r.op \in {"idle", req[s].op}
  PROVE  Alone'
<1>1. req'[s] = r /\ \A o \in Slot \ {s} : req'[o] = req[o] BY DEF Becomes
<1>2. \A o \in Slot : Busy(o)' => Busy(o) BY <1>1 DEF Busy
<1> QED BY <1>2 DEF Alone, Becomes

LEMMA AloneAccepted ==
  ASSUME TypeInv, NEW s \in Slot, NEW r, Begin(s, r)
  PROVE  Alone' /\ (~overlap' => ~overlap) /\ req' = [req EXCEPT ![s] = r] /\ UNCHANGED tables
<1>1. req \in [Slot -> Request] /\ overlap \in BOOLEAN BY TypeFacts
<1>2. /\ req' = [req EXCEPT ![s] = r] /\ UNCHANGED tables
      /\ overlap' = (overlap \/ \E o \in Slot \ {s} : Busy(o))
  BY DEF Begin, Accept
<1>3. \A o \in Slot \ {s} : req'[o] = req[o] BY <1>1, <1>2
<1>4. ~overlap' => ~overlap /\ \A o \in Slot \ {s} : ~Busy(o) BY <1>1, <1>2
<1>5. Alone' BY <1>3, <1>4 DEF Alone, Busy
<1> QED BY <1>2, <1>4, <1>5

LEMMA AloneStep ==
  ASSUME OneInv, NEW s \in Slot, Fail(s) \/ Step(s)
  PROVE  Alone' /\ UNCHANGED overlap
<1>1. TypeInv /\ Alone /\ req \in [Slot -> Request] /\ req[s] \in Request
  BY TypeFacts DEF OneInv, DeadInv
<1>2. ASSUME NEW r, Becomes(s, r), r.op \in {"idle", req[s].op}
      PROVE  Alone' /\ UNCHANGED overlap
  BY <1>1, <1>2, AloneKept DEF Becomes
<1>3. CASE Finish(s) BY <1>2, <1>3 DEF Finish, Set, Becomes, Idle
<1>4. CASE Reads(s)
  <2>1. /\ [req[s] EXCEPT !.at = "password"].op = req[s].op
        /\ [req[s] EXCEPT !.at = "save"].op = req[s].op
        /\ \A i : Found(s, i).op = req[s].op /\ Checked(s, i).op = req[s].op
    BY <1>1 DEF Request, Found, Checked
  <2> QED BY <1>2, <1>3, <1>4, <2>1, ReadsDo
<1>5. CASE Passes(s)
  <2>1. [req[s] EXCEPT !.at = "consume"].op = req[s].op BY <1>1 DEF Request
  <2> QED BY <1>1, <1>2, <1>3, <1>5, <2>1, PassesDo
<1>6. CASE ForgotSave(s)
  <2>1. /\ [req[s] EXCEPT !.at = "mail"].op = req[s].op
        /\ [req[s] EXCEPT !.at = "mail", !.link = issued + 1].op = req[s].op
    BY <1>1 DEF Request
  <2> QED BY <1>1, <1>2, <1>6, <2>1, ReplaceDoes, AddDoes DEF Replaces, Adds
<1> QED BY <1>3, <1>4, <1>5, <1>6 DEF Fail, Refuse, ConsumeToken, Step, Reads, Passes

\* What the request r knows of the reset links of its user.
Current(r) ==
  r.op = "forgot" /\ r.at = "save" =>
    LET u == CHOOSE v \in r.user : TRUE
    IN  /\ r.row # 0 => links[r.row].user = u /\ links[r.row].type = "password_reset"
        /\ \A i \in DOMAIN links : IsReset(u, i) => i = r.row

\* Rows stop working at most.
Shrinks ==
  /\ DOMAIN links' = DOMAIN links
  /\ \A i \in DOMAIN links : /\ links'[i].user = links[i].user
                             /\ links'[i].type = links[i].type
                             /\ links'[i].valid => links[i].valid

LEMMA OneKept ==
  ASSUME OneInv, NEW s \in Slot, NEW r, req' = [req EXCEPT ![s] = r], ~overlap' => ~overlap,
         Shrinks, Named(r), ~overlap => Current(r)
  PROVE  FindIsCurrent' /\ OneReset'
<1>1. TypeInv /\ req \in [Slot -> Request] BY TypeFacts DEF OneInv, DeadInv
<1>2. req'[s] = r /\ \A o \in Slot \ {s} : req'[o] = req[o] BY <1>1
<1>3. \A u : \A i \in DOMAIN links : IsReset(u, i)' => IsReset(u, i) BY DEF Shrinks, IsReset
<1>4. OneReset' BY <1>3 DEF OneReset, OneInv, Shrinks
<1>5. FindIsCurrent'
  <2> SUFFICES ASSUME ~overlap', NEW o \in Slot, Running(o, "forgot", "save")'
               PROVE  /\ req'[o].row # 0 =>
                           /\ links'[req'[o].row].user = UserOf(o)'
                           /\ links'[req'[o].row].type = "password_reset"
                      /\ \A i \in DOMAIN links' : IsReset(UserOf(o), i)' => i = req'[o].row
    BY DEF FindIsCurrent
  <2>1. CASE o = s
    <3>1. UserOf(o)' = CHOOSE v \in r.user : TRUE BY <1>2, <2>1 DEF UserOf
    <3> QED BY <1>2, <1>3, <2>1, <3>1 DEF Current, Running, Shrinks, Named
  <2>2. CASE o # s
    <3>1. UserOf(o)' = UserOf(o) /\ req'[o] = req[o] BY <1>2, <2>2 DEF UserOf
    <3>2. Named(req[o]) BY <1>1, TypeFacts
    <3> QED BY <1>2, <1>3, <2>2, <3>1, <3>2 DEF FindIsCurrent, OneInv, Running, Shrinks, Named
  <2> QED BY <2>1, <2>2
<1> QED BY <1>4, <1>5

\* forgotPassword finds the only reset link of its user that works, or none.
LEMMA OneRead ==
  ASSUME OneInv, NEW s \in Slot, Reads(s)
  PROVE  FindIsCurrent' /\ OneReset'
<1>1. /\ TypeInv /\ TypeInv' /\ req[s] \in Request /\ Named(req[s])
      /\ req \in [Slot -> Request]
  BY TypeFacts, TypeReads DEF OneInv, DeadInv
<1>2. UNCHANGED tables /\ Shrinks BY ReadsDo DEF tables, Shrinks
<1>3. ASSUME NEW r, Becomes(s, r), ~overlap => Current(r)
      PROVE  FindIsCurrent' /\ OneReset'
  <2>1. req'[s] = r /\ UNCHANGED links BY <1>1, <1>2, <1>3 DEF Becomes, tables
  <2>2. Named(r)
    <3>1. Named(req[s])' BY <1>1 DEF TypeInv, RequestsName
    <3> QED BY <2>1, <3>1 DEF Named
  <2> QED BY <1>2, <1>3, <2>2, OneKept DEF Becomes
<1>4. CASE Finish(s)
  <2>1. Current(Idle) BY DEF Current, Idle
  <2> QED BY <1>3, <1>4, <2>1 DEF Finish, Set, Becomes
<1>5. CASE /\ Running(s, "change", "user")
           /\ Becomes(s, [req[s] EXCEPT !.at = "password"])
  <2>1. Current([req[s] EXCEPT !.at = "password"]) BY <1>1, <1>5 DEF Current, Request
  <2> QED BY <1>3, <1>5, <2>1
<1>6. ASSUME req[s].at = "verify", NEW i \in DOMAIN links, Becomes(s, Checked(s, i))
      PROVE  FindIsCurrent' /\ OneReset'
  <2>1. Current(Checked(s, i)) BY <1>1 DEF Current, Request, Checked
  <2> QED BY <1>3, <1>6, <2>1
<1>7. CASE /\ Running(s, "forgot", "find")
           /\ \A i \in DOMAIN links : IsReset(UserOf(s), i) => links[i].token = NoLink
           /\ Becomes(s, [req[s] EXCEPT !.at = "save"])
  <2> DEFINE r == [req[s] EXCEPT !.at = "save"]
  <2>1. r.row = 0 /\ r.user = req[s].user BY <1>1, <1>7 DEF Named, Request, Running
  <2> HIDE DEF r
  <2>2. \A i \in DOMAIN links : ~IsReset(UserOf(s), i)
    BY <1>7 DEF OneInv, DeadInv, ValidHasToken, IsReset
  <2>3. Current(r) BY <2>1, <2>2 DEF Current, UserOf
  <2> QED BY <1>3, <1>7, <2>3 DEF r
<1>8. ASSUME Running(s, "forgot", "find"), NEW i \in DOMAIN links, IsReset(UserOf(s), i),
             Becomes(s, Found(s, i))
      PROVE  FindIsCurrent' /\ OneReset'
  <2>1. Found(s, i).row = i /\ Found(s, i).user = req[s].user
    BY <1>1 DEF Found, Request
  <2>2. UserOf(s) \in User BY <1>1, <1>8, UserNamed DEF Running
  <2>3. ~overlap => \A j \in DOMAIN links : IsReset(UserOf(s), j) => j = i
    BY <1>8, <2>2 DEF OneInv, OneReset
  <2>4. links[i].user = UserOf(s) /\ links[i].type = "password_reset" BY <1>8 DEF IsReset
  <2>5. ~overlap => Current(Found(s, i)) BY <2>1, <2>3, <2>4 DEF Current, UserOf
  <2> QED BY <1>3, <1>8, <2>5
<1> QED BY <1>4, <1>5, <1>6, <1>7, <1>8, ReadsDo

\* forgotPassword leaves its user with the row it saved.
LEMMA OneSaved ==
  ASSUME OneInv, NEW s \in Slot, ForgotSave(s)
  PROVE  FindIsCurrent' /\ OneReset'
<1>1. /\ TypeInv /\ Alone /\ req[s] \in Request /\ Named(req[s]) /\ req \in [Slot -> Request]
  BY TypeFacts DEF OneInv, DeadInv
<1>2. Running(s, "forgot", "save") /\ Busy(s) BY DEF ForgotSave, Running, Busy
<1> DEFINE u == UserOf(s)
           i == IF req[s].row # 0 THEN req[s].row ELSE Len(links) + 1
<1>3. /\ i \in DOMAIN links' /\ UNCHANGED overlap
      /\ \A j \in DOMAIN links' \ {i} : j \in DOMAIN links /\ links'[j] = links[j]
      /\ ~overlap => links'[i].user = u
      /\ \E r : Becomes(s, r) /\ r.at = "mail"
  <2>1. CASE req[s].row # 0
    <3>1. Replaces(s, i) BY <1>1, <2>1, ReplaceDoes
    <3>2. [req[s] EXCEPT !.at = "mail"].at = "mail" BY <1>1 DEF Request
    <3>3. ~overlap => links[i].user = u BY <1>2, <2>1 DEF OneInv, FindIsCurrent
    <3> QED BY <3>1, <3>2, <3>3 DEF Replaces, Becomes
  <2>2. CASE req[s].row = 0
    <3>1. Adds(s) BY <1>1, <2>2, AddDoes
    <3>2. [req[s] EXCEPT !.at = "mail", !.link = issued + 1].at = "mail" BY <1>1 DEF Request
    <3>3. i = Len(links) + 1 BY <2>2
    <3> HIDE DEF i
    <3>4. links'[i].user = u BY <3>1, <3>3 DEF Adds, NewReset
    <3>5. \E r : Becomes(s, r) /\ r.at = "mail" BY <3>1, <3>2 DEF Adds
    <3> QED BY <3>1, <3>3, <3>4, <3>5 DEF Adds, Becomes
  <2> QED BY <2>1, <2>2
<1>4. ~overlap => \A j \in DOMAIN links : IsReset(u, j) => j = i
  <2>1. ~overlap => \A j \in DOMAIN links : IsReset(u, j) => j = req[s].row
    BY <1>2 DEF OneInv, FindIsCurrent
  <2>2. 0 \notin DOMAIN links BY <1>1, RowsAreRows
  <2> QED BY <2>1, <2>2
<1>5. \A v : \A j \in DOMAIN links' \ {i} : IsReset(v, j)' => IsReset(v, j)
  BY <1>3 DEF IsReset
<1>6. OneReset'
  <2> SUFFICES ASSUME ~overlap', NEW j \in DOMAIN links', NEW k \in DOMAIN links', NEW v \in User,
                      IsReset(v, j)', IsReset(v, k)'
               PROVE  j = k
    BY DEF OneReset
  <2>1. ~overlap BY <1>3
  <2>2. CASE j # i /\ k # i BY <1>3, <1>5, <2>1, <2>2 DEF OneInv, OneReset
  <2>3. CASE j = i /\ k # i
    <3>1. v = u BY <1>3, <2>1, <2>3 DEF IsReset
    <3> QED BY <1>3, <1>4, <1>5, <2>1, <2>3, <3>1
  <2>4. CASE j # i /\ k = i
    <3>1. v = u BY <1>3, <2>1, <2>4 DEF IsReset
    <3> QED BY <1>3, <1>4, <1>5, <2>1, <2>4, <3>1
  <2> QED BY <2>2, <2>3, <2>4
<1>7. FindIsCurrent'
  <2>1. PICK r : Becomes(s, r) /\ r.at = "mail" BY <1>3
  <2>2. req'[s] = r /\ \A o \in Slot \ {s} : req'[o] = req[o] BY <1>1, <2>1 DEF Becomes
  <2>3. ~overlap => \A o \in Slot \ {s} : ~Busy(o) BY <1>1, <1>2 DEF Alone
  <2>4. ~overlap => \A o \in Slot : ~Running(o, "forgot", "save")'
    BY <2>1, <2>2, <2>3 DEF Running, Busy
  <2> QED BY <1>3, <2>4 DEF FindIsCurrent
<1> QED BY <1>6, <1>7

LEMMA OneNext == OneInv /\ [Next]_vars => OneInv'
<1> SUFFICES ASSUME OneInv, [Next]_vars PROVE OneInv' OBVIOUS
<1>1. DeadInv' /\ DeadInv /\ TypeInv /\ Alone BY DeadNext DEF OneInv, DeadInv
<1> SUFFICES Alone' /\ FindIsCurrent' /\ OneReset' BY <1>1 DEF OneInv
<1>2. CASE UNCHANGED vars
  BY <1>2 DEF vars, tables, OneInv, Alone, Busy, FindIsCurrent, OneReset, IsReset, UserOf,
     Running
<1>3. CASE Expire
  <2>1. PICK i \in DOMAIN links : Expires(i) BY <1>1, <1>3, ExpireDoes
  <2>2. Shrinks /\ UNCHANGED <<req, overlap>> BY <2>1 DEF Expires, Shrinks
  <2>3. Alone' BY <2>2 DEF OneInv, Alone, Busy
  <2>4. \A u : \A j \in DOMAIN links : IsReset(u, j)' => IsReset(u, j) BY <2>2 DEF Shrinks, IsReset
  <2>5. OneReset' BY <2>2, <2>4 DEF OneReset, OneInv, Shrinks
  <2>6. \A o \in Slot : Named(req[o]) BY <1>1, TypeFacts
  <2>7. FindIsCurrent'
    BY <2>2, <2>4, <2>6 DEF FindIsCurrent, OneInv, Running, UserOf, Shrinks, Named
  <2> QED BY <2>3, <2>5, <2>7
<1>4. ASSUME NEW s \in Slot, Start(s) \/ Fail(s) \/ Step(s)
      PROVE  Alone' /\ FindIsCurrent' /\ OneReset'
  <2>1. CASE Start(s)
    <3>1. PICK r : Begin(s, r) /\ Fresh(r) BY <1>1, <2>1, Starts
    <3>2. /\ Alone' /\ (~overlap' => ~overlap) /\ req' = [req EXCEPT ![s] = r]
          /\ UNCHANGED tables
      BY <1>1, <3>1, AloneAccepted
    <3>3. Shrinks /\ Current(r) /\ Named(r)
      BY <3>1, <3>2 DEF tables, Shrinks, Current, Fresh
    <3> QED BY <3>2, <3>3, OneKept
  <2>2. ASSUME Finish(s), Shrinks PROVE FindIsCurrent' /\ OneReset'
    <3>1. Current(Idle) BY DEF Current, Idle
    <3> QED BY <2>2, <3>1, IdleIsRequest, OneKept DEF Finish, Set
  <2>3. CASE Fail(s)
    <3>1. Shrinks /\ Finish(s) BY <2>3 DEF Fail, Refuse, tables, Shrinks
    <3> QED BY <2>2, <2>3, <3>1, AloneStep
  <2>4. CASE Reads(s) BY <2>4, OneRead, AloneStep DEF Reads, Step
  <2>5. CASE Passes(s)
    <3>1. Shrinks BY <1>1, <2>5, PassesDo DEF Shrinks
    <3>2. CASE Becomes(s, [req[s] EXCEPT !.at = "consume"]) /\ Verified(req[s])
      <4> DEFINE r == [req[s] EXCEPT !.at = "consume"]
      <4>1. req[s] \in Request /\ Named(req[s]) BY <1>1, TypeFacts
      <4>2. Named(r) /\ Current(r)
        BY <3>2, <4>1 DEF Request, Named, Verified, Current
      <4> QED BY <2>5, <3>1, <3>2, <4>2, OneKept, AloneStep DEF Becomes, Step, Passes
    <3> QED BY <1>1, <2>2, <2>5, <3>1, <3>2, PassesDo, AloneStep DEF Step, Passes
  <2>6. CASE ForgotSave(s) BY <2>6, OneSaved, AloneStep DEF Step
  <2>7. CASE ConsumeToken(s)
    <3>1. Consumes(s, req[s].row) BY <1>1, <2>7, ConsumeDoes
    <3>2. Shrinks /\ Finish(s) BY <3>1 DEF Consumes, Shrinks
    <3> QED BY <2>2, <2>7, <3>2, AloneStep DEF Step
  <2> QED BY <1>4, <2>1, <2>3, <2>4, <2>5, <2>6, <2>7 DEF Step, Reads, Passes
<1> QED BY <1>2, <1>3, <1>4 DEF Next

LEMMA OneInit ==
  ASSUME IsFiniteSet(User), Init
  PROVE  OneInv
<1>1. DeadInv /\ Invited BY DeadInit, InitDoes
<1>2. \A s \in Slot : req[s].op = "idle" BY DEF Init, InitRequests, Idle
<1> QED BY <1>1, <1>2
    DEF Invited, OneInv, Alone, Busy, FindIsCurrent, Running, OneReset, IsReset

LEMMA AtMostOne ==
  ASSUME NEW R, \A i, j \in R : i = j
  PROVE  Cardinality(R) <= 1
<1>1. CASE R = {} BY <1>1, FS_EmptySet
<1>2. CASE R # {}
  <2>1. PICK i \in R : R = {i} BY <1>2
  <2> QED BY <2>1, FS_Singleton
<1> QED BY <1>1, <1>2

LEMMA OneIsOne == OneReset => OneResetLink
<1> SUFFICES ASSUME OneReset, ~overlap, NEW u \in User
             PROVE  Cardinality({i \in DOMAIN links : /\ links[i].user = u
                                                     /\ links[i].type = "password_reset"
                                                     /\ links[i].valid}) <= 1
  BY DEF OneResetLink
<1> DEFINE R == {i \in DOMAIN links : /\ links[i].user = u
                                      /\ links[i].type = "password_reset"
                                      /\ links[i].valid}
<1>1. \A i, j \in R : i = j BY DEF OneReset, IsReset
<1> HIDE DEF R
<1>2. Cardinality(R) <= 1 BY <1>1, AtMostOne
<1> QED BY <1>2 DEF R

\* A user has at most one reset link that works, as long as no two requests
\* overlap: what forgotPassword found is still the only one when it saves.
THEOREM OneCorrect ==
  ASSUME IsFiniteSet(User)
  PROVE  Spec => []OneResetLink
<1>1. Init => OneInv BY OneInit
<1>2. OneInv => OneResetLink BY OneIsOne DEF OneInv
<1> QED BY <1>1, OneNext, <1>2, PTL DEF Spec
=============================================================================

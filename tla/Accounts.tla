------------------------------- MODULE Accounts -------------------------------
(***************************************************************************)
(* Passwords and the links that set them (auth.service.ts): the link of an *)
(* invitation, forgotPassword, resetPassword, createUserPassword and       *)
(* changePassword, over the TempToken rows.  A link is a number: its UUID  *)
(* is fresh each time.  Requests run at the same time; each database call  *)
(* is a step, and time passes between any two.                             *)
(***************************************************************************)
EXTENDS Requests, Sequences

CONSTANTS
  User,         \* people that were invited
  Password      \* passwords they choose

VARIABLES
  password,  \* password[u]: what u chose last, or Random
  active,    \* users with the status active
  links,     \* the TempToken rows, in the order they were created
  mailed,    \* links that were sent
  dead,      \* links that were followed to the end or replaced
  issued     \* links made so far

tables == <<password, active, links, mailed, dead, issued>>
vars == <<tables, req, started, overlap>>

\* generateRandomPassword: nobody knows it.
Random == "random"
NoLink == 0
Type == {"email_verification", "password_reset"}

\* A row whose token is null or whose time is over cannot be found.
LinkRow == [user : User, type : Type, token : Nat, valid : BOOLEAN]

Op == {"idle", "forgot", "reset", "create", "change"}
At == {"idle", "user", "find", "save", "mail", "verify", "password", "consume"}
Request == [op : Op, at : At, user : SUBSET User, row : Nat, link : Nat,
            new : Password \cup {Random}, old : Password \cup {Random}]
Idle == [op |-> "idle", at |-> "idle", user |-> {}, row |-> 0, link |-> NoLink,
         new |-> Random, old |-> Random]

\* addUser: a random password, status inactive, and a link for a year.
NewAccount(u, n) == [user |-> u, type |-> "email_verification", token |-> n, valid |-> TRUE]

Init ==
  /\ password = [u \in User |-> Random]
  /\ active = {}
  /\ \E invited \in [1..Cardinality(User) -> User] :
       /\ {invited[n] : n \in DOMAIN invited} = User
       /\ links = [n \in DOMAIN invited |-> NewAccount(invited[n], n)]
  /\ mailed = 1..Cardinality(User)
  /\ dead = {}
  /\ issued = Cardinality(User)
  /\ InitRequests(Idle)

-----------------------------------------------------------------------------
(* Requests *)

Begin(s, request) ==
  /\ Accept(s, request)
  /\ UNCHANGED tables

Finish(s) == Set(s, Idle)
Refuse(s) == Finish(s) /\ UNCHANGED tables

\* auth.controller.ts: a link is followed by whoever was sent it.
AskForgotPassword(s) ==
  \E u \in User : Begin(s, [Idle EXCEPT !.op = "forgot", !.at = "find", !.user = {u}])
AskResetPassword(s) ==
  \E n \in mailed, p \in Password :
    Begin(s, [Idle EXCEPT !.op = "reset", !.at = "verify", !.link = n, !.new = p])
AskCreateUserPassword(s) ==
  \E n \in mailed, p \in Password :
    Begin(s, [Idle EXCEPT !.op = "create", !.at = "verify", !.link = n, !.new = p])
AskChangePassword(s) ==
  \E u \in User, o, p \in Password :
    Begin(s, [Idle EXCEPT !.op = "change", !.at = "user", !.user = {u}, !.old = o, !.new = p])

Start(s) ==
  AskForgotPassword(s) \/ AskResetPassword(s) \/ AskCreateUserPassword(s) \/ AskChangePassword(s)

\* An error, a mail that is not accepted or a restart ends a request anywhere.
Fail(s) == req[s] # Idle /\ Refuse(s)

\* The time of a link is over: an hour for a reset, a year for an invitation.
Expire ==
  /\ \E i \in DOMAIN links :
       /\ links[i].valid
       /\ links' = [links EXCEPT ![i].valid = FALSE]
  /\ UNCHANGED <<password, active, mailed, dead, issued, req, started, overlap>>

UserOf(s) == CHOOSE u \in req[s].user : TRUE

-----------------------------------------------------------------------------
(* forgotPassword *)

\* A reset row that still works is looked for; the row is kept as it was read.
ForgotFind(s) ==
  LET u == UserOf(s)
      found == {i \in DOMAIN links : /\ links[i].user = u
                                     /\ links[i].type = "password_reset"
                                     /\ links[i].token # NoLink
                                     /\ links[i].valid}
  IN
  /\ Running(s, "forgot", "find")
  /\ \/ found = {} /\ Set(s, [req[s] EXCEPT !.at = "save"])
     \/ \E i \in found : Set(s, [req[s] EXCEPT !.at = "save", !.row = i, !.link = links[i].token])
  /\ UNCHANGED tables

\* Mutant: there is always a new row.
ForgotAddRow(s) ==
  /\ Running(s, "forgot", "save")
  /\ issued' = issued + 1
  /\ links' = Append(links, [user |-> UserOf(s), type |-> "password_reset",
                             token |-> issued', valid |-> TRUE])
  /\ Set(s, [req[s] EXCEPT !.at = "mail", !.link = issued'])
  /\ UNCHANGED <<password, active, mailed, dead>>

\* The row gets a new token, or a row is created.  Only the create answers
\* with the new row: after an update the mail is made from the one read before.
ForgotSave(s) ==
  LET i == req[s].row
  IN
  /\ Running(s, "forgot", "save")
  /\ issued' = issued + 1
  /\ IF i # 0
     THEN /\ links' = [links EXCEPT ![i].token = issued', ![i].valid = TRUE]
          /\ dead' = dead \cup ({links[i].token} \ {NoLink})
          /\ Goto(s, "mail")
     ELSE /\ links' = Append(links, [user |-> UserOf(s), type |-> "password_reset",
                                     token |-> issued', valid |-> TRUE])
          /\ Set(s, [req[s] EXCEPT !.at = "mail", !.link = issued'])
          /\ UNCHANGED dead
  /\ UNCHANGED <<password, active, mailed>>

ForgotMail(s) ==
  /\ Running(s, "forgot", "mail")
  /\ mailed' = mailed \cup {req[s].link}
  /\ Finish(s)
  /\ UNCHANGED <<password, active, links, dead, issued>>

-----------------------------------------------------------------------------
(* resetPassword and createUserPassword *)

TypeOf(op) == IF op = "reset" THEN "password_reset" ELSE "email_verification"

\* verifyToken: token, type and time.
VerifyToken(s) ==
  LET found == {i \in DOMAIN links : /\ links[i].token = req[s].link
                                     /\ links[i].type = TypeOf(req[s].op)
                                     /\ links[i].valid}
  IN
  /\ req[s].at = "verify"
  /\ IF found = {} THEN Refuse(s)
     ELSE /\ \E i \in found :
               Set(s, [req[s] EXCEPT !.at = "password", !.row = i, !.user = {links[i].user}])
          /\ UNCHANGED tables

ResetPassword(s) ==
  /\ Running(s, "reset", "password")
  /\ password' = [password EXCEPT ![UserOf(s)] = req[s].new]
  /\ Goto(s, "consume")
  /\ UNCHANGED <<active, links, mailed, dead, issued>>

\* createUserPassword also makes the user active.
CreateUserPassword(s) ==
  /\ Running(s, "create", "password")
  /\ password' = [password EXCEPT ![UserOf(s)] = req[s].new]
  /\ active' = active \cup {UserOf(s)}
  /\ Goto(s, "consume")
  /\ UNCHANGED <<links, mailed, dead, issued>>

\* Mutant: the token is left in the row.
ConsumeNothing(s) ==
  /\ req[s].at = "consume"
  /\ dead' = dead \cup {req[s].link}
  /\ Finish(s)
  /\ UNCHANGED <<password, active, links, mailed, issued>>

\* The row loses its token, whichever it has by now, and its time.
ConsumeToken(s) ==
  LET i == req[s].row
  IN
  /\ req[s].at = "consume"
  /\ links' = [links EXCEPT ![i].token = NoLink, ![i].valid = FALSE]
  /\ dead' = dead \cup ({req[s].link, links[i].token} \ {NoLink})
  /\ Finish(s)
  /\ UNCHANGED <<password, active, mailed, issued>>

-----------------------------------------------------------------------------
(* changePassword *)

\* The old password is right and the new one differs.
ChangeFind(s) ==
  LET known == password[UserOf(s)]
  IN
  /\ Running(s, "change", "user")
  /\ IF known # req[s].old \/ known = req[s].new THEN Refuse(s)
     ELSE Goto(s, "password") /\ UNCHANGED tables

ChangePassword(s) ==
  /\ Running(s, "change", "password")
  /\ password' = [password EXCEPT ![UserOf(s)] = req[s].new]
  /\ Finish(s)
  /\ UNCHANGED <<active, links, mailed, dead, issued>>

-----------------------------------------------------------------------------
Step(s) ==
  ForgotFind(s) \/ ForgotSave(s) \/ ForgotMail(s) \/ VerifyToken(s) \/ ResetPassword(s)
  \/ CreateUserPassword(s) \/ ConsumeToken(s) \/ ChangeFind(s) \/ ChangePassword(s)

Next == Expire \/ \E s \in Slot : Start(s) \/ Fail(s) \/ Step(s)

Spec == Init /\ [][Next]_vars

-----------------------------------------------------------------------------
(* Correctness *)

\* Every table and every request keeps its shape.
TypeOK ==
  /\ password \in [User -> Password \cup {Random}]
  /\ active \subseteq User
  /\ links \in Seq(LinkRow)
  /\ mailed \subseteq Nat
  /\ dead \subseteq Nat
  /\ issued \in Nat
  /\ RequestsOK(Request)

Works(n) == \E i \in DOMAIN links : links[i].token = n /\ links[i].valid

\* A link that was followed to the end, or replaced by a later one, opens
\* nothing again, whatever overlaps, fails or expires.
DeadLinksStayDead == \A n \in dead : ~Works(n)

\* A user has at most one reset link that works, as long as no two requests
\* overlap: forgotPassword reuses the row it finds.
OneResetLink ==
  ~overlap => \A u \in User :
    Cardinality({i \in DOMAIN links : /\ links[i].user = u
                                      /\ links[i].type = "password_reset"
                                      /\ links[i].valid}) <= 1

-----------------------------------------------------------------------------
(* Why: what the requests know of the rows *)

\* A request whose link was found in a row.
Verified(r) == r.at = "consume" \/ (r.at = "password" /\ r.op # "change")

\* A request names its user and its row once it has one.
Named(r) ==
  /\ r.op \in {"forgot", "change"} \/ r.at \in {"password", "consume"} => r.user # {}
  /\ (r.at = "save" /\ r.row # 0) \/ Verified(r) => r.row \in DOMAIN links
  /\ r.at = "find" => r.row = 0
RequestsName == \A s \in Slot : Named(req[s])

TypeInv == TypeOK /\ RequestsName

\* The next link is new to the rows, to the requests, to those who were sent
\* one and to the dead.
LinksAreFresh ==
  /\ \A i \in DOMAIN links : links[i].token <= issued
  /\ \A s \in Slot : req[s].link <= issued
  /\ \A n \in mailed \cup dead : n <= issued

\* Two rows never share a token, and a row that works has one.
TokensAreUnique ==
  \A i, j \in DOMAIN links : links[i].token = links[j].token /\ links[i].token # NoLink => i = j
ValidHasToken == \A i \in DOMAIN links : links[i].valid => links[i].token # NoLink

\* The link a request follows is in no row but the one it found.
FollowsItsRow ==
  \A s \in Slot : Verified(req[s]) =>
    /\ req[s].link # NoLink
    /\ \A i \in DOMAIN links : links[i].token = req[s].link => i = req[s].row

\* Dead links are in no row, whether it works or not.
DeadAreGone == NoLink \notin dead /\ \A i \in DOMAIN links : links[i].token \notin dead

DeadInv ==
  TypeInv /\ LinksAreFresh /\ TokensAreUnique /\ ValidHasToken /\ FollowsItsRow /\ DeadAreGone

\* Without an overlap, what forgotPassword found is still so when it saves.
IsReset(u, i) ==
  links[i].user = u /\ links[i].type = "password_reset" /\ links[i].valid
FindIsCurrent ==
  ~overlap => \A s \in Slot : Running(s, "forgot", "save") =>
    /\ req[s].row # 0 => /\ links[req[s].row].user = UserOf(s)
                         /\ links[req[s].row].type = "password_reset"
    /\ \A i \in DOMAIN links : IsReset(UserOf(s), i) => i = req[s].row
OneReset ==
  ~overlap => \A i, j \in DOMAIN links, u \in User : IsReset(u, i) /\ IsReset(u, j) => i = j
OneInv == DeadInv /\ Alone /\ FindIsCurrent /\ OneReset
=============================================================================

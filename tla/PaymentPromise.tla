---------------------------- MODULE PaymentPromise ----------------------------
(***************************************************************************)
(* What the payments of the sales promise, whatever callbacks, retries and *)
(* restarts do: a payment asks for the price of one sale, which is fixed   *)
(* by then; once confirmed it stays confirmed; each confirmed payment is   *)
(* credited to its sale once at most, and each credit brings one set of    *)
(* tokens at most.                                                         *)
(*                                                                         *)
(* ProductSale implements this module.                                     *)
(***************************************************************************)
EXTENDS Integers, FiniteSets

CONSTANTS
  Sale,      \* the sales
  NoSale,    \* no sale
  Payment    \* the payments

VARIABLES
  due,       \* due[s]: what each payment of sale s asks for
  asked,     \* asked[p]: the sale that payment p is for
  confirmed, \* the payments that were confirmed
  credited,  \* credited[s]: the money credited to sale s
  issued     \* issued[s]: the sets of tokens issued for sale s

promise == <<due, asked, confirmed, credited, issued>>

Init ==
  /\ due \in [Sale -> Nat \ {0}]
  /\ asked = [p \in Payment |-> NoSale]
  /\ confirmed = {}
  /\ credited = [s \in Sale |-> 0]
  /\ issued = [s \in Sale |-> 0]

PaymentsOf(s) == {p \in Payment : asked[p] = s}

\* The price of a sale is settled before any payment asks for it.
Settle(s) ==
  /\ PaymentsOf(s) = {}
  /\ due'[s] \in Nat \ {0}
  /\ due' = [due EXCEPT ![s] = due'[s]]
  /\ UNCHANGED <<asked, confirmed, credited, issued>>

Ask(p, s) ==
  /\ asked[p] = NoSale
  /\ asked' = [asked EXCEPT ![p] = s]
  /\ UNCHANGED <<due, confirmed, credited, issued>>

Confirm(p) ==
  /\ asked[p] \in Sale
  /\ p \notin confirmed
  /\ confirmed' = confirmed \cup {p}
  /\ UNCHANGED <<due, asked, credited, issued>>

\* One more payment is credited, if fewer were than have been confirmed.
Credit(s) ==
  /\ credited[s] + due[s] <= due[s] * Cardinality(PaymentsOf(s) \cap confirmed)
  /\ credited' = [credited EXCEPT ![s] = @ + due[s]]
  /\ UNCHANGED <<due, asked, confirmed, issued>>

Issue(s) ==
  /\ due[s] * (issued[s] + 1) <= credited[s]
  /\ issued' = [issued EXCEPT ![s] = @ + 1]
  /\ UNCHANGED <<due, asked, confirmed, credited>>

Next ==
  \/ \E s \in Sale : Settle(s) \/ Credit(s) \/ Issue(s)
  \/ \E p \in Payment : Confirm(p) \/ \E s \in Sale : Ask(p, s)

Spec == Init /\ [][Next]_promise
=============================================================================

----------------------------- MODULE StockLedger -----------------------------
(***************************************************************************)
(* What the stock of the inventory batches promises, whatever the handlers *)
(* do: a claim takes units out of the free stock once, and the units of a  *)
(* claim that holds stock are settled once, as sold or as released.  A     *)
(* claim that draws takes its units for good and without being refused.    *)
(*                                                                         *)
(* InventoryReservation implements this module: a claim is the stock taken *)
(* by one reservation or by one direct sale.                               *)
(***************************************************************************)
EXTENDS Integers

CONSTANTS
  Batch,      \* inventory batches
  Claim,      \* identities of the claims on stock
  Stock       \* Stock[b]: the units batch b was received with

VARIABLES
  free,       \* free[b]: units of b that nobody has claimed
  held,       \* held[b]: units of b held by claims that are not settled
  claim       \* claim[c]: how far claim c has got, and the amount it took

ledger == <<free, held, claim>>

ClaimState == {"open", "held", "sold", "released", "drawn"}

Nothing == [b \in Batch |-> 0]

Init ==
  /\ free = Stock
  /\ held = Nothing
  /\ claim = [c \in Claim |-> [state |-> "open", amount |-> Nothing]]

\* Claim c is entered in state st, for an amount that the step chooses.
Enter(c, st) ==
  /\ claim[c].state = "open"
  /\ claim'[c].state = st
  /\ claim'[c].amount \in [Batch -> Nat]
  /\ claim' = [claim EXCEPT ![c] = [state |-> st, amount |-> claim'[c].amount]]
  /\ free' = [b \in Batch |-> free[b] - claim'[c].amount[b]]

\* An open claim takes an amount that is free in every batch, and holds it.
Hold(c) ==
  /\ Enter(c, "held")
  /\ \A b \in Batch : claim'[c].amount[b] > 0 => claim'[c].amount[b] <= free[b]
  /\ held' = [b \in Batch |-> held[b] + claim'[c].amount[b]]

\* The units of a held claim leave the ledger as sold.
Sell(c) ==
  /\ claim[c].state = "held"
  /\ held' = [b \in Batch |-> held[b] - claim[c].amount[b]]
  /\ claim' = [claim EXCEPT ![c].state = "sold"]
  /\ UNCHANGED free

\* The units of a held claim become free again.
Release(c) ==
  /\ claim[c].state = "held"
  /\ free' = [b \in Batch |-> free[b] + claim[c].amount[b]]
  /\ held' = [b \in Batch |-> held[b] - claim[c].amount[b]]
  /\ claim' = [claim EXCEPT ![c].state = "released"]

\* An open claim takes its units for good, without looking at the free stock.
Draw(c) ==
  /\ Enter(c, "drawn")
  /\ UNCHANGED held

Next == \E c \in Claim : Hold(c) \/ Draw(c) \/ Sell(c) \/ Release(c)

Spec == Init /\ [][Next]_ledger
=============================================================================

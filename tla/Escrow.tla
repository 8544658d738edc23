------------------------------- MODULE Escrow -------------------------------
(***************************************************************************)
(* What the shop promises about money, and nothing else.  A sale is open   *)
(* while it may still be repriced or dropped; the customer's payment is    *)
(* then held, and the held payment is settled once: kept (or, for a        *)
(* deposit, put into the purse) when the sale is done, put back into the   *)
(* purse it came from when the sale fails.  A purse is never overdrawn.    *)
(*                                                                         *)
(* Orders.tla implements this: a purse is a customer's wallet balance and  *)
(* a sale is a row of the orders table.                                    *)
(***************************************************************************)
EXTENDS Integers, Sequences

CONSTANTS
  Users,            \* the owners of purses
  Prices,           \* what a sale may cost
  Deltas            \* by how much a gift may change a purse

VARIABLES
  purse,            \* [Users -> Nat]
  sales             \* a sequence of sales

vars == <<purse, sales>>

Sale == [owner: Users, price: Prices, deposit: BOOLEAN,
         by: {"none", "wallet", "card"},
         stage: {"open", "held", "done", "failed", "void"}]

EscrowTypeOK == purse \in [Users -> Nat] /\ sales \in Seq(Sale)

Init == purse = [u \in Users |-> 0] /\ sales = << >>

Move(u, delta) == /\ purse[u] + delta >= 0
                  /\ purse' = [purse EXCEPT ![u] = @ + delta]

Offer(u, price, deposit) ==
  /\ sales' = Append(sales, [owner |-> u, price |-> price, deposit |-> deposit,
                             by |-> "none", stage |-> "open"])
  /\ UNCHANGED purse

Reprice(s, price) ==
  /\ sales[s].stage = "open"
  /\ sales' = [sales EXCEPT ![s].price = price]
  /\ UNCHANGED purse

\* Any set of open sales is dropped together.
Drop(S) ==
  /\ \A s \in S : sales[s].stage = "open"
  /\ sales' = [s \in DOMAIN sales |->
                 IF s \in S THEN [sales[s] EXCEPT !.stage = "void"] ELSE sales[s]]
  /\ UNCHANGED purse

\* The payment is taken: out of the purse, or from outside the shop.
Hold(s, by) ==
  /\ sales[s].stage = "open"
  /\ sales' = [sales EXCEPT ![s].stage = "held", ![s].by = by]
  /\ IF by = "wallet"
     THEN ~sales[s].deposit /\ Move(sales[s].owner, -sales[s].price)
     ELSE UNCHANGED purse

Finish(s) ==
  /\ sales[s].stage = "held"
  /\ sales' = [sales EXCEPT ![s].stage = "done"]
  /\ IF sales[s].deposit
     THEN Move(sales[s].owner, sales[s].price)
     ELSE UNCHANGED purse

GiveUp(s) ==
  /\ sales[s].stage = "held"
  /\ sales' = [sales EXCEPT ![s].stage = "failed"]
  /\ IF sales[s].by = "wallet"
     THEN Move(sales[s].owner, sales[s].price)
     ELSE UNCHANGED purse

\* A change of a purse that belongs to no sale: a gift, a correction, a reward.
Gift(u, delta) == Move(u, delta) /\ UNCHANGED sales

Next ==
  \/ \E u \in Users, price \in Prices, deposit \in BOOLEAN : Offer(u, price, deposit)
  \/ \E s \in DOMAIN sales :
       \/ \E price \in Prices : Reprice(s, price)
       \/ \E by \in {"wallet", "card"} : Hold(s, by)
       \/ Finish(s)
       \/ GiveUp(s)
  \/ \E S \in SUBSET DOMAIN sales : Drop(S)
  \/ \E u \in Users, delta \in Deltas : Gift(u, delta)

Spec == Init /\ [][Next]_vars
=============================================================================

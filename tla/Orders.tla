------------------------------- MODULE Orders -------------------------------
(***************************************************************************)
(* The store's money: internal/store/orders.go and the wallet half of      *)
(* internal/store/users.go, over the tables users, orders, discount_codes, *)
(* discount_uses and wallet_ledger of migrations/0001_init.sql.            *)
(*                                                                         *)
(* Open() sets SetMaxOpenConns(1) (store.go:52), so a statement or an inTx *)
(* body never interleaves with another one: a method of the store is one   *)
(* atomic action.  A method that returns an error changes nothing (inTx    *)
(* rolls back), so it is the same action disabled.                         *)
(*                                                                         *)
(* Next is the store under the most general caller that keeps to what the  *)
(* shop asks of it; Shop.tla is that caller and implements this module.    *)
(***************************************************************************)
EXTENDS Integers, Sequences, FiniteSets

CONSTANTS
  Users,        \* customers, the rows of the users table
  Admins,       \* who may decide an order
  Codes,        \* discount codes
  Services,     \* ids a service may get (services.id)
  Amounts,      \* order amounts and admin adjustments, in toman
  Referrer,     \* Referrer[u]: who invited u (users.referred_by), or Nobody
  Reward,       \* the referral_reward setting
  Nobody,       \* no admin, no referrer: the NULL of those columns
  NoCode,       \* the NULL of orders.discount_code
  MaxOrders,    \* bound: orders ever created
  MaxGifts      \* bound: admin adjustments ever made

ASSUME OrdersAssumption ==
  /\ Amounts \subseteq Nat
  /\ Services \subseteq Nat \ {0}
  /\ Reward \in Nat
  /\ Nobody \notin Users \cup Admins
  /\ NoCode \notin Codes
  /\ Referrer \in [Users -> Users \cup {Nobody}]
  /\ \A u \in Users : Referrer[u] # u

VARIABLES
  balance,      \* users.balance
  rewarded,     \* the users whose referral_rewarded is 1
  ledger,       \* wallet_ledger, in id order
  orders,       \* orders[id], ids from 1 (AUTOINCREMENT)
  used,         \* discount_codes.used
  spent         \* discount_uses

vars == <<balance, rewarded, ledger, orders, used, spent>>

-----------------------------------------------------------------------------
(* The tables.                                                             *)

Kinds == {"purchase", "renew", "topup"}

Statuses == {"draft", "awaiting_receipt", "awaiting_review", "processing",
             "completed", "rejected", "failed", "cancelled"}

Terminal == {"completed", "rejected", "failed", "cancelled"}

\* The statuses CancelOpenOrders closes: nothing has been paid yet.
Open == {"draft", "awaiting_receipt"}

Order == [user: Users, kind: Kinds, service: Services \cup {0},
          base: Nat, discount: Nat, amount: Nat, code: Codes \cup {NoCode},
          pay: {"none", "card", "wallet"}, status: Statuses,
          receipt: BOOLEAN, decided: Admins \cup {Nobody}]

Reasons == Kinds \cup {"refund", "referral", "admin"}

\* order = 0 is the NULL of an adjustment that belongs to no order.
Row == [user: Users, delta: Int, reason: Reasons, order: Nat]

Use == [code: Codes, user: Users, order: Nat]

Init ==
  /\ balance = [u \in Users |-> 0]
  /\ rewarded = {}
  /\ ledger = << >>
  /\ orders = << >>
  /\ used = [c \in Codes |-> 0]
  /\ spent = {}

-----------------------------------------------------------------------------
(* Store methods that leave the wallets alone.                             *)

Update(o, x) == orders' = [orders EXCEPT ![o] = x]

SetStatus(o, status) == Update(o, [orders[o] EXCEPT !.status = status])

wallets == <<balance, rewarded, ledger>>
discounts == <<used, spent>>

CreateOrder(u, kind, service, base) ==
  /\ orders' = Append(orders,
       [user |-> u, kind |-> kind, service |-> service,
        base |-> base, discount |-> 0, amount |-> base, code |-> NoCode,
        pay |-> "none", status |-> "draft", receipt |-> FALSE, decided |-> Nobody])
  /\ UNCHANGED <<wallets, discounts>>

\* Mutant: a code is accepted after the customer was told what to transfer.
DiscountableLate(o) == orders[o].status \in Open

Discountable(o) == orders[o].status = "draft"

ApplyDiscount(o, u, code, discount) ==
  /\ orders[o].user = u
  /\ Discountable(o)
  /\ discount <= orders[o].base
  /\ Update(o, [orders[o] EXCEPT !.discount = discount,
                                 !.amount = orders[o].base - discount,
                                 !.code = code])
  /\ UNCHANGED <<wallets, discounts>>

\* admin is Nobody when decided_by is to stay as it is (COALESCE).
Transition(o, from, to, admin) ==
  /\ orders[o].status \in from
  /\ Update(o, [orders[o] EXCEPT !.status = to,
                                 !.decided = IF admin = Nobody THEN @ ELSE admin])
  /\ UNCHANGED <<wallets, discounts>>

ChooseCard(o, u) ==
  /\ orders[o].user = u
  /\ orders[o].status \in {"draft", "awaiting_receipt"}
  /\ Update(o, [orders[o] EXCEPT !.pay = "card", !.status = "awaiting_receipt"])
  /\ UNCHANGED <<wallets, discounts>>

Waiting(u) == {o \in DOMAIN orders :
                 orders[o].user = u /\ orders[o].status = "awaiting_receipt"}

\* ORDER BY id DESC LIMIT 1: the receipt goes to the youngest open card order.
AttachReceipt(u) ==
  \E o \in Waiting(u) :
    /\ \A p \in Waiting(u) : p <= o
    /\ Update(o, [orders[o] EXCEPT !.receipt = TRUE, !.status = "awaiting_review"])
    /\ UNCHANGED <<wallets, discounts>>

CancelOpenOrders(u) ==
  /\ orders' = [o \in DOMAIN orders |->
                  IF orders[o].user = u /\ orders[o].status \in Open
                  THEN [orders[o] EXCEPT !.status = "cancelled"]
                  ELSE orders[o]]
  /\ UNCHANGED <<wallets, discounts>>

-----------------------------------------------------------------------------
(* Store methods that move money: each is one transaction.                 *)

\* Mutant: the UPDATE loses its guard.
AffordsAlways(u, delta) == TRUE

Affords(u, delta) == balance[u] + delta >= 0

\* Mutant: the balance changes and no ledger row is written.
AdjustWithoutRow(u, delta, reason, o) ==
  /\ Affords(u, delta)
  /\ balance' = [balance EXCEPT ![u] = @ + delta]
  /\ UNCHANGED ledger

\* adjustBalanceTx: the guarded UPDATE and its ledger row.
AdjustBalanceTx(u, delta, reason, o) ==
  /\ Affords(u, delta)
  /\ balance' = [balance EXCEPT ![u] = @ + delta]
  /\ ledger' = Append(ledger,
       [user |-> u, delta |-> delta, reason |-> reason, order |-> o])

AdjustBalance(u, delta, reason) ==
  /\ AdjustBalanceTx(u, delta, reason, 0)
  /\ UNCHANGED <<rewarded, orders, discounts>>

\* Mutant: the transaction does not look at the status it found.
PayableAgain(o) == orders[o].kind # "topup"

Payable(o) == orders[o].status = "draft" /\ orders[o].kind # "topup"

PayFromWallet(o, u) ==
  /\ orders[o].user = u
  /\ Payable(o)
  /\ AdjustBalanceTx(u, -orders[o].amount, orders[o].kind, o)
  /\ Update(o, [orders[o] EXCEPT !.pay = "wallet", !.status = "processing"])
  /\ UNCHANGED <<rewarded, discounts>>

Processing(o) == orders[o].status = "processing"

\* Mutant: used grows even when the row was ignored.
SpendCodeAlways(o) ==
  LET c == orders[o].code
      u == orders[o].user
  IN  IF c = NoCode
      THEN UNCHANGED discounts
      ELSE /\ spent' = IF \E s \in spent : s.code = c /\ s.user = u THEN spent
                       ELSE spent \cup {[code |-> c, user |-> u, order |-> o]}
           /\ used' = [used EXCEPT ![c] = @ + 1]

\* INSERT OR IGNORE into discount_uses; used grows only when a row went in.
SpendCode(o) ==
  LET c == orders[o].code
      u == orders[o].user
  IN  IF c = NoCode \/ \E s \in spent : s.code = c /\ s.user = u
      THEN UNCHANGED discounts
      ELSE /\ spent' = spent \cup {[code |-> c, user |-> u, order |-> o]}
           /\ used' = [used EXCEPT ![c] = @ + 1]

CompleteOrder(o) ==
  /\ Processing(o)
  /\ SpendCode(o)
  /\ SetStatus(o, "completed")
  /\ UNCHANGED wallets

CompleteTopup(o) ==
  /\ Processing(o)
  /\ orders[o].kind = "topup"
  /\ AdjustBalanceTx(orders[o].user, orders[o].amount, "topup", o)
  /\ SetStatus(o, "completed")
  /\ UNCHANGED <<rewarded, discounts>>

\* Mutant: every failed order is refunded, card payments too.
RefundableAny(o) == orders[o].amount > 0

Refundable(o) == orders[o].pay = "wallet" /\ orders[o].amount > 0

FailOrder(o) ==
  /\ Processing(o)
  /\ IF Refundable(o)
     THEN AdjustBalanceTx(orders[o].user, orders[o].amount, "refund", o)
     ELSE UNCHANGED <<balance, ledger>>
  /\ SetStatus(o, "failed")
  /\ UNCHANGED <<rewarded, discounts>>

\* Mutant: referral_rewarded is not looked at.
RewardDueAgain(o) == Reward > 0 /\ Referrer[orders[o].user] # Nobody

\* The reward this order earns is still due: an inviter, and never paid yet.
RewardDue(o) ==
  /\ Reward > 0
  /\ Referrer[orders[o].user] # Nobody
  /\ orders[o].user \notin rewarded

RewardReferrer(o) ==
  IF RewardDue(o)
  THEN /\ rewarded' = rewarded \cup {orders[o].user}
       /\ AdjustBalanceTx(Referrer[orders[o].user], Reward, "referral", o)
       /\ UNCHANGED <<orders, discounts>>
  ELSE UNCHANGED vars

-----------------------------------------------------------------------------
(* What the shop and the bot ask of the store.                             *)

\* Mutant: an order is approved before its receipt is in.
ApproveEarly(o, a) == Transition(o, {"awaiting_receipt", "awaiting_review"}, "processing", a)

\* Mutant: a second approval finds the order in processing and goes on.
ApproveAgain(o, a) == Transition(o, {"awaiting_review", "processing"}, "processing", a)

\* Shop.Approve and Shop.Reject: the only callers of Transition.
Approve(o, a) == Transition(o, {"awaiting_review"}, "processing", a)
Reject(o, a) == Transition(o, {"awaiting_review"}, "rejected", a)

\* StartPurchase, StartRenew, StartTopup: only a renewal names a service.
Start(u, kind, service, base) ==
  /\ Len(orders) < MaxOrders
  /\ (kind = "renew") <=> (service > 0)
  /\ CreateOrder(u, kind, service, base)

\* ApplyCode refuses a top-up before it asks the store (shop.go:152).
Discount(o, u, code, discount) ==
  /\ orders[o].kind # "topup"
  /\ ApplyDiscount(o, u, code, discount)

\* fulfil sends a top-up to CompleteTopup, everything else to CompleteOrder.
Deliver(o) == orders[o].kind # "topup" /\ CompleteOrder(o)

\* fulfil rewards the inviter after the order is completed.
RewardFor(o) ==
  /\ orders[o].status = "completed" /\ orders[o].kind # "topup"
  /\ RewardReferrer(o)

Gifts == {i \in DOMAIN ledger : ledger[i].reason = "admin"}

\* The admin's "+amount" / "-amount" message (admin.go:525-538); 0 is refused.
AdminAdjust(u, delta) ==
  /\ Cardinality(Gifts) < MaxGifts
  /\ delta # 0
  /\ AdjustBalance(u, delta, "admin")

Next ==
  \/ \E u \in Users :
       \/ \E kind \in Kinds, service \in Services \cup {0}, base \in Amounts :
            Start(u, kind, service, base)
       \/ CancelOpenOrders(u)
       \/ AttachReceipt(u)
       \/ \E n \in Amounts : AdminAdjust(u, n) \/ AdminAdjust(u, -n)
  \/ \E o \in DOMAIN orders :
       \/ \E u \in Users :
            \/ \E c \in Codes, d \in 0..orders[o].base : Discount(o, u, c, d)
            \/ ChooseCard(o, u)
            \/ PayFromWallet(o, u)
       \/ \E a \in Admins : Approve(o, a) \/ Reject(o, a)
       \/ Deliver(o)
       \/ CompleteTopup(o)
       \/ FailOrder(o)
       \/ RewardFor(o)

Spec == Init /\ [][Next]_vars

-----------------------------------------------------------------------------
(* Properties.                                                             *)

(* Every column holds what its declaration in 0001_init.sql allows.        *)
TypeOK ==
  /\ balance \in [Users -> Nat]
  /\ rewarded \in SUBSET Users
  /\ ledger \in Seq(Row)
  /\ orders \in Seq(Order)
  /\ used \in [Codes -> Nat]
  /\ spent \in SUBSET Use

(* An order is delivered (or tried, or given up after a try) only if it    *)
(* was paid: from the wallet, or by card with a receipt that an admin      *)
(* approved; and the payment, the receipt and the status always fit, so a  *)
(* receipt never sits on an order that is cancelled, or unpaid, or paid    *)
(* from the wallet (AttachReceipt, PayFromWallet, Transition,              *)
(* CancelOpenOrders in any order).                                         *)
PaymentFits(x) ==
  /\ x.pay = "none" => x.status \in {"draft", "cancelled"} /\ ~x.receipt
  /\ x.pay = "wallet" => /\ x.status \in {"processing", "completed", "failed"}
                         /\ x.kind # "topup" /\ ~x.receipt
  /\ x.pay = "card" =>
       /\ x.status # "draft"
       /\ x.receipt <=> x.status \notin {"awaiting_receipt", "cancelled"}
       /\ x.status \in {"processing", "completed", "failed", "rejected"}
          => x.decided # Nobody

NothingUnpaid == \A o \in DOMAIN orders : PaymentFits(orders[o])

(* The wallet movements an order is owed, given how far it has come: the   *)
(* charge of a wallet payment, its refund when the delivery failed, the    *)
(* credit of a finished top-up.                                            *)
Movements(o, x) ==
  LET row(delta, reason) == [user |-> x.user, delta |-> delta,
                             reason |-> reason, order |-> o]
  IN  {m \in {row(-x.amount, x.kind)} : x.pay = "wallet"}
      \cup {m \in {row(x.amount, "refund")} :
              x.status = "failed" /\ x.pay = "wallet" /\ x.amount > 0}
      \cup {m \in {row(x.amount, "topup")} :
              x.status = "completed" /\ x.kind = "topup"}

\* A ledger row that moves an order's own money.
OfAnOrder(r) == r.reason \in Kinds \cup {"refund"}

(* The ledger holds exactly the movements the orders are owed, each once:  *)
(* no order is charged, refunded or credited twice or at another amount,   *)
(* whatever order the customers, the admins and the recovery act in.       *)
LedgerMatchesOrders ==
  /\ \A i \in DOMAIN ledger : OfAnOrder(ledger[i]) =>
       /\ ledger[i].order \in DOMAIN orders
       /\ ledger[i] \in Movements(ledger[i].order, orders[ledger[i].order])
  /\ \A o \in DOMAIN orders : \A m \in Movements(o, orders[o]) :
       \E i \in DOMAIN ledger : ledger[i] = m
  /\ \A i, j \in DOMAIN ledger :
       OfAnOrder(ledger[i]) /\ ledger[i] = ledger[j] => i = j

\* What row n of a ledger changes for u, and what u has after each row.
Change(rows, u, n) == IF rows[n].user = u THEN rows[n].delta ELSE 0

Totals(rows, u) ==
  LET total[n \in 0..Len(rows)] ==
        IF n = 0 THEN 0 ELSE total[n - 1] + Change(rows, u, n)
  IN  total

(* "Every change to a balance, so a balance is always explainable"         *)
(* (0001_init.sql:92): the ledger rows of a customer add up to the balance *)
(* and, read in the order they were written, never to less than nothing.   *)
BalanceExplained ==
  \A u \in Users :
    /\ balance[u] = Totals(ledger, u)[Len(ledger)]
    /\ \A n \in DOMAIN ledger : Totals(ledger, u)[n] >= 0

IsReward(i) == ledger[i].reason = "referral"

(* RewardReferrer pays once per invited customer, to the inviter, and for  *)
(* an order of that customer that was completed - even when two of the     *)
(* customer's orders complete at the same time.                            *)
RewardedOnce ==
  /\ \A i \in DOMAIN ledger : IsReward(i) =>
       LET o == ledger[i].order
       IN  /\ o \in DOMAIN orders
           /\ orders[o].status = "completed" /\ orders[o].kind # "topup"
           /\ orders[o].user \in rewarded
           /\ ledger[i].user = Referrer[orders[o].user]
  /\ \A i, j \in DOMAIN ledger :
       /\ IsReward(i) /\ IsReward(j)
       /\ orders[ledger[i].order].user = orders[ledger[j].order].user
       => i = j

(* discount_codes.used counts the rows of discount_uses, there is one such *)
(* row per customer and code, and it names a completed order on which the  *)
(* customer got the code: a receipt that is rejected or a delivery that    *)
(* fails never spends it (CompleteOrder).                                  *)
CodesSpentOnCompletion ==
  /\ \A c \in Codes : used[c] = Cardinality({s \in spent : s.code = c})
  /\ \A s \in spent :
       /\ s.order \in DOMAIN orders
       /\ orders[s.order].status = "completed"
       /\ orders[s.order].code = s.code
       /\ orders[s.order].user = s.user
  /\ \A s, t \in spent : s.code = t.code /\ s.user = t.user => s = t

(* What a customer was told to pay stands: once an order has left draft    *)
(* its price, its code and what it is for never change, a receipt is never *)
(* taken off it, it never goes back to draft, and a terminal order never   *)
(* changes at all.                                                         *)
SealedOrders ==
  [][\A o \in DOMAIN orders :
       /\ o \in DOMAIN orders'
       /\ LET x == orders[o]
              y == orders'[o]
          IN  /\ <<y.user, y.kind, y.service, y.base>> = <<x.user, x.kind, x.service, x.base>>
              /\ x.status # "draft" => /\ y.status # "draft"
                                       /\ <<y.discount, y.amount, y.code>>
                                          = <<x.discount, x.amount, x.code>>
              /\ x.receipt => y.receipt
              /\ x.status \in Terminal => y = x]_vars

-----------------------------------------------------------------------------
(* The wallet and the orders implement the escrow: see Escrow.tla.         *)

Stage(status) ==
  CASE status \in {"draft", "awaiting_receipt", "awaiting_review"} -> "open"
    [] status = "processing" -> "held"
    [] status = "completed" -> "done"
    [] status = "failed" -> "failed"
    [] status \in {"rejected", "cancelled"} -> "void"

SaleOf(x) ==
  [owner |-> x.user, price |-> x.amount, deposit |-> x.kind = "topup",
   by |-> IF Stage(x.status) \in {"open", "void"} THEN "none" ELSE x.pay,
   stage |-> Stage(x.status)]

Prices == UNION {0..b : b \in Amounts}

Deltas == Amounts \cup {-n : n \in Amounts} \cup {Reward}

Money == INSTANCE Escrow WITH purse <- balance, Prices <- Prices, Deltas <- Deltas,
                              sales <- [o \in DOMAIN orders |-> SaleOf(orders[o])]

(* Every store method moves money the way the escrow allows: a charge, a   *)
(* credit or a refund happens in the very step that changes the order, and *)
(* money moves for no other reason than a gift, a correction or a reward.  *)
ImplementsEscrow == Money!Spec
=============================================================================

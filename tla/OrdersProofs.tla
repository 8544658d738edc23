---------------------------- MODULE OrdersProofs ----------------------------
(***************************************************************************)
(* What holds of Orders.tla for every value of its constants.  The lemmas  *)
(* on Update, Append and the cancelling function say what the three ways   *)
(* a method changes a table do; the first theorems go action by action.    *)
(*                                                                         *)
(* The second part is what orders.go promises over time: orders are        *)
(* sealed, rewards and codes are spent once, and the tables implement the  *)
(* escrow.  Each action is first reduced to what it does to one row; the   *)
(* theorems then go by rows.  The last part sums the ledger.               *)
(***************************************************************************)
EXTENDS Orders, SequenceTheorems, FiniteSetTheorems, WellFoundedInduction, TLAPS

-----------------------------------------------------------------------------
(* How a table changes.                                                    *)

\* Update changes one row and keeps the number of rows.
LEMMA UpdateFacts ==
  ASSUME orders \in Seq(Order), NEW o \in DOMAIN orders, NEW x \in Order, Update(o, x)
  PROVE  /\ orders' \in Seq(Order)
         /\ DOMAIN orders' = DOMAIN orders
         /\ \A p \in DOMAIN orders : orders'[p] = IF p = o THEN x ELSE orders[p]
<1>1. DOMAIN orders = 1..Len(orders) /\ o \in 1..Len(orders)
  BY LenProperties
<1>2. /\ orders' \in Seq(Order) /\ Len(orders') = Len(orders)
      /\ \A p \in 1..Len(orders) : orders'[p] = IF p = o THEN x ELSE orders[p]
  BY <1>1, ExceptSeq DEF Update
<1>3. DOMAIN orders' = 1..Len(orders')
  BY <1>2, LenProperties
<1> QED
  BY <1>1, <1>2, <1>3

\* A row appended is the last one, and the others stay.
LEMMA AppendFacts ==
  ASSUME NEW S, NEW s \in Seq(S), NEW x \in S, NEW t, t = Append(s, x)
  PROVE  /\ t \in Seq(S)
         /\ Len(s) \in Nat
         /\ DOMAIN s = 1..Len(s)
         /\ DOMAIN t = 1..(Len(s) + 1)
         /\ t[Len(s) + 1] = x
         /\ \A i \in DOMAIN s : i \in DOMAIN t /\ i # Len(s) + 1 /\ t[i] = s[i]
         /\ \A i \in DOMAIN t : i \in DOMAIN s \/ i = Len(s) + 1
<1>1. Len(s) \in Nat /\ DOMAIN s = 1..Len(s)
  BY LenProperties
<1>2. /\ t \in Seq(S) /\ Len(t) = Len(s) + 1 /\ t[Len(s) + 1] = x
      /\ \A i \in 1..Len(s) : t[i] = s[i]
  BY AppendProperties
<1>3. DOMAIN t = 1..(Len(s) + 1)
  BY <1>2, LenProperties
<1> QED
  BY <1>1, <1>2, <1>3

\* CancelOpenOrders keeps every row but for the status of open ones.
LEMMA CancelFacts ==
  ASSUME orders \in Seq(Order), NEW u, CancelOpenOrders(u)
  PROVE  /\ orders' \in Seq(Order)
         /\ DOMAIN orders' = DOMAIN orders
         /\ \A o \in DOMAIN orders : orders'[o] =
              IF orders[o].user = u /\ orders[o].status \in Open
              THEN [orders[o] EXCEPT !.status = "cancelled"] ELSE orders[o]
<1>1. /\ Len(orders) \in Nat /\ DOMAIN orders = 1..Len(orders)
      /\ \A o \in 1..Len(orders) : orders[o] \in Order
  BY LenProperties, ElementOfSeq
<1>2. \A o \in 1..Len(orders) : [orders[o] EXCEPT !.status = "cancelled"] \in Order
  BY <1>1 DEF Order, Statuses
<1>3. orders' \in [1..Len(orders) -> Order]
  BY <1>1, <1>2 DEF CancelOpenOrders
<1>4. orders' \in Seq(Order)
  BY <1>1, <1>3, SeqDef
<1> QED
  BY <1>1, <1>3, <1>4 DEF CancelOpenOrders

\* What is at the number of an order is an order.
LEMMA OrderFacts ==
  ASSUME orders \in Seq(Order), NEW o \in DOMAIN orders
  PROVE  orders[o] \in Order
BY LenProperties, ElementOfSeq

\* The column updates of the store methods keep a row a row.
LEMMA RowChanges ==
  ASSUME NEW x \in Order, NEW status \in Statuses
  PROVE  /\ [x EXCEPT !.status = status] \in Order
         /\ \A pay \in {"none", "card", "wallet"} :
              [x EXCEPT !.pay = pay, !.status = status] \in Order
         /\ [x EXCEPT !.receipt = TRUE, !.status = status] \in Order
         /\ \A a \in Admins \cup {Nobody} :
              [x EXCEPT !.status = status, !.decided = a] \in Order
         /\ \A d, n \in Nat, c \in Codes :
              [x EXCEPT !.discount = d, !.amount = n, !.code = c] \in Order
<1>1. [x EXCEPT !.status = status] \in Order
  BY DEF Order
<1>2. ASSUME NEW pay \in {"none", "card", "wallet"}
      PROVE  [x EXCEPT !.pay = pay, !.status = status] \in Order
  <2> DEFINE y == [x EXCEPT !.pay = pay]
  <2>1. y \in Order
    BY DEF Order
  <2>2. [y EXCEPT !.status = status] \in Order
    BY <2>1 DEF Order
  <2>3. [x EXCEPT !.pay = pay, !.status = status] = [y EXCEPT !.status = status]
    OBVIOUS
  <2> QED
    BY <2>2, <2>3
<1>3. [x EXCEPT !.receipt = TRUE, !.status = status] \in Order
  <2> DEFINE y == [x EXCEPT !.receipt = TRUE]
  <2>1. y \in Order
    BY DEF Order
  <2>2. [y EXCEPT !.status = status] \in Order
    BY <2>1 DEF Order
  <2>3. [x EXCEPT !.receipt = TRUE, !.status = status] = [y EXCEPT !.status = status]
    OBVIOUS
  <2> QED
    BY <2>2, <2>3
<1>4. ASSUME NEW a \in Admins \cup {Nobody}
      PROVE  [x EXCEPT !.status = status, !.decided = a] \in Order
  <2> DEFINE y == [x EXCEPT !.status = status]
  <2>1. [y EXCEPT !.decided = a] \in Order
    BY <1>1 DEF Order
  <2>2. [x EXCEPT !.status = status, !.decided = a] = [y EXCEPT !.decided = a]
    OBVIOUS
  <2> QED
    BY <2>1, <2>2
<1>5. ASSUME NEW d \in Nat, NEW n \in Nat, NEW c \in Codes
      PROVE  [x EXCEPT !.discount = d, !.amount = n, !.code = c] \in Order
  <2> DEFINE y == [x EXCEPT !.discount = d]
             z == [y EXCEPT !.amount = n]
  <2>1. y \in Order
    BY DEF Order
  <2>2. z \in Order
    BY <2>1 DEF Order
  <2>3. [z EXCEPT !.code = c] \in Order
    BY <2>2 DEF Order
  <2>4. [x EXCEPT !.discount = d, !.amount = n, !.code = c] = [z EXCEPT !.code = c]
    OBVIOUS
  <2> QED
    BY <2>3, <2>4
<1> QED
  BY <1>1, <1>2, <1>3, <1>4, <1>5

-----------------------------------------------------------------------------
(* Types.                                                                  *)

\* A wallet movement keeps the wallet tables well formed.
LEMMA AdjustType ==
  ASSUME TypeOK, NEW u \in Users, NEW delta \in Int, NEW reason \in Reasons, NEW o \in Nat,
         AdjustBalanceTx(u, delta, reason, o)
  PROVE  balance' \in [Users -> Nat] /\ ledger' \in Seq(Row)
<1>1. balance' \in [Users -> Nat]
  BY DEF TypeOK, AdjustBalanceTx, Affords
<1>2. [user |-> u, delta |-> delta, reason |-> reason, order |-> o] \in Row
  BY DEF Row
<1>3. ledger' \in Seq(Row)
  BY <1>2, AppendFacts DEF TypeOK, AdjustBalanceTx
<1> QED
  BY <1>1, <1>3

\* A step of any caller keeps every table well formed.
LEMMA StepKeepsTypes == TypeOK /\ [Next]_vars => TypeOK'
<1> SUFFICES ASSUME TypeOK, [Next]_vars PROVE TypeOK'
  OBVIOUS
<1> USE OrdersAssumption
<1>0. orders \in Seq(Order) /\ ledger \in Seq(Row)
  BY DEF TypeOK
<1>o. \A o \in DOMAIN orders : orders[o] \in Order /\ o \in Nat
  BY <1>0, OrderFacts, LenProperties
<1>1. ASSUME NEW u \in Users, NEW kind \in Kinds, NEW service \in Services \cup {0},
             NEW base \in Amounts, Start(u, kind, service, base)
      PROVE  TypeOK'
  <2>1. [user |-> u, kind |-> kind, service |-> service,
         base |-> base, discount |-> 0, amount |-> base, code |-> NoCode,
         pay |-> "none", status |-> "draft", receipt |-> FALSE, decided |-> Nobody] \in Order
    BY DEF Order, Statuses
  <2>2. orders' \in Seq(Order)
    BY <1>0, <1>1, <2>1, AppendFacts DEF Start, CreateOrder
  <2> QED
    BY <1>1, <2>2 DEF TypeOK, Start, CreateOrder, wallets, discounts
<1>2. ASSUME NEW u \in Users, CancelOpenOrders(u) PROVE TypeOK'
  <2>1. orders' \in Seq(Order)
    BY <1>0, <1>2, CancelFacts
  <2> QED
    BY <1>2, <2>1 DEF TypeOK, CancelOpenOrders, wallets, discounts
<1>3. ASSUME NEW u \in Users, AttachReceipt(u) PROVE TypeOK'
  <2>1. PICK o \in DOMAIN orders :
          Update(o, [orders[o] EXCEPT !.receipt = TRUE, !.status = "awaiting_review"])
    BY <1>3 DEF AttachReceipt, Waiting
  <2>2. [orders[o] EXCEPT !.receipt = TRUE, !.status = "awaiting_review"] \in Order
    BY <1>o, RowChanges DEF Statuses
  <2>3. orders' \in Seq(Order)
    BY <1>0, <2>1, <2>2, UpdateFacts
  <2> QED
    BY <1>3, <2>3 DEF TypeOK, AttachReceipt, wallets, discounts
<1>4. ASSUME NEW u \in Users, NEW delta \in Int, AdminAdjust(u, delta) PROVE TypeOK'
  <2>1. balance' \in [Users -> Nat] /\ ledger' \in Seq(Row)
    BY <1>4, AdjustType DEF AdminAdjust, AdjustBalance, Reasons
  <2> QED
    BY <1>4, <2>1 DEF TypeOK, AdminAdjust, AdjustBalance, discounts
<1>5. ASSUME NEW o \in DOMAIN orders, NEW u \in Users, NEW c \in Codes,
             NEW d \in 0..orders[o].base, Discount(o, u, c, d)
      PROVE  TypeOK'
  <2>0. orders[o].base \in Nat /\ d \in Nat /\ orders[o].base - d \in Nat
    BY <1>o DEF Order
  <2>1. [orders[o] EXCEPT !.discount = d, !.amount = orders[o].base - d, !.code = c] \in Order
    BY <1>o, <2>0, RowChanges DEF Statuses
  <2>2. orders' \in Seq(Order)
    BY <1>0, <1>5, <2>1, UpdateFacts DEF Discount, ApplyDiscount
  <2> QED
    BY <1>5, <2>2 DEF TypeOK, Discount, ApplyDiscount, wallets, discounts
<1>6. ASSUME NEW o \in DOMAIN orders, NEW u \in Users, ChooseCard(o, u) PROVE TypeOK'
  <2>1. [orders[o] EXCEPT !.pay = "card", !.status = "awaiting_receipt"] \in Order
    BY <1>o, RowChanges DEF Statuses
  <2>2. orders' \in Seq(Order)
    BY <1>0, <1>6, <2>1, UpdateFacts DEF ChooseCard
  <2> QED
    BY <1>6, <2>2 DEF TypeOK, ChooseCard, wallets, discounts
<1>7. ASSUME NEW o \in DOMAIN orders, NEW u \in Users, PayFromWallet(o, u) PROVE TypeOK'
  <2>1. [orders[o] EXCEPT !.pay = "wallet", !.status = "processing"] \in Order
    BY <1>o, RowChanges DEF Statuses
  <2>2. orders' \in Seq(Order)
    BY <1>0, <1>7, <2>1, UpdateFacts DEF PayFromWallet
  <2>3. -orders[o].amount \in Int /\ orders[o].kind \in Reasons
    BY <1>o DEF Order, Reasons
  <2>4. balance' \in [Users -> Nat] /\ ledger' \in Seq(Row)
    BY <1>o, <1>7, <2>3, AdjustType DEF PayFromWallet
  <2> QED
    BY <1>7, <2>2, <2>4 DEF TypeOK, PayFromWallet, discounts
<1>8. ASSUME NEW o \in DOMAIN orders, NEW a \in Admins, Approve(o, a) \/ Reject(o, a)
      PROVE  TypeOK'
  <2>1. PICK to \in {"processing", "rejected"} : Transition(o, {"awaiting_review"}, to, a)
    BY <1>8 DEF Approve, Reject
  <2>2. [orders[o] EXCEPT !.status = to, !.decided = IF a = Nobody THEN @ ELSE a] \in Order
    BY <1>o, RowChanges DEF Statuses
  <2>3. orders' \in Seq(Order)
    BY <1>0, <2>1, <2>2, UpdateFacts DEF Transition
  <2> QED
    BY <2>1, <2>3 DEF TypeOK, Transition, wallets, discounts
<1>9. ASSUME NEW o \in DOMAIN orders, Deliver(o) PROVE TypeOK'
  <2>1. [orders[o] EXCEPT !.status = "completed"] \in Order
    BY <1>o DEF Order, Statuses
  <2>2. orders' \in Seq(Order)
    BY <1>0, <1>9, <2>1, UpdateFacts DEF Deliver, CompleteOrder, SetStatus
  <2>3. used' \in [Codes -> Nat] /\ spent' \in SUBSET Use
    <3> DEFINE c == orders[o].code
               u == orders[o].user
    <3>1. c \in Codes \cup {NoCode} /\ u \in Users
      BY <1>o DEF Order
    <3>2. CASE UNCHANGED discounts
      BY <3>2 DEF TypeOK, discounts
    <3>3. CASE /\ c # NoCode
               /\ spent' = spent \cup {[code |-> c, user |-> u, order |-> o]}
               /\ used' = [used EXCEPT ![c] = @ + 1]
      BY <1>o, <3>1, <3>3 DEF TypeOK, Use
    <3> QED
      BY <1>9, <3>2, <3>3 DEF Deliver, CompleteOrder, SpendCode
  <2> QED
    BY <1>9, <2>2, <2>3 DEF TypeOK, Deliver, CompleteOrder, wallets
<1>10. ASSUME NEW o \in DOMAIN orders, CompleteTopup(o) PROVE TypeOK'
  <2>1. [orders[o] EXCEPT !.status = "completed"] \in Order
    BY <1>o DEF Order, Statuses
  <2>2. orders' \in Seq(Order)
    BY <1>0, <1>10, <2>1, UpdateFacts DEF CompleteTopup, SetStatus
  <2>3. orders[o].user \in Users /\ orders[o].amount \in Int /\ "topup" \in Reasons
    BY <1>o DEF Order, Reasons, Kinds
  <2>4. balance' \in [Users -> Nat] /\ ledger' \in Seq(Row)
    BY <1>o, <1>10, <2>3, AdjustType DEF CompleteTopup
  <2> QED
    BY <1>10, <2>2, <2>4 DEF TypeOK, CompleteTopup, discounts
<1>11. ASSUME NEW o \in DOMAIN orders, FailOrder(o) PROVE TypeOK'
  <2>1. [orders[o] EXCEPT !.status = "failed"] \in Order
    BY <1>o DEF Order, Statuses
  <2>2. orders' \in Seq(Order)
    BY <1>0, <1>11, <2>1, UpdateFacts DEF FailOrder, SetStatus
  <2>3. orders[o].user \in Users /\ orders[o].amount \in Int /\ "refund" \in Reasons
    BY <1>o DEF Order, Reasons
  <2>4. balance' \in [Users -> Nat] /\ ledger' \in Seq(Row)
    BY <1>o, <1>11, <2>3, AdjustType DEF FailOrder, TypeOK
  <2> QED
    BY <1>11, <2>2, <2>4 DEF TypeOK, FailOrder, discounts
<1>12. ASSUME NEW o \in DOMAIN orders, RewardFor(o) PROVE TypeOK'
  <2>1. CASE UNCHANGED vars
    BY <2>1 DEF TypeOK, vars
  <2>2. CASE RewardDue(o) /\ RewardReferrer(o)
    <3>1. /\ orders[o].user \in Users /\ Referrer[orders[o].user] \in Users
          /\ Reward \in Int /\ "referral" \in Reasons
      BY <1>o, <2>2 DEF Order, Reasons, RewardDue
    <3>2. balance' \in [Users -> Nat] /\ ledger' \in Seq(Row)
      BY <1>o, <2>2, <3>1, AdjustType DEF RewardReferrer
    <3> QED
      BY <2>2, <3>1, <3>2 DEF TypeOK, RewardReferrer, discounts
  <2> QED
    BY <1>12, <2>1, <2>2 DEF RewardFor, RewardReferrer
<1>13. CASE UNCHANGED vars
  BY <1>13 DEF TypeOK, vars
<1> QED
  <2>1. \A n \in Amounts : n \in Int /\ -n \in Int
    OBVIOUS
  <2> QED
    BY <1>1, <1>2, <1>3, <1>4, <1>5, <1>6, <1>7, <1>8, <1>9, <1>10, <1>11, <1>12, <1>13, <2>1
       DEF Next

(* Every column of every table holds what its declaration allows, for any  *)
(* number of customers, admins, codes and orders.                          *)
THEOREM TypeCorrect == Spec => []TypeOK
<1>1. Init => TypeOK
  BY EmptySeq DEF Init, TypeOK
<1> QED
  BY <1>1, StepKeepsTypes, PTL DEF Spec

-----------------------------------------------------------------------------
(* Payment before delivery.                                                *)

\* Updating one row with a row whose payment fits keeps the invariant.
LEMMA UpdateFits ==
  ASSUME TypeOK, NothingUnpaid, NEW o \in DOMAIN orders, NEW x \in Order,
         Update(o, x), PaymentFits(x)
  PROVE  NothingUnpaid'
<1>1. /\ DOMAIN orders' = DOMAIN orders
      /\ \A p \in DOMAIN orders : orders'[p] = IF p = o THEN x ELSE orders[p]
  BY UpdateFacts DEF TypeOK
<1>2. ASSUME NEW p \in DOMAIN orders PROVE PaymentFits(orders'[p])
  BY <1>1 DEF NothingUnpaid
<1> QED
  BY <1>1, <1>2 DEF NothingUnpaid, PaymentFits

(* No step of any caller lets an order be delivered that was not paid from *)
(* the wallet or by a receipt an admin approved.  NothingUnpaid is         *)
(* inductive relative to TypeOK.                                           *)
THEOREM NothingIsDeliveredUnpaid == Spec => []NothingUnpaid
<1>1. Init => NothingUnpaid
  BY DEF Init, NothingUnpaid
<1>2. TypeOK /\ TypeOK' /\ NothingUnpaid /\ [Next]_vars => NothingUnpaid'
  <2> SUFFICES ASSUME TypeOK, TypeOK', NothingUnpaid, [Next]_vars PROVE NothingUnpaid'
    OBVIOUS
  <2> USE OrdersAssumption
  <2>0. orders \in Seq(Order)
    BY DEF TypeOK
  <2>o. \A o \in DOMAIN orders : orders[o] \in Order /\ PaymentFits(orders[o])
    BY <2>0, OrderFacts DEF NothingUnpaid
  <2>u. ASSUME UNCHANGED orders PROVE NothingUnpaid'
    BY <2>u DEF NothingUnpaid, PaymentFits
  <2>1. ASSUME NEW u \in Users, NEW kind \in Kinds, NEW service \in Services \cup {0},
               NEW base \in Amounts, Start(u, kind, service, base)
        PROVE  NothingUnpaid'
    <3> DEFINE x == [user |-> u, kind |-> kind, service |-> service,
                     base |-> base, discount |-> 0, amount |-> base, code |-> NoCode,
                     pay |-> "none", status |-> "draft", receipt |-> FALSE,
                     decided |-> Nobody]
    <3>1. x \in Order /\ PaymentFits(x)
      BY DEF Order, Statuses, PaymentFits
    <3>2. orders' = Append(orders, x)
      BY <2>1 DEF Start, CreateOrder
    <3> HIDE DEF x
    <3>3. \A o \in DOMAIN orders' : orders'[o] = x \/ (o \in DOMAIN orders /\ orders'[o] = orders[o])
      BY <2>0, <3>1, <3>2, AppendFacts
    <3>4. \A o \in DOMAIN orders' : PaymentFits(orders'[o])
      BY <2>o, <3>1, <3>3
    <3> QED
      BY <3>4 DEF NothingUnpaid, PaymentFits
  <2>2. ASSUME NEW u \in Users, CancelOpenOrders(u) PROVE NothingUnpaid'
    <3>1. /\ DOMAIN orders' = DOMAIN orders
          /\ \A o \in DOMAIN orders : orders'[o] =
               IF orders[o].user = u /\ orders[o].status \in Open
               THEN [orders[o] EXCEPT !.status = "cancelled"] ELSE orders[o]
      BY <2>0, <2>2, CancelFacts
    <3>2. ASSUME NEW o \in DOMAIN orders, orders[o].status \in Open
          PROVE  PaymentFits([orders[o] EXCEPT !.status = "cancelled"])
      BY <2>o, <3>2 DEF PaymentFits, Open, Order
    <3>3. \A o \in DOMAIN orders' : PaymentFits(orders'[o])
      BY <2>o, <3>1, <3>2
    <3> QED
      BY <3>3 DEF NothingUnpaid, PaymentFits
  <2>3. ASSUME NEW u \in Users, AttachReceipt(u) PROVE NothingUnpaid'
    <3>1. PICK o \in DOMAIN orders :
            /\ orders[o].status = "awaiting_receipt"
            /\ Update(o, [orders[o] EXCEPT !.receipt = TRUE, !.status = "awaiting_review"])
      BY <2>3 DEF AttachReceipt, Waiting
    <3> DEFINE x == [orders[o] EXCEPT !.receipt = TRUE, !.status = "awaiting_review"]
    <3>2. x \in Order
      BY <2>o, RowChanges DEF Statuses
    <3>3. PaymentFits(x)
      BY <2>o, <3>1 DEF PaymentFits, Order
    <3> QED
      BY <3>1, <3>2, <3>3, UpdateFits
  <2>5. ASSUME NEW o \in DOMAIN orders, NEW u \in Users, NEW c \in Codes,
               NEW d \in 0..orders[o].base, Discount(o, u, c, d)
        PROVE  NothingUnpaid'
    <3> DEFINE x == [orders[o] EXCEPT !.discount = d, !.amount = orders[o].base - d, !.code = c]
    <3>1. orders[o].base \in Nat /\ d \in Nat /\ orders[o].base - d \in Nat
      BY <2>o DEF Order
    <3>2. x \in Order
      BY <2>o, <3>1, RowChanges DEF Statuses
    <3>3. PaymentFits(x)
      BY <2>o DEF PaymentFits, Order
    <3> QED
      BY <2>5, <3>2, <3>3, UpdateFits DEF Discount, ApplyDiscount
  <2>6. ASSUME NEW o \in DOMAIN orders, NEW u \in Users, ChooseCard(o, u) PROVE NothingUnpaid'
    <3> DEFINE x == [orders[o] EXCEPT !.pay = "card", !.status = "awaiting_receipt"]
    <3>1. x \in Order
      BY <2>o, RowChanges DEF Statuses
    <3>2. PaymentFits(x)
      BY <2>o, <2>6 DEF PaymentFits, Order, ChooseCard
    <3> QED
      BY <2>6, <3>1, <3>2, UpdateFits DEF ChooseCard
  <2>7. ASSUME NEW o \in DOMAIN orders, NEW u \in Users, PayFromWallet(o, u) PROVE NothingUnpaid'
    <3> DEFINE x == [orders[o] EXCEPT !.pay = "wallet", !.status = "processing"]
    <3>1. x \in Order
      BY <2>o, RowChanges DEF Statuses
    <3>2. PaymentFits(x)
      BY <2>o, <2>7 DEF PaymentFits, Order, PayFromWallet, Payable
    <3> QED
      BY <2>7, <3>1, <3>2, UpdateFits DEF PayFromWallet
  <2>8. ASSUME NEW o \in DOMAIN orders, NEW a \in Admins, Approve(o, a) \/ Reject(o, a)
        PROVE  NothingUnpaid'
    <3>1. PICK to \in {"processing", "rejected"} : Transition(o, {"awaiting_review"}, to, a)
      BY <2>8 DEF Approve, Reject
    <3> DEFINE x == [orders[o] EXCEPT !.status = to, !.decided = a]
    <3>2. x \in Order
      BY <2>o, RowChanges DEF Statuses
    <3>3. PaymentFits(x)
      BY <2>o, <3>1 DEF PaymentFits, Order, Transition
    <3>4. Update(o, x)
      BY <3>1 DEF Transition
    <3> QED
      BY <3>2, <3>3, <3>4, UpdateFits
  <2>9. ASSUME NEW o \in DOMAIN orders, Processing(o), NEW status \in {"completed", "failed"},
               SetStatus(o, status)
        PROVE  NothingUnpaid'
    <3> DEFINE x == [orders[o] EXCEPT !.status = status]
    <3>1. x \in Order
      BY <2>o, RowChanges DEF Statuses
    <3>2. PaymentFits(x)
      BY <2>o, <2>9 DEF PaymentFits, Order, Processing
    <3> QED
      BY <2>9, <3>1, <3>2, UpdateFits DEF SetStatus
  <2>10. ASSUME NEW o \in DOMAIN orders, Deliver(o) \/ CompleteTopup(o) \/ FailOrder(o)
         PROVE  NothingUnpaid'
    BY <2>9, <2>10 DEF Deliver, CompleteOrder, CompleteTopup, FailOrder
  <2>11. ASSUME NEW o \in DOMAIN orders, RewardFor(o) PROVE NothingUnpaid'
    BY <2>u, <2>11 DEF RewardFor, RewardReferrer, vars
  <2>12. ASSUME NEW u \in Users, NEW delta \in Int, AdminAdjust(u, delta) PROVE NothingUnpaid'
    BY <2>u, <2>12 DEF AdminAdjust, AdjustBalance
  <2>13. CASE UNCHANGED vars
    BY <2>u, <2>13 DEF vars
  <2> QED
    <3>1. \A n \in Amounts : n \in Int /\ -n \in Int
      OBVIOUS
    <3> QED
      BY <2>1, <2>2, <2>3, <2>5, <2>6, <2>7, <2>8, <2>10, <2>11, <2>12, <2>13, <3>1 DEF Next
<1> QED
  BY <1>1, <1>2, TypeCorrect, PTL DEF Spec

-----------------------------------------------------------------------------
(* The ledger against the orders.                                          *)

\* A step that moves no money and changes what no order is owed.
LEMMA NoMovement ==
  ASSUME LedgerMatchesOrders, UNCHANGED ledger,
         DOMAIN orders \subseteq DOMAIN orders',
         \A o \in DOMAIN orders : Movements(o, orders'[o]) = Movements(o, orders[o]),
         \A o \in DOMAIN orders' \ DOMAIN orders : Movements(o, orders'[o]) = {}
  PROVE  LedgerMatchesOrders'
<1>1. ASSUME NEW i \in DOMAIN ledger, OfAnOrder(ledger[i])
      PROVE  /\ ledger[i].order \in DOMAIN orders'
             /\ ledger[i] \in Movements(ledger[i].order, orders'[ledger[i].order])
  BY <1>1 DEF LedgerMatchesOrders
<1>2. ASSUME NEW o \in DOMAIN orders', NEW m \in Movements(o, orders'[o])
      PROVE  \E i \in DOMAIN ledger : ledger[i] = m
  <2>1. o \in DOMAIN orders /\ m \in Movements(o, orders[o])
    BY <1>2
  <2> QED
    BY <2>1 DEF LedgerMatchesOrders
<1> QED
  BY <1>1, <1>2 DEF LedgerMatchesOrders, OfAnOrder, Movements

\* A step that writes a ledger row of no order's own and touches no order.
LEMMA ForeignRow ==
  ASSUME TypeOK, LedgerMatchesOrders, UNCHANGED orders,
         NEW m \in Row, ~OfAnOrder(m), ledger' = Append(ledger, m)
  PROVE  LedgerMatchesOrders'
<1>1. /\ \A i \in DOMAIN ledger : i \in DOMAIN ledger' /\ ledger'[i] = ledger[i]
      /\ \A i \in DOMAIN ledger' : i \in DOMAIN ledger \/ ledger'[i] = m
  BY AppendFacts DEF TypeOK
<1>2. \A i \in DOMAIN ledger' : OfAnOrder(ledger'[i]) =>
        i \in DOMAIN ledger /\ ledger'[i] = ledger[i]
  BY <1>1
<1> QED
  BY <1>1, <1>2 DEF LedgerMatchesOrders, OfAnOrder, Movements

\* A step that makes one movement and leaves the order owed just that more.
LEMMA OneMovement ==
  ASSUME TypeOK, LedgerMatchesOrders,
         NEW o \in DOMAIN orders, NEW x \in Order, Update(o, x),
         NEW m \in Row, OfAnOrder(m), m.order = o, ledger' = Append(ledger, m),
         m \notin Movements(o, orders[o]),
         Movements(o, x) = Movements(o, orders[o]) \cup {m}
  PROVE  LedgerMatchesOrders'
<1>1. /\ \A i \in DOMAIN ledger : i \in DOMAIN ledger' /\ ledger'[i] = ledger[i]
      /\ Len(ledger) + 1 \in DOMAIN ledger' /\ ledger'[Len(ledger) + 1] = m
      /\ \A i \in DOMAIN ledger' : i \in DOMAIN ledger \/ i = Len(ledger) + 1
  BY AppendFacts DEF TypeOK
<1>2. /\ DOMAIN orders' = DOMAIN orders
      /\ \A p \in DOMAIN orders : orders'[p] = IF p = o THEN x ELSE orders[p]
  BY UpdateFacts DEF TypeOK
<1>3. ASSUME NEW i \in DOMAIN ledger', OfAnOrder(ledger'[i])
      PROVE  /\ ledger'[i].order \in DOMAIN orders
             /\ ledger'[i] \in Movements(ledger'[i].order, orders'[ledger'[i].order])
  BY <1>1, <1>2, <1>3 DEF LedgerMatchesOrders
<1>4. ASSUME NEW p \in DOMAIN orders, NEW n \in Movements(p, orders'[p])
      PROVE  \E i \in DOMAIN ledger' : ledger'[i] = n
  <2>1. CASE n = m
    BY <1>1, <2>1
  <2>2. CASE n # m
    <3>1. n \in Movements(p, orders[p])
      BY <1>2, <1>4, <2>2
    <3>2. PICK i \in DOMAIN ledger : ledger[i] = n
      BY <3>1 DEF LedgerMatchesOrders
    <3> QED
      BY <1>1, <3>2
  <2> QED
    BY <2>1, <2>2
<1>5. \A i \in DOMAIN ledger : ledger[i] # m
  BY DEF LedgerMatchesOrders
<1>6. ASSUME NEW i \in DOMAIN ledger', NEW j \in DOMAIN ledger',
             OfAnOrder(ledger'[i]), ledger'[i] = ledger'[j]
      PROVE  i = j
  BY <1>1, <1>5, <1>6 DEF LedgerMatchesOrders
<1> QED
  BY <1>2, <1>3, <1>4, <1>6 DEF LedgerMatchesOrders, OfAnOrder, Movements

\* A row update that leaves the owner, the price, the kind and what decides
\* the movements of an order alone.
LEMMA UpdateWithoutMovement ==
  ASSUME TypeOK, LedgerMatchesOrders, UNCHANGED ledger,
         NEW o \in DOMAIN orders, NEW x \in Order, Update(o, x),
         Movements(o, x) = Movements(o, orders[o])
  PROVE  LedgerMatchesOrders'
<1>1. /\ DOMAIN orders' = DOMAIN orders
      /\ \A p \in DOMAIN orders : orders'[p] = IF p = o THEN x ELSE orders[p]
  BY UpdateFacts DEF TypeOK
<1> QED
  BY <1>1, NoMovement

\* What an order is owed, read off its row.
LEMMA MovementCases ==
  ASSUME NEW o, NEW x \in Order
  PROVE  /\ x.pay # "wallet" /\ x.status # "completed" => Movements(o, x) = {}
         /\ x.pay = "wallet" /\ x.status # "failed" /\ x.kind # "topup" =>
              Movements(o, x) = {[user |-> x.user, delta |-> -x.amount,
                                  reason |-> x.kind, order |-> o]}
         /\ x.pay # "wallet" /\ x.kind # "topup" => Movements(o, x) = {}
BY DEF Movements

(* The ledger holds exactly the movements the orders are owed, each once:  *)
(* no sequence of calls charges, refunds or credits an order twice, or at  *)
(* another amount, or leaves a charge, a refund or a credit out.  The      *)
(* invariant is inductive relative to TypeOK and NothingUnpaid: a draft    *)
(* has moved nothing because its payment is not the wallet's yet.          *)
THEOREM LedgerIsTrue == Spec => []LedgerMatchesOrders
<1>1. Init => LedgerMatchesOrders
  BY DEF Init, LedgerMatchesOrders
<1>2. TypeOK /\ NothingUnpaid /\ LedgerMatchesOrders /\ [Next]_vars => LedgerMatchesOrders'
  <2> SUFFICES ASSUME TypeOK, NothingUnpaid, LedgerMatchesOrders, [Next]_vars
               PROVE  LedgerMatchesOrders'
    OBVIOUS
  <2> USE OrdersAssumption
  <2>0. orders \in Seq(Order)
    BY DEF TypeOK
  <2>o. \A o \in DOMAIN orders : orders[o] \in Order /\ PaymentFits(orders[o]) /\ o \in Nat
    BY <2>0, OrderFacts, LenProperties DEF NothingUnpaid
  <2>1. ASSUME NEW u \in Users, NEW kind \in Kinds, NEW service \in Services \cup {0},
               NEW base \in Amounts, Start(u, kind, service, base)
        PROVE  LedgerMatchesOrders'
    <3> DEFINE x == [user |-> u, kind |-> kind, service |-> service,
                     base |-> base, discount |-> 0, amount |-> base, code |-> NoCode,
                     pay |-> "none", status |-> "draft", receipt |-> FALSE,
                     decided |-> Nobody]
    <3>1. x \in Order /\ x.pay = "none" /\ x.status = "draft"
      BY DEF Order, Statuses
    <3>2. orders' = Append(orders, x) /\ UNCHANGED ledger
      BY <2>1 DEF Start, CreateOrder, wallets
    <3> HIDE DEF x
    <3>3. /\ \A o \in DOMAIN orders : o \in DOMAIN orders' /\ orders'[o] = orders[o]
          /\ \A o \in DOMAIN orders' \ DOMAIN orders : orders'[o] = x
      BY <2>0, <3>1, <3>2, AppendFacts
    <3>4. \A o : Movements(o, x) = {}
      BY <3>1, MovementCases
    <3> QED
      BY <3>2, <3>3, <3>4, NoMovement
  <2>2. ASSUME NEW u \in Users, CancelOpenOrders(u) PROVE LedgerMatchesOrders'
    <3>1. /\ DOMAIN orders' = DOMAIN orders
          /\ \A o \in DOMAIN orders : orders'[o] =
               IF orders[o].user = u /\ orders[o].status \in Open
               THEN [orders[o] EXCEPT !.status = "cancelled"] ELSE orders[o]
      BY <2>0, <2>2, CancelFacts
    <3>2. ASSUME NEW o \in DOMAIN orders, orders[o].status \in Open
          PROVE  Movements(o, [orders[o] EXCEPT !.status = "cancelled"])
                 = Movements(o, orders[o])
      <4> DEFINE x == [orders[o] EXCEPT !.status = "cancelled"]
      <4>1. x \in Order
        BY <2>o, RowChanges DEF Statuses
      <4>2. /\ orders[o].pay # "wallet" /\ orders[o].status # "completed"
            /\ x.pay # "wallet" /\ x.status # "completed"
        BY <2>o, <3>2 DEF PaymentFits, Open, Order
      <4> HIDE DEF x
      <4> QED
        BY <2>o, <4>1, <4>2, MovementCases DEF x
    <3> QED
      BY <2>2, <3>1, <3>2, NoMovement DEF CancelOpenOrders, wallets
  <2>3. ASSUME NEW u \in Users, AttachReceipt(u) PROVE LedgerMatchesOrders'
    <3>1. PICK o \in DOMAIN orders :
            /\ orders[o].status = "awaiting_receipt"
            /\ Update(o, [orders[o] EXCEPT !.receipt = TRUE, !.status = "awaiting_review"])
            /\ UNCHANGED ledger
      BY <2>3 DEF AttachReceipt, Waiting, wallets
    <3> DEFINE x == [orders[o] EXCEPT !.receipt = TRUE, !.status = "awaiting_review"]
    <3>2. x \in Order
      BY <2>o, RowChanges DEF Statuses
    <3>3. /\ orders[o].pay # "wallet" /\ orders[o].status # "completed"
          /\ x.pay # "wallet" /\ x.status # "completed"
      BY <2>o, <3>1 DEF PaymentFits, Order
    <3>4. Movements(o, x) = Movements(o, orders[o])
      BY <2>o, <3>2, <3>3, MovementCases
    <3> QED
      BY <3>1, <3>2, <3>4, UpdateWithoutMovement
  <2>4. ASSUME NEW u \in Users, NEW delta \in Int, AdminAdjust(u, delta)
        PROVE  LedgerMatchesOrders'
    <3> DEFINE m == [user |-> u, delta |-> delta, reason |-> "admin", order |-> 0]
    <3>1. m \in Row /\ ~OfAnOrder(m)
      BY DEF Row, Reasons, OfAnOrder, Kinds
    <3>2. ledger' = Append(ledger, m) /\ UNCHANGED orders
      BY <2>4 DEF AdminAdjust, AdjustBalance, AdjustBalanceTx
    <3> HIDE DEF m
    <3> QED
      BY <3>1, <3>2, ForeignRow
  <2>5. ASSUME NEW o \in DOMAIN orders, NEW u \in Users, NEW c \in Codes,
               NEW d \in 0..orders[o].base, Discount(o, u, c, d)
        PROVE  LedgerMatchesOrders'
    <3> DEFINE x == [orders[o] EXCEPT !.discount = d, !.amount = orders[o].base - d, !.code = c]
    <3>1. orders[o].base \in Nat /\ d \in Nat /\ orders[o].base - d \in Nat
      BY <2>o DEF Order
    <3>2. x \in Order
      BY <2>o, <3>1, RowChanges DEF Statuses
    <3>3. /\ orders[o].pay # "wallet" /\ orders[o].status # "completed"
          /\ x.pay # "wallet" /\ x.status # "completed"
      BY <2>o, <2>5 DEF PaymentFits, Order, Discount, ApplyDiscount, Discountable
    <3>4. Movements(o, x) = Movements(o, orders[o])
      BY <2>o, <3>2, <3>3, MovementCases
    <3> QED
      BY <2>5, <3>2, <3>4, UpdateWithoutMovement DEF Discount, ApplyDiscount, wallets
  <2>6. ASSUME NEW o \in DOMAIN orders, NEW u \in Users, ChooseCard(o, u)
        PROVE  LedgerMatchesOrders'
    <3> DEFINE x == [orders[o] EXCEPT !.pay = "card", !.status = "awaiting_receipt"]
    <3>1. x \in Order
      BY <2>o, RowChanges DEF Statuses
    <3>2. /\ orders[o].pay # "wallet" /\ orders[o].status # "completed"
          /\ x.pay # "wallet" /\ x.status # "completed"
      BY <2>o, <2>6 DEF PaymentFits, Order, ChooseCard
    <3>3. Movements(o, x) = Movements(o, orders[o])
      BY <2>o, <3>1, <3>2, MovementCases
    <3> QED
      BY <2>6, <3>1, <3>3, UpdateWithoutMovement DEF ChooseCard, wallets
  <2>7. ASSUME NEW o \in DOMAIN orders, NEW u \in Users, PayFromWallet(o, u)
        PROVE  LedgerMatchesOrders'
    <3> DEFINE x == [orders[o] EXCEPT !.pay = "wallet", !.status = "processing"]
               m == [user |-> orders[o].user, delta |-> -orders[o].amount,
                     reason |-> orders[o].kind, order |-> o]
    <3>1. x \in Order
      BY <2>o, RowChanges DEF Statuses
    <3>2. /\ orders[o].pay # "wallet" /\ orders[o].status # "completed"
          /\ x.pay = "wallet" /\ x.status # "failed" /\ x.kind # "topup"
          /\ x.user = orders[o].user /\ x.amount = orders[o].amount /\ x.kind = orders[o].kind
      BY <2>o, <2>7 DEF PaymentFits, Order, PayFromWallet, Payable
    <3>3. m \in Row /\ OfAnOrder(m) /\ m.order = o
      BY <2>o DEF Row, Reasons, OfAnOrder, Order
    <3>4. Movements(o, orders[o]) = {} /\ Movements(o, x) = {m}
      <4>1. Movements(o, orders[o]) = {}
        BY <2>o, <3>2, MovementCases
      <4>2. Movements(o, x) = {[user |-> x.user, delta |-> -x.amount,
                                reason |-> x.kind, order |-> o]}
        BY <3>1, <3>2, MovementCases
      <4> QED
        BY <3>2, <4>1, <4>2
    <3>5. Update(o, x) /\ ledger' = Append(ledger, m)
      BY <2>7 DEF PayFromWallet, AdjustBalanceTx
    <3> HIDE DEF x, m
    <3> QED
      BY <3>1, <3>3, <3>4, <3>5, OneMovement
  <2>8. ASSUME NEW o \in DOMAIN orders, NEW a \in Admins, Approve(o, a) \/ Reject(o, a)
        PROVE  LedgerMatchesOrders'
    <3>1. PICK to \in {"processing", "rejected"} : Transition(o, {"awaiting_review"}, to, a)
      BY <2>8 DEF Approve, Reject
    <3> DEFINE x == [orders[o] EXCEPT !.status = to, !.decided = a]
    <3>2. x \in Order
      BY <2>o, RowChanges DEF Statuses
    <3>3. /\ orders[o].pay # "wallet" /\ orders[o].status # "completed"
          /\ x.pay # "wallet" /\ x.status # "completed"
      BY <2>o, <3>1 DEF PaymentFits, Order, Transition
    <3>4. Movements(o, x) = Movements(o, orders[o])
      BY <2>o, <3>2, <3>3, MovementCases
    <3>5. Update(o, x) /\ UNCHANGED ledger
      BY <3>1 DEF Transition, wallets
    <3> QED
      BY <3>2, <3>4, <3>5, UpdateWithoutMovement
  <2>9. ASSUME NEW o \in DOMAIN orders, Deliver(o) PROVE LedgerMatchesOrders'
    <3> DEFINE x == [orders[o] EXCEPT !.status = "completed"]
    <3>1. x \in Order
      BY <2>o, RowChanges DEF Statuses
    <3>2. orders[o].status = "processing" /\ orders[o].kind # "topup"
      BY <2>9 DEF Deliver, CompleteOrder, Processing
    <3>3. /\ x.status # "failed" /\ x.kind # "topup" /\ x.pay = orders[o].pay
          /\ x.user = orders[o].user /\ x.amount = orders[o].amount /\ x.kind = orders[o].kind
      BY <2>o, <3>2 DEF Order
    <3>4. Movements(o, x) = Movements(o, orders[o])
      <4>1. CASE x.pay = "wallet"
        <5>1. Movements(o, x) = {[user |-> x.user, delta |-> -x.amount,
                                  reason |-> x.kind, order |-> o]}
          BY <3>1, <3>3, <4>1, MovementCases
        <5>2. Movements(o, orders[o])
                = {[user |-> orders[o].user, delta |-> -orders[o].amount,
                    reason |-> orders[o].kind, order |-> o]}
          BY <2>o, <3>2, <3>3, <4>1, MovementCases
        <5> QED
          BY <3>3, <5>1, <5>2
      <4>2. CASE x.pay # "wallet"
        BY <2>o, <3>1, <3>2, <3>3, <4>2, MovementCases
      <4> QED
        BY <4>1, <4>2
    <3>5. Update(o, x) /\ UNCHANGED ledger
      BY <2>9 DEF Deliver, CompleteOrder, SetStatus, wallets
    <3> QED
      BY <3>1, <3>4, <3>5, UpdateWithoutMovement
  <2>10. ASSUME NEW o \in DOMAIN orders, CompleteTopup(o) PROVE LedgerMatchesOrders'
    <3> DEFINE x == [orders[o] EXCEPT !.status = "completed"]
               m == [user |-> orders[o].user, delta |-> orders[o].amount,
                     reason |-> "topup", order |-> o]
    <3>1. x \in Order
      BY <2>o, RowChanges DEF Statuses
    <3>2. /\ orders[o].pay # "wallet" /\ orders[o].status # "completed"
          /\ x.pay # "wallet" /\ x.status = "completed" /\ x.kind = "topup"
          /\ x.user = orders[o].user /\ x.amount = orders[o].amount
      BY <2>o, <2>10 DEF PaymentFits, Order, CompleteTopup, Processing
    <3>3. m \in Row /\ OfAnOrder(m) /\ m.order = o
      BY <2>o DEF Row, Reasons, Kinds, OfAnOrder, Order
    <3>4. Movements(o, orders[o]) = {}
      BY <2>o, <3>2, MovementCases
    <3>5. Movements(o, x) = {m}
      BY <3>2 DEF Movements
    <3>6. Update(o, x) /\ ledger' = Append(ledger, m)
      BY <2>10 DEF CompleteTopup, SetStatus, AdjustBalanceTx
    <3> HIDE DEF x, m
    <3> QED
      BY <3>1, <3>3, <3>4, <3>5, <3>6, OneMovement
  <2>11. ASSUME NEW o \in DOMAIN orders, FailOrder(o) PROVE LedgerMatchesOrders'
    <3> DEFINE x == [orders[o] EXCEPT !.status = "failed"]
               m == [user |-> orders[o].user, delta |-> orders[o].amount,
                     reason |-> "refund", order |-> o]
    <3>1. x \in Order /\ Update(o, x)
      BY <2>o, <2>11, RowChanges DEF Statuses, FailOrder, SetStatus
    <3>2. /\ orders[o].status = "processing"
          /\ x.status = "failed" /\ x.kind = orders[o].kind /\ x.pay = orders[o].pay
          /\ x.user = orders[o].user /\ x.amount = orders[o].amount
      BY <2>o, <2>11 DEF Order, FailOrder, Processing
    <3>3. CASE Refundable(o)
      <4>1. m \in Row /\ OfAnOrder(m) /\ m.order = o
        BY <2>o DEF Row, Reasons, OfAnOrder, Order
      <4>2. orders[o].kind # "topup" /\ orders[o].kind # "refund"
        BY <2>o, <3>3 DEF PaymentFits, Refundable, Order, Kinds
      <4>3. Movements(o, orders[o]) = {[user |-> orders[o].user, delta |-> -orders[o].amount,
                                        reason |-> orders[o].kind, order |-> o]}
        BY <2>o, <3>2, <3>3, <4>2, MovementCases DEF Refundable
      <4>4. m \notin Movements(o, orders[o])
        BY <4>2, <4>3
      <4>5. Movements(o, x) = Movements(o, orders[o]) \cup {m}
        BY <3>2, <3>3, <4>2 DEF Movements, Refundable
      <4>6. ledger' = Append(ledger, m)
        BY <2>11, <3>3 DEF FailOrder, AdjustBalanceTx
      <4> HIDE DEF x, m
      <4> QED
        BY <3>1, <4>1, <4>4, <4>5, <4>6, OneMovement
    <3>4. CASE ~Refundable(o)
      <4>1. Movements(o, x) = Movements(o, orders[o])
        BY <3>2, <3>4 DEF Movements, Refundable
      <4>2. UNCHANGED ledger
        BY <2>11, <3>4 DEF FailOrder
      <4> QED
        BY <3>1, <4>1, <4>2, UpdateWithoutMovement
    <3> QED
      BY <3>3, <3>4
  <2>12. ASSUME NEW o \in DOMAIN orders, RewardFor(o) PROVE LedgerMatchesOrders'
    <3>1. CASE UNCHANGED vars
      BY <3>1, NoMovement DEF vars
    <3>2. CASE RewardDue(o) /\ RewardReferrer(o)
      <4> DEFINE m == [user |-> Referrer[orders[o].user], delta |-> Reward,
                       reason |-> "referral", order |-> o]
      <4>1. m \in Row /\ ~OfAnOrder(m)
        BY <2>o, <3>2 DEF Row, Reasons, OfAnOrder, Kinds, Order, RewardDue
      <4>2. ledger' = Append(ledger, m) /\ UNCHANGED orders
        BY <3>2 DEF RewardReferrer, AdjustBalanceTx
      <4> HIDE DEF m
      <4> QED
        BY <4>1, <4>2, ForeignRow
    <3> QED
      BY <2>12, <3>1, <3>2 DEF RewardFor, RewardReferrer
  <2>13. CASE UNCHANGED vars
    BY <2>13, NoMovement DEF vars
  <2> QED
    <3>1. \A n \in Amounts : n \in Int /\ -n \in Int
      OBVIOUS
    <3> QED
      BY <2>1, <2>2, <2>3, <2>4, <2>5, <2>6, <2>7, <2>8, <2>9, <2>10, <2>11, <2>12, <2>13, <3>1
         DEF Next
<1> QED
  BY <1>1, <1>2, TypeCorrect, NothingIsDeliveredUnpaid, PTL DEF Spec

-----------------------------------------------------------------------------
(* What a step does to a row.                                              *)

\* The rows a method may make of row x (Transition's admin is never Nobody).
Moved(x, y) ==
  \/ y = x
  \/ /\ x.status = "draft" /\ x.kind # "topup"
     /\ \E d \in 0..x.base, c \in Codes :
          y = [x EXCEPT !.discount = d, !.amount = x.base - d, !.code = c]
  \/ x.status \in Open /\ y = [x EXCEPT !.pay = "card", !.status = "awaiting_receipt"]
  \/ x.status = "awaiting_receipt" /\ y = [x EXCEPT !.receipt = TRUE, !.status = "awaiting_review"]
  \/ x.status \in Open /\ y = [x EXCEPT !.status = "cancelled"]
  \/ x.status = "draft" /\ x.kind # "topup"
     /\ y = [x EXCEPT !.pay = "wallet", !.status = "processing"]
  \/ x.status = "awaiting_review" /\ \E to \in {"processing", "rejected"}, a \in Admins :
       y = [x EXCEPT !.status = to, !.decided = a]
  \/ x.status = "processing" /\ \E to \in {"completed", "failed"} : y = [x EXCEPT !.status = to]

\* One row is moved, and the others stay.
LEMMA UpdateMoves ==
  ASSUME TypeOK, NEW o \in DOMAIN orders, NEW y \in Order, Update(o, y), Moved(orders[o], y)
  PROVE  \A p \in DOMAIN orders : p \in DOMAIN orders' /\ Moved(orders[p], orders'[p])
<1>1. /\ DOMAIN orders' = DOMAIN orders
      /\ \A p \in DOMAIN orders : orders'[p] = IF p = o THEN y ELSE orders[p]
  BY UpdateFacts DEF TypeOK
<1>2. \A p \in DOMAIN orders : orders'[p] = orders[p] => Moved(orders[p], orders'[p])
  BY DEF Moved
<1> QED
  BY <1>1, <1>2

\* Every step moves rows the way Moved says.
LEMMA RowsMove ==
  TypeOK /\ [Next]_vars =>
    \A o \in DOMAIN orders : o \in DOMAIN orders' /\ Moved(orders[o], orders'[o])
<1> SUFFICES ASSUME TypeOK, [Next]_vars
             PROVE \A o \in DOMAIN orders : o \in DOMAIN orders' /\ Moved(orders[o], orders'[o])
  OBVIOUS
<1> USE OrdersAssumption
<1>0. orders \in Seq(Order)
  BY DEF TypeOK
<1>o. \A o \in DOMAIN orders : orders[o] \in Order
  BY <1>0, OrderFacts
<1>u. ASSUME UNCHANGED orders
      PROVE \A o \in DOMAIN orders : o \in DOMAIN orders' /\ Moved(orders[o], orders'[o])
  BY <1>u DEF Moved
<1>1. ASSUME NEW u \in Users, NEW kind \in Kinds, NEW service \in Services \cup {0},
             NEW base \in Amounts, Start(u, kind, service, base)
      PROVE  \A o \in DOMAIN orders : o \in DOMAIN orders' /\ Moved(orders[o], orders'[o])
  <2>1. PICK x : x = [user |-> u, kind |-> kind, service |-> service,
                      base |-> base, discount |-> 0, amount |-> base, code |-> NoCode,
                      pay |-> "none", status |-> "draft", receipt |-> FALSE, decided |-> Nobody]
    OBVIOUS
  <2>2. x \in Order
    BY <2>1 DEF Order, Statuses
  <2>3. orders' = Append(orders, x)
    BY <1>1, <2>1 DEF Start, CreateOrder
  <2>4. \A o \in DOMAIN orders : o \in DOMAIN orders' /\ orders'[o] = orders[o]
    BY <1>0, <2>2, <2>3, AppendFacts
  <2> QED
    BY <2>4 DEF Moved
<1>2. ASSUME NEW u \in Users, CancelOpenOrders(u)
      PROVE  \A o \in DOMAIN orders : o \in DOMAIN orders' /\ Moved(orders[o], orders'[o])
  <2>1. /\ DOMAIN orders' = DOMAIN orders
        /\ \A o \in DOMAIN orders : orders'[o] =
             IF orders[o].user = u /\ orders[o].status \in Open
             THEN [orders[o] EXCEPT !.status = "cancelled"] ELSE orders[o]
    BY <1>0, <1>2, CancelFacts
  <2> QED
    BY <2>1 DEF Moved
<1>3. ASSUME NEW u \in Users, AttachReceipt(u)
      PROVE  \A o \in DOMAIN orders : o \in DOMAIN orders' /\ Moved(orders[o], orders'[o])
  <2>1. PICK o \in DOMAIN orders :
          /\ orders[o].status = "awaiting_receipt"
          /\ Update(o, [orders[o] EXCEPT !.receipt = TRUE, !.status = "awaiting_review"])
    BY <1>3 DEF AttachReceipt, Waiting
  <2>2. PICK y : y = [orders[o] EXCEPT !.receipt = TRUE, !.status = "awaiting_review"]
    OBVIOUS
  <2>3. y \in Order
    BY <1>o, <2>2, RowChanges DEF Statuses
  <2>4. Moved(orders[o], y) /\ Update(o, y)
    BY <2>1, <2>2 DEF Moved
  <2> QED
    BY <2>3, <2>4, UpdateMoves
<1>4. ASSUME NEW o \in DOMAIN orders, NEW u \in Users, NEW c \in Codes,
             NEW d \in 0..orders[o].base, Discount(o, u, c, d)
      PROVE  \A p \in DOMAIN orders : p \in DOMAIN orders' /\ Moved(orders[p], orders'[p])
  <2>1. PICK y : y = [orders[o] EXCEPT !.discount = d, !.amount = orders[o].base - d, !.code = c]
    OBVIOUS
  <2>2. orders[o].base \in Nat /\ d \in Nat /\ orders[o].base - d \in Nat
    BY <1>o DEF Order
  <2>3. y \in Order
    BY <1>o, <2>1, <2>2, RowChanges DEF Statuses
  <2>4. Moved(orders[o], y) /\ Update(o, y)
    BY <1>4, <2>1 DEF Moved, Discount, ApplyDiscount, Discountable
  <2> QED
    BY <2>3, <2>4, UpdateMoves
<1>5. ASSUME NEW o \in DOMAIN orders, NEW u \in Users, ChooseCard(o, u)
      PROVE  \A p \in DOMAIN orders : p \in DOMAIN orders' /\ Moved(orders[p], orders'[p])
  <2>1. PICK y : y = [orders[o] EXCEPT !.pay = "card", !.status = "awaiting_receipt"]
    OBVIOUS
  <2>2. y \in Order
    BY <1>o, <2>1, RowChanges DEF Statuses
  <2>3. Moved(orders[o], y) /\ Update(o, y)
    BY <1>5, <2>1 DEF Moved, ChooseCard, Open
  <2> QED
    BY <2>2, <2>3, UpdateMoves
<1>6. ASSUME NEW o \in DOMAIN orders, NEW u \in Users, PayFromWallet(o, u)
      PROVE  \A p \in DOMAIN orders : p \in DOMAIN orders' /\ Moved(orders[p], orders'[p])
  <2>1. PICK y : y = [orders[o] EXCEPT !.pay = "wallet", !.status = "processing"]
    OBVIOUS
  <2>2. y \in Order
    BY <1>o, <2>1, RowChanges DEF Statuses
  <2>3. Moved(orders[o], y) /\ Update(o, y)
    BY <1>6, <2>1 DEF Moved, PayFromWallet, Payable
  <2> QED
    BY <2>2, <2>3, UpdateMoves
<1>7. ASSUME NEW o \in DOMAIN orders, NEW a \in Admins, Approve(o, a) \/ Reject(o, a)
      PROVE  \A p \in DOMAIN orders : p \in DOMAIN orders' /\ Moved(orders[p], orders'[p])
  <2>1. PICK to \in {"processing", "rejected"} : Transition(o, {"awaiting_review"}, to, a)
    BY <1>7 DEF Approve, Reject
  <2>2. PICK y : y = [orders[o] EXCEPT !.status = to, !.decided = a]
    OBVIOUS
  <2>3. y \in Order
    BY <1>o, <2>2, RowChanges DEF Statuses
  <2>4. Moved(orders[o], y) /\ Update(o, y)
    BY <2>1, <2>2 DEF Moved, Transition
  <2> QED
    BY <2>3, <2>4, UpdateMoves
<1>8. ASSUME NEW o \in DOMAIN orders, Deliver(o) \/ CompleteTopup(o) \/ FailOrder(o)
      PROVE  \A p \in DOMAIN orders : p \in DOMAIN orders' /\ Moved(orders[p], orders'[p])
  <2>1. PICK to \in {"completed", "failed"} : Processing(o) /\ SetStatus(o, to)
    BY <1>8 DEF Deliver, CompleteOrder, CompleteTopup, FailOrder
  <2>2. PICK y : y = [orders[o] EXCEPT !.status = to]
    OBVIOUS
  <2>3. y \in Order
    BY <1>o, <2>2, RowChanges DEF Statuses
  <2>4. Moved(orders[o], y) /\ Update(o, y)
    BY <2>1, <2>2 DEF Moved, Processing, SetStatus
  <2> QED
    BY <2>3, <2>4, UpdateMoves
<1>9. ASSUME NEW o \in DOMAIN orders, RewardFor(o) PROVE UNCHANGED orders
  BY <1>9 DEF RewardFor, RewardReferrer, vars
<1>10. ASSUME NEW u \in Users, NEW delta \in Int, AdminAdjust(u, delta) PROVE UNCHANGED orders
  BY <1>10 DEF AdminAdjust, AdjustBalance
<1>11. CASE UNCHANGED vars
  BY <1>u, <1>11 DEF vars
<1>12. \A n \in Amounts : n \in Int /\ -n \in Int
  OBVIOUS
<1> QED
  BY <1>u, <1>1, <1>2, <1>3, <1>4, <1>5, <1>6, <1>7, <1>8, <1>9, <1>10, <1>11, <1>12 DEF Next

\* A moved row is for the same thing, and sealed once it has left draft.
LEMMA MovedIsSealed ==
  ASSUME NEW x \in Order, NEW y, Moved(x, y)
  PROVE  /\ <<y.user, y.kind, y.service, y.base>> = <<x.user, x.kind, x.service, x.base>>
         /\ x.status # "draft" => /\ y.status # "draft"
                                  /\ <<y.discount, y.amount, y.code>>
                                     = <<x.discount, x.amount, x.code>>
         /\ x.receipt => y.receipt
         /\ x.status \in Terminal => y = x
BY DEF Moved, Order, Open, Terminal

(* The promise made when the price is named is kept: no step of any caller *)
(* reprices an order that has left draft, takes a receipt off it, or       *)
(* changes an order that has ended.                                        *)
THEOREM OrdersAreSealed == Spec => SealedOrders
<1>1. TypeOK /\ [Next]_vars =>
        \A o \in DOMAIN orders :
          /\ o \in DOMAIN orders'
          /\ LET x == orders[o]
                 y == orders'[o]
             IN  /\ <<y.user, y.kind, y.service, y.base>> = <<x.user, x.kind, x.service, x.base>>
                 /\ x.status # "draft" => /\ y.status # "draft"
                                          /\ <<y.discount, y.amount, y.code>>
                                             = <<x.discount, x.amount, x.code>>
                 /\ x.receipt => y.receipt
                 /\ x.status \in Terminal => y = x
  BY RowsMove, MovedIsSealed, OrderFacts DEF TypeOK
<1> QED
  BY <1>1, TypeCorrect, PTL DEF Spec, SealedOrders

-----------------------------------------------------------------------------
(* Rewards and codes.                                                      *)

\* An order that is completed stays as it is.
LEMMA CompletedStay ==
  TypeOK /\ [Next]_vars =>
    \A o \in DOMAIN orders : orders[o].status = "completed" =>
      o \in DOMAIN orders' /\ orders'[o] = orders[o]
BY RowsMove, MovedIsSealed, OrderFacts DEF TypeOK, Terminal

\* What a step does to the ledger: nothing, a row that is no reward, or the
\* reward that is due.
LEMMA LedgerMoves ==
  ASSUME TypeOK, [Next]_vars
  PROVE  \/ UNCHANGED <<ledger, rewarded>>
         \/ /\ UNCHANGED rewarded
            /\ \E r \in Row : r.reason # "referral" /\ ledger' = Append(ledger, r)
         \/ \E o \in DOMAIN orders :
              /\ orders[o].status = "completed" /\ orders[o].kind # "topup"
              /\ orders[o].user \notin rewarded
              /\ rewarded' = rewarded \cup {orders[o].user}
              /\ \E r \in Row : /\ r.reason = "referral" /\ r.order = o
                                /\ r.user = Referrer[orders[o].user]
                                /\ ledger' = Append(ledger, r)
<1> USE OrdersAssumption
<1>o. \A o \in DOMAIN orders : orders[o] \in Order /\ o \in Nat
  BY OrderFacts, LenProperties DEF TypeOK
<1>1. ASSUME NEW u \in Users, NEW delta \in Int, NEW reason \in Reasons, NEW o \in Nat,
             AdjustBalanceTx(u, delta, reason, o)
      PROVE  \E r \in Row : r.user = u /\ r.reason = reason /\ r.order = o
                            /\ ledger' = Append(ledger, r)
  BY <1>1 DEF AdjustBalanceTx, Row
<1>2. ASSUME NEW u \in Users, NEW delta \in Int, AdminAdjust(u, delta)
      PROVE  UNCHANGED rewarded /\ \E r \in Row : r.reason # "referral" /\ ledger' = Append(ledger, r)
  <2>1. AdjustBalanceTx(u, delta, "admin", 0) /\ UNCHANGED rewarded
    BY <1>2 DEF AdminAdjust, AdjustBalance
  <2>2. "admin" \in Reasons /\ 0 \in Nat
    BY DEF Reasons
  <2> QED
    BY <1>1, <2>1, <2>2
<1>3. ASSUME NEW o \in DOMAIN orders, NEW u \in Users, PayFromWallet(o, u)
      PROVE  UNCHANGED rewarded /\ \E r \in Row : r.reason # "referral" /\ ledger' = Append(ledger, r)
  <2>1. orders[o].kind \in Reasons /\ orders[o].kind # "referral" /\ -orders[o].amount \in Int
    BY <1>o DEF Order, Reasons, Kinds
  <2> QED
    BY <1>1, <1>3, <1>o, <2>1 DEF PayFromWallet
<1>4. ASSUME NEW o \in DOMAIN orders, CompleteTopup(o)
      PROVE  UNCHANGED rewarded /\ \E r \in Row : r.reason # "referral" /\ ledger' = Append(ledger, r)
  <2>1. orders[o].user \in Users /\ orders[o].amount \in Int /\ "topup" \in Reasons
    BY <1>o DEF Order, Reasons, Kinds
  <2> QED
    BY <1>1, <1>4, <1>o, <2>1 DEF CompleteTopup
<1>5. ASSUME NEW o \in DOMAIN orders, FailOrder(o)
      PROVE  \/ UNCHANGED <<ledger, rewarded>>
             \/ UNCHANGED rewarded /\ \E r \in Row : r.reason # "referral" /\ ledger' = Append(ledger, r)
  <2>1. orders[o].user \in Users /\ orders[o].amount \in Int /\ "refund" \in Reasons
    BY <1>o DEF Order, Reasons
  <2> QED
    BY <1>1, <1>5, <1>o, <2>1 DEF FailOrder
<1>6. ASSUME NEW o \in DOMAIN orders, RewardFor(o), RewardDue(o)
      PROVE  /\ orders[o].status = "completed" /\ orders[o].kind # "topup"
             /\ orders[o].user \notin rewarded
             /\ rewarded' = rewarded \cup {orders[o].user}
             /\ \E r \in Row : /\ r.reason = "referral" /\ r.order = o
                               /\ r.user = Referrer[orders[o].user]
                               /\ ledger' = Append(ledger, r)
  <2>1. Referrer[orders[o].user] \in Users /\ Reward \in Int /\ "referral" \in Reasons
    BY <1>6, <1>o DEF Order, Reasons, RewardDue
  <2> QED
    BY <1>1, <1>6, <1>o, <2>1 DEF RewardFor, RewardReferrer, RewardDue
<1>7. ASSUME NEW o \in DOMAIN orders, RewardFor(o), ~RewardDue(o) PROVE UNCHANGED <<ledger, rewarded>>
  BY <1>7 DEF RewardFor, RewardReferrer, vars
<1>8. \A n \in Amounts : n \in Int /\ -n \in Int
  OBVIOUS
<1>9. ASSUME NEW o \in DOMAIN orders, NEW a \in Admins, Approve(o, a) \/ Reject(o, a)
      PROVE  UNCHANGED <<ledger, rewarded>>
  BY <1>9 DEF Approve, Reject, Transition, wallets
<1>10. ASSUME NEW o \in DOMAIN orders, Deliver(o) PROVE UNCHANGED <<ledger, rewarded>>
  BY <1>10 DEF Deliver, CompleteOrder, wallets
<1>11. ASSUME NEW u \in Users,
              \/ \E kind \in Kinds, service \in Services \cup {0}, base \in Amounts :
                   Start(u, kind, service, base)
              \/ CancelOpenOrders(u) \/ AttachReceipt(u)
       PROVE  UNCHANGED <<ledger, rewarded>>
  BY <1>11 DEF Start, CreateOrder, CancelOpenOrders, AttachReceipt, wallets
<1>12. ASSUME NEW o \in DOMAIN orders, NEW u \in Users,
              \/ \E c \in Codes, d \in 0..orders[o].base : Discount(o, u, c, d)
              \/ ChooseCard(o, u)
       PROVE  UNCHANGED <<ledger, rewarded>>
  BY <1>12 DEF Discount, ApplyDiscount, ChooseCard, wallets
<1>13. CASE UNCHANGED vars
  BY <1>13 DEF vars
<1>14. CASE \E u \in Users :
              \/ \E kind \in Kinds, service \in Services \cup {0}, base \in Amounts :
                   Start(u, kind, service, base)
              \/ CancelOpenOrders(u) \/ AttachReceipt(u)
              \/ \E n \in Amounts : AdminAdjust(u, n) \/ AdminAdjust(u, -n)
  BY <1>2, <1>8, <1>11, <1>14
<1>15. CASE \E o \in DOMAIN orders :
              \/ \E u \in Users :
                   \/ \E c \in Codes, d \in 0..orders[o].base : Discount(o, u, c, d)
                   \/ ChooseCard(o, u)
                   \/ PayFromWallet(o, u)
              \/ \E a \in Admins : Approve(o, a) \/ Reject(o, a)
              \/ Deliver(o) \/ CompleteTopup(o) \/ FailOrder(o) \/ RewardFor(o)
  BY <1>3, <1>4, <1>5, <1>6, <1>7, <1>9, <1>10, <1>12, <1>15
<1> QED
  BY <1>13, <1>14, <1>15 DEF Next

\* Ledger rows that are rewards, with the order they are for.
RewardRow(i) ==
  LET o == ledger[i].order
  IN  /\ o \in DOMAIN orders
      /\ orders[o].status = "completed" /\ orders[o].kind # "topup"
      /\ orders[o].user \in rewarded
      /\ ledger[i].user = Referrer[orders[o].user]

(* An inviter is paid once for each invited customer, for any number of    *)
(* orders of the customer that complete in any order: a reward is written  *)
(* with the customer's flag, and the flag never comes off.                 *)
THEOREM InvitersAreRewardedOnce == Spec => []RewardedOnce
<1>1. Init => RewardedOnce
  BY DEF Init, RewardedOnce, IsReward
<1>2. TypeOK /\ RewardedOnce /\ [Next]_vars => RewardedOnce'
  <2> SUFFICES ASSUME TypeOK, RewardedOnce, [Next]_vars PROVE RewardedOnce'
    OBVIOUS
  <2>1. \A i \in DOMAIN ledger : IsReward(i) => RewardRow(i)
    BY DEF RewardedOnce, RewardRow
  <2>2. \A i, j \in DOMAIN ledger :
          IsReward(i) /\ IsReward(j) /\ orders[ledger[i].order].user = orders[ledger[j].order].user
          => i = j
    BY DEF RewardedOnce
  <2>3. \A o \in DOMAIN orders : orders[o].status = "completed" =>
          o \in DOMAIN orders' /\ orders'[o] = orders[o]
    BY CompletedStay
  <2>4. rewarded \subseteq rewarded'
    BY LedgerMoves
  <2>5. SUFFICES /\ \A i \in DOMAIN ledger' : IsReward(i)' => RewardRow(i)'
                 /\ \A i, j \in DOMAIN ledger' :
                      /\ IsReward(i)' /\ IsReward(j)'
                      /\ orders'[ledger'[i].order].user = orders'[ledger'[j].order].user
                      => i = j
    BY DEF RewardedOnce, RewardRow
  <2>6. CASE UNCHANGED ledger
    BY <2>1, <2>2, <2>3, <2>4, <2>6 DEF IsReward, RewardRow
  <2>7. ASSUME NEW r \in Row, ledger' = Append(ledger, r)
        PROVE  /\ Len(ledger) \in Nat /\ DOMAIN ledger = 1..Len(ledger)
               /\ DOMAIN ledger' = 1..(Len(ledger) + 1) /\ ledger'[Len(ledger) + 1] = r
               /\ \A i \in DOMAIN ledger : i \in DOMAIN ledger' /\ ledger'[i] = ledger[i]
               /\ \A i \in DOMAIN ledger' : i \in DOMAIN ledger \/ i = Len(ledger) + 1
    BY <2>7, AppendFacts DEF TypeOK
  <2>8. ASSUME NEW r \in Row, r.reason # "referral", ledger' = Append(ledger, r)
        PROVE  RewardedOnce'
    <3>1. \A i \in DOMAIN ledger' : IsReward(i)' =>
            i \in DOMAIN ledger /\ IsReward(i) /\ ledger'[i] = ledger[i]
      BY <2>7, <2>8 DEF IsReward
    <3>2. \A i \in DOMAIN ledger' : IsReward(i)' => RewardRow(i)'
      BY <2>1, <2>3, <2>4, <3>1 DEF RewardRow
    <3>3. ASSUME NEW i \in DOMAIN ledger', NEW j \in DOMAIN ledger', IsReward(i)', IsReward(j)',
                 orders'[ledger'[i].order].user = orders'[ledger'[j].order].user
          PROVE  i = j
      <4>1. RewardRow(i) /\ RewardRow(j) /\ ledger'[i] = ledger[i] /\ ledger'[j] = ledger[j]
        BY <2>1, <3>1, <3>3
      <4>2. orders[ledger[i].order].user = orders[ledger[j].order].user
        BY <2>3, <3>3, <4>1 DEF RewardRow
      <4> QED
        BY <2>2, <3>1, <3>3, <4>2
    <3> QED
      BY <3>2, <3>3 DEF RewardedOnce, RewardRow
  <2>9. ASSUME NEW o \in DOMAIN orders, NEW r \in Row,
               orders[o].status = "completed", orders[o].kind # "topup",
               orders[o].user \notin rewarded, rewarded' = rewarded \cup {orders[o].user},
               r.reason = "referral", r.order = o, r.user = Referrer[orders[o].user],
               ledger' = Append(ledger, r)
        PROVE  RewardedOnce'
    <3> DEFINE n == Len(ledger) + 1
    <3>1. \A i \in DOMAIN ledger' : IsReward(i)' /\ i # n =>
            i \in DOMAIN ledger /\ IsReward(i) /\ ledger'[i] = ledger[i] /\ RewardRow(i)
      BY <2>1, <2>7, <2>9 DEF IsReward
    <3>2. n \in DOMAIN ledger' /\ ledger'[n] = r /\ orders'[o] = orders[o] /\ o \in DOMAIN orders'
      BY <2>3, <2>7, <2>9
    <3>3. \A i \in DOMAIN ledger' : IsReward(i)' => RewardRow(i)'
      BY <2>3, <2>4, <2>9, <3>1, <3>2 DEF RewardRow
    <3>4. ASSUME NEW i \in DOMAIN ledger', IsReward(i)', i # n
          PROVE  orders'[ledger'[i].order].user # orders'[ledger'[n].order].user
      <4>1. RewardRow(i) /\ ledger'[i] = ledger[i]
        BY <3>1, <3>4
      <4>2. orders'[ledger'[i].order].user \in rewarded
        BY <2>3, <4>1 DEF RewardRow
      <4> QED
        BY <2>9, <3>2, <4>2
    <3>5. ASSUME NEW i \in DOMAIN ledger', NEW j \in DOMAIN ledger', IsReward(i)', IsReward(j)',
                 orders'[ledger'[i].order].user = orders'[ledger'[j].order].user
          PROVE  i = j
      <4>1. CASE i = n \/ j = n
        BY <3>4, <3>5, <4>1
      <4>2. CASE i # n /\ j # n
        <5>1. RewardRow(i) /\ RewardRow(j) /\ ledger'[i] = ledger[i] /\ ledger'[j] = ledger[j]
          BY <3>1, <3>5, <4>2
        <5>2. orders[ledger[i].order].user = orders[ledger[j].order].user
          BY <2>3, <3>5, <5>1 DEF RewardRow
        <5> QED
          BY <2>2, <3>1, <3>5, <4>2, <5>2
      <4> QED
        BY <4>1, <4>2
    <3> QED
      BY <3>3, <3>5 DEF RewardedOnce, RewardRow
  <2> QED
    BY <2>6, <2>8, <2>9, LedgerMoves DEF RewardedOnce, RewardRow
<1> QED
  BY <1>1, <1>2, TypeCorrect, PTL DEF Spec

\* The rows of discount_uses that name code c.
UsesOf(c) == {s \in spent : s.code = c}

\* A use names the completed order it was spent on.
UseRow(s) ==
  /\ s.order \in DOMAIN orders
  /\ orders[s.order].status = "completed"
  /\ orders[s.order].code = s.code
  /\ orders[s.order].user = s.user

(* discount_codes.used is the number of customers who have spent the code, *)
(* each on a completed order that carries it and each once, for any number *)
(* of codes, customers and orders.  The strengthening is that the uses are *)
(* finitely many.                                                          *)
THEOREM CodesAreSpentOnCompletion == Spec => []CodesSpentOnCompletion
<1> DEFINE Inv == CodesSpentOnCompletion /\ IsFiniteSet(spent)
<1>1. Init => Inv
  <2> SUFFICES ASSUME Init PROVE Inv
    OBVIOUS
  <2>1. spent = {} /\ \A c \in Codes : UsesOf(c) = {} /\ used[c] = 0
    BY DEF Init, UsesOf
  <2>2. IsFiniteSet({}) /\ Cardinality({}) = 0
    BY FS_EmptySet
  <2> QED
    BY <2>1, <2>2 DEF CodesSpentOnCompletion, UsesOf
<1>2. TypeOK /\ Inv /\ [Next]_vars => Inv'
  <2> SUFFICES ASSUME TypeOK, Inv, [Next]_vars PROVE Inv'
    OBVIOUS
  <2>1. /\ \A c \in Codes : used[c] = Cardinality(UsesOf(c))
        /\ \A s \in spent : UseRow(s)
        /\ \A s, t \in spent : s.code = t.code /\ s.user = t.user => s = t
        /\ IsFiniteSet(spent)
    BY DEF CodesSpentOnCompletion, UsesOf, UseRow
  <2>2. \A o \in DOMAIN orders : orders[o].status = "completed" =>
          o \in DOMAIN orders' /\ orders'[o] = orders[o]
    BY CompletedStay
  <2>3. \A s \in spent : UseRow(s)'
    BY <2>1, <2>2 DEF UseRow
  <2>4. SUFFICES /\ \A c \in Codes : used'[c] = Cardinality(UsesOf(c)')
                 /\ \A s \in spent' : UseRow(s)'
                 /\ \A s, t \in spent' : s.code = t.code /\ s.user = t.user => s = t
                 /\ IsFiniteSet(spent')
    BY DEF CodesSpentOnCompletion, UsesOf, UseRow
  <2>5. CASE UNCHANGED discounts
    <3>1. used' = used /\ spent' = spent
      BY <2>5 DEF discounts
    <3>2. \A c \in Codes : UsesOf(c)' = UsesOf(c)
      BY <3>1 DEF UsesOf
    <3> QED
      BY <2>1, <2>3, <3>1, <3>2
  <2>6. ASSUME NEW o \in DOMAIN orders, Deliver(o), ~UNCHANGED discounts PROVE Inv'
    <3>1. PICK c : c = orders[o].code
      OBVIOUS
    <3>2. PICK u : u = orders[o].user
      OBVIOUS
    <3>3. PICK x : x = [code |-> c, user |-> u, order |-> o]
      OBVIOUS
    <3>4. /\ c # NoCode /\ ~\E s \in spent : s.code = c /\ s.user = u
          /\ spent' = spent \cup {x} /\ used' = [used EXCEPT ![c] = @ + 1]
      BY <2>6, <3>1, <3>2, <3>3 DEF Deliver, CompleteOrder, SpendCode
    <3>5. orders[o] \in Order /\ c \in Codes /\ u \in Users
      BY <3>1, <3>2, <3>4, OrderFacts DEF TypeOK, Order
    <3>6. x.code = c /\ x.user = u /\ x.order = o /\ x \notin spent
      BY <3>3, <3>4
    <3>7. UseRow(x)'
      <4>1. PICK y : y = [orders[o] EXCEPT !.status = "completed"]
        OBVIOUS
      <4>2. y \in Order /\ y.status = "completed" /\ y.code = c /\ y.user = u
        BY <3>1, <3>2, <3>5, <4>1 DEF Order, Statuses
      <4>3. Update(o, y)
        BY <2>6, <4>1 DEF Deliver, CompleteOrder, SetStatus
      <4>4. o \in DOMAIN orders' /\ orders'[o] = y
        BY <4>2, <4>3, UpdateFacts DEF TypeOK
      <4> QED
        BY <3>6, <4>2, <4>4 DEF UseRow
    <3>8. ASSUME NEW k \in Codes PROVE used'[k] = Cardinality(UsesOf(k)')
      <4>1. CASE k # c
        <5>1. UsesOf(k)' = UsesOf(k)
          BY <3>4, <3>6, <4>1 DEF UsesOf
        <5> QED
          BY <2>1, <3>4, <4>1, <5>1 DEF TypeOK
      <4>2. CASE k = c
        <5>1. PICK S : S = UsesOf(c)
          OBVIOUS
        <5>2. S \subseteq spent /\ x \notin S
          BY <3>6, <5>1 DEF UsesOf
        <5>3. IsFiniteSet(S)
          BY <2>1, <5>2, FS_Subset
        <5>4. Cardinality(S \cup {x}) = Cardinality(S) + 1
          BY <5>2, <5>3, FS_AddElement
        <5>5. UsesOf(k)' = S \cup {x}
          BY <3>4, <3>6, <4>2, <5>1 DEF UsesOf
        <5>6. used'[k] = used[c] + 1 /\ used[c] = Cardinality(S)
          BY <2>1, <3>4, <3>5, <4>2, <5>1 DEF TypeOK
        <5> QED
          BY <5>4, <5>5, <5>6
      <4> QED
        BY <4>1, <4>2
    <3>9. IsFiniteSet(spent')
      BY <2>1, <3>4, FS_AddElement
    <3>10. \A s \in spent' : UseRow(s)'
      BY <2>3, <3>4, <3>7
    <3>11. \A s, t \in spent' : s.code = t.code /\ s.user = t.user => s = t
      BY <2>1, <3>4, <3>6
    <3> QED
      BY <3>8, <3>9, <3>10, <3>11 DEF CodesSpentOnCompletion, UsesOf, UseRow
  <2>7. (\E o \in DOMAIN orders : Deliver(o)) \/ UNCHANGED discounts
    BY DEF Next, Start, CreateOrder, CancelOpenOrders, AttachReceipt, AdminAdjust, AdjustBalance,
           Discount, ApplyDiscount, ChooseCard, PayFromWallet, Approve, Reject, Transition,
           CompleteTopup, FailOrder, RewardFor, RewardReferrer, vars, discounts
  <2> QED
    BY <2>5, <2>6, <2>7 DEF CodesSpentOnCompletion, UsesOf, UseRow
<1> QED
  BY <1>1, <1>2, TypeCorrect, PTL DEF Spec

-----------------------------------------------------------------------------
(* The escrow.                                                             *)

\* The sales of the escrow, read off the orders.
Sales == [o \in DOMAIN orders |-> SaleOf(orders[o])]

\* What an order costs comes from the amounts there are, so its price is one
\* of the escrow's.
PricesKnown == \A o \in DOMAIN orders : orders[o].base \in Amounts

\* A new order is priced from the amounts, and the base never changes.
LEMMA PricesStayKnown == TypeOK /\ PricesKnown /\ [Next]_vars => PricesKnown'
<1> SUFFICES ASSUME TypeOK, PricesKnown, [Next]_vars PROVE PricesKnown'
  OBVIOUS
<1> USE OrdersAssumption
<1>1. ASSUME NEW o \in DOMAIN orders PROVE orders'[o].base \in Amounts
  <2>1. orders[o] \in Order /\ Moved(orders[o], orders'[o])
    BY RowsMove, OrderFacts DEF TypeOK
  <2>2. orders'[o].base = orders[o].base
    BY <2>1, MovedIsSealed
  <2> QED
    BY <2>2 DEF PricesKnown
<1>2. ASSUME NEW u \in Users, NEW kind \in Kinds, NEW service \in Services \cup {0},
             NEW base \in Amounts, Start(u, kind, service, base)
      PROVE  PricesKnown'
  <2>1. PICK x : x = [user |-> u, kind |-> kind, service |-> service,
                      base |-> base, discount |-> 0, amount |-> base, code |-> NoCode,
                      pay |-> "none", status |-> "draft", receipt |-> FALSE, decided |-> Nobody]
    OBVIOUS
  <2>2. x \in Order /\ x.base = base
    BY <2>1 DEF Order, Statuses
  <2>3. orders' = Append(orders, x)
    BY <1>2, <2>1 DEF Start, CreateOrder
  <2>4. \A o \in DOMAIN orders' : o \in DOMAIN orders \/ orders'[o] = x
    BY <2>2, <2>3, AppendFacts DEF TypeOK
  <2> QED
    BY <1>1, <2>2, <2>4 DEF PricesKnown
<1>3. ASSUME NEW o \in DOMAIN orders, NEW y, Update(o, y) PROVE DOMAIN orders' = DOMAIN orders
  BY <1>3 DEF Update
<1>4. ASSUME DOMAIN orders' = DOMAIN orders PROVE PricesKnown'
  BY <1>1, <1>4 DEF PricesKnown
<1>5. ASSUME NEW u \in Users, CancelOpenOrders(u) PROVE DOMAIN orders' = DOMAIN orders
  BY <1>5 DEF CancelOpenOrders
<1>6. ASSUME NEW u \in Users, AttachReceipt(u) PROVE DOMAIN orders' = DOMAIN orders
  BY <1>3, <1>6 DEF AttachReceipt, Waiting
<1>7. ASSUME NEW u \in Users, NEW n, AdminAdjust(u, n) PROVE DOMAIN orders' = DOMAIN orders
  BY <1>7 DEF AdminAdjust, AdjustBalance
<1>8. ASSUME NEW o \in DOMAIN orders, NEW u \in Users, NEW c, NEW d,
             Discount(o, u, c, d) \/ ChooseCard(o, u) \/ PayFromWallet(o, u)
      PROVE  DOMAIN orders' = DOMAIN orders
  BY <1>3, <1>8 DEF Discount, ApplyDiscount, ChooseCard, PayFromWallet
<1>9. ASSUME NEW o \in DOMAIN orders, NEW a, Approve(o, a) \/ Reject(o, a)
      PROVE  DOMAIN orders' = DOMAIN orders
  BY <1>3, <1>9 DEF Approve, Reject, Transition
<1>10. ASSUME NEW o \in DOMAIN orders, Deliver(o) \/ CompleteTopup(o) \/ FailOrder(o)
       PROVE  DOMAIN orders' = DOMAIN orders
  BY <1>3, <1>10 DEF Deliver, CompleteOrder, CompleteTopup, FailOrder, SetStatus
<1>11. ASSUME NEW o \in DOMAIN orders, RewardFor(o) PROVE DOMAIN orders' = DOMAIN orders
  BY <1>11 DEF RewardFor, RewardReferrer, vars
<1>12. CASE UNCHANGED vars
  BY <1>4, <1>12 DEF vars
<1> QED
  BY <1>2, <1>4, <1>5, <1>6, <1>7, <1>8, <1>9, <1>10, <1>11, <1>12 DEF Next

\* One order changes: so does its sale, and no other.
LEMMA SaleMoves ==
  ASSUME TypeOK, NEW o \in DOMAIN orders, NEW y \in Order, Update(o, y)
  PROVE  /\ o \in DOMAIN Sales /\ Sales[o] = SaleOf(orders[o])
         /\ DOMAIN Sales' = DOMAIN Sales
         /\ Sales' = [Sales EXCEPT ![o] = SaleOf(y)]
<1>1. /\ DOMAIN orders' = DOMAIN orders
      /\ \A p \in DOMAIN orders : orders'[p] = IF p = o THEN y ELSE orders[p]
  BY UpdateFacts DEF TypeOK
<1>2. Sales' = [p \in DOMAIN orders |-> IF p = o THEN SaleOf(y) ELSE SaleOf(orders[p])]
  BY <1>1 DEF Sales, SaleOf, Stage
<1> QED
  BY <1>2 DEF Sales

\* A change of one sale, by its parts.
LEMMA SaleParts ==
  ASSUME NEW x \in Order, NEW y \in Order, y.user = x.user, y.kind = x.kind
  PROVE  /\ Stage(x.status) = Stage(y.status) /\ y.amount = x.amount /\ y.pay = x.pay
            => SaleOf(y) = SaleOf(x)
         /\ Stage(x.status) = "open" /\ Stage(y.status) = "open" /\ y.amount = x.amount
            => SaleOf(y) = SaleOf(x)
         /\ Stage(x.status) = "open" /\ Stage(y.status) = "open"
            => SaleOf(y) = [SaleOf(x) EXCEPT !.price = y.amount]
         /\ Stage(x.status) = "open" /\ Stage(y.status) = "void" /\ y.amount = x.amount
            => SaleOf(y) = [SaleOf(x) EXCEPT !.stage = "void"]
         /\ Stage(x.status) = "open" /\ Stage(y.status) = "held" /\ y.amount = x.amount
            => SaleOf(y) = [[SaleOf(x) EXCEPT !.stage = "held"] EXCEPT !.by = y.pay]
         /\ \A stage \in {"done", "failed"} :
              Stage(x.status) = "held" /\ Stage(y.status) = stage /\ y.amount = x.amount
              /\ y.pay = x.pay
              => SaleOf(y) = [SaleOf(x) EXCEPT !.stage = stage]
<1>1. PICK s : s = Stage(x.status)
  OBVIOUS
<1>2. PICK z : z = Stage(y.status)
  OBVIOUS
<1>3. PICK b \in BOOLEAN : b = (x.kind = "topup")
  OBVIOUS
<1>4. /\ SaleOf(x) = [owner |-> x.user, price |-> x.amount, deposit |-> b,
                      by |-> IF s \in {"open", "void"} THEN "none" ELSE x.pay, stage |-> s]
      /\ SaleOf(y) = [owner |-> x.user, price |-> y.amount, deposit |-> b,
                      by |-> IF z \in {"open", "void"} THEN "none" ELSE y.pay, stage |-> z]
  BY <1>1, <1>2, <1>3 DEF SaleOf
<1>5. s = z /\ y.amount = x.amount /\ y.pay = x.pay => SaleOf(y) = SaleOf(x)
  BY <1>4
<1>6. s = "open" /\ z = "open" /\ y.amount = x.amount => SaleOf(y) = SaleOf(x)
  BY <1>4
<1>7. s = "open" /\ z = "open" => SaleOf(y) = [SaleOf(x) EXCEPT !.price = y.amount]
  BY <1>4
<1>8. s = "open" /\ z = "void" /\ y.amount = x.amount => SaleOf(y) = [SaleOf(x) EXCEPT !.stage = "void"]
  BY <1>4
<1>9. ASSUME s = "open", z = "held", y.amount = x.amount
      PROVE  SaleOf(y) = [[SaleOf(x) EXCEPT !.stage = "held"] EXCEPT !.by = y.pay]
  <2>1. PICK q : q = [SaleOf(x) EXCEPT !.stage = "held"]
    OBVIOUS
  <2>2. q = [owner |-> x.user, price |-> x.amount, deposit |-> b, by |-> "none", stage |-> "held"]
    BY <1>4, <1>9, <2>1
  <2>3. [q EXCEPT !.by = y.pay]
        = [owner |-> x.user, price |-> x.amount, deposit |-> b, by |-> y.pay, stage |-> "held"]
    BY <2>2
  <2> QED
    BY <1>4, <1>9, <2>1, <2>3
<1>10. ASSUME NEW stage \in {"done", "failed"}, s = "held", z = stage, y.amount = x.amount,
              y.pay = x.pay
       PROVE  SaleOf(y) = [SaleOf(x) EXCEPT !.stage = stage]
  BY <1>4, <1>10
<1> QED
  BY <1>1, <1>2, <1>5, <1>6, <1>7, <1>8, <1>9, <1>10

\* What a step of order o is to the escrow, by the stages the order goes
\* through and what happens to its customer's balance.
LEMMA UpdateIsSale ==
  ASSUME TypeOK, PricesKnown, NEW o \in DOMAIN orders, NEW y \in Order, Update(o, y),
         y.user = orders[o].user, y.kind = orders[o].kind
  PROVE  LET x == orders[o]
             moves(delta) == /\ balance[x.user] + delta >= 0
                             /\ balance' = [balance EXCEPT ![x.user] = @ + delta]
             from == Stage(x.status)
             to == Stage(y.status)
         IN  /\ from = "open" /\ to = "open" /\ y.amount = x.amount /\ UNCHANGED balance
                => UNCHANGED Money!vars
             /\ from = "open" /\ to = "open" /\ y.amount \in 0..x.base /\ UNCHANGED balance
                => Money!Next
             /\ from = "open" /\ to = "void" /\ y.amount = x.amount /\ UNCHANGED balance
                => Money!Next
             /\ from = "open" /\ to = "held" /\ y.amount = x.amount /\ y.pay = "card"
                /\ UNCHANGED balance => Money!Next
             /\ from = "open" /\ to = "held" /\ y.amount = x.amount /\ y.pay = "wallet"
                /\ x.kind # "topup" /\ moves(-x.amount) => Money!Next
             /\ /\ from = "held" /\ to = "done" /\ y.amount = x.amount /\ y.pay = x.pay
                /\ \/ x.kind = "topup" /\ moves(x.amount)
                   \/ x.kind # "topup" /\ UNCHANGED balance
                => Money!Next
             /\ /\ from = "held" /\ to = "failed" /\ y.amount = x.amount /\ y.pay = x.pay
                /\ \/ x.pay = "wallet" /\ moves(x.amount)
                   \/ x.pay # "wallet" /\ UNCHANGED balance
                => Money!Next
<1> DEFINE x == orders[o]
<1>1. x \in Order
  BY OrderFacts DEF TypeOK
<1>2. /\ o \in DOMAIN Sales /\ Sales[o] = SaleOf(x)
      /\ DOMAIN Sales' = DOMAIN Sales
      /\ Sales' = [Sales EXCEPT ![o] = SaleOf(y)]
  BY SaleMoves
<1>3. PICK S : S = Sales
  OBVIOUS
<1>4. PICK v : v = SaleOf(x)
  OBVIOUS
<1>5. PICK n : n = SaleOf(y)
  OBVIOUS
<1>6. o \in DOMAIN S /\ S[o] = v /\ Sales' = [S EXCEPT ![o] = n]
  BY <1>2, <1>3, <1>4, <1>5
<1>7. /\ v.owner = x.user /\ v.price = x.amount /\ (v.deposit <=> x.kind = "topup")
      /\ v.stage = Stage(x.status)
      /\ v.by = IF Stage(x.status) \in {"open", "void"} THEN "none" ELSE x.pay
  BY <1>4 DEF SaleOf
<1>8. Money!vars = <<balance, Sales>>
  BY DEF Money!vars, Sales
<1>9. /\ \A p \in Prices : Money!Reprice(o, p) => Money!Next
      /\ \A by \in {"wallet", "card"} : Money!Hold(o, by) => Money!Next
      /\ Money!Finish(o) => Money!Next
      /\ Money!GiveUp(o) => Money!Next
      /\ Money!Drop({o}) => Money!Next
  BY DEF Money!Next, Sales
<1>10. ASSUME v.stage = "open", Stage(y.status) = "open", y.amount = x.amount, UNCHANGED balance
       PROVE  UNCHANGED Money!vars
  <2>1. n = v
    BY <1>1, <1>4, <1>5, <1>7, <1>10, SaleParts
  <2>2. Sales' = S
    BY <1>3, <1>6, <2>1 DEF Sales
  <2> QED
    BY <1>3, <1>10, <2>2 DEF Money!vars, Sales
<1>11. ASSUME v.stage = "open", Stage(y.status) = "open", y.amount \in 0..x.base, UNCHANGED balance
       PROVE  Money!Next
  <2>1. n = [v EXCEPT !.price = y.amount]
    BY <1>1, <1>4, <1>5, <1>7, <1>11, SaleParts
  <2>2. Sales' = [S EXCEPT ![o].price = y.amount]
    BY <1>6, <2>1
  <2>3. Money!Reprice(o, y.amount)
    BY <1>3, <1>6, <1>11, <2>2 DEF Money!Reprice, Sales
  <2>4. y.amount \in Prices
    BY <1>11 DEF PricesKnown, Prices
  <2> QED
    BY <1>9, <2>3, <2>4
<1>12. ASSUME v.stage = "open", Stage(y.status) = "void", y.amount = x.amount, UNCHANGED balance
       PROVE  Money!Next
  <2>1. n = [v EXCEPT !.stage = "void"]
    BY <1>1, <1>4, <1>5, <1>7, <1>12, SaleParts
  <2>2. Sales' = [s \in DOMAIN S |-> IF s \in {o} THEN [S[s] EXCEPT !.stage = "void"] ELSE S[s]]
    BY <1>3, <1>6, <2>1 DEF Sales
  <2>3. Money!Drop({o})
    BY <1>3, <1>6, <1>12, <2>2 DEF Money!Drop, Sales
  <2> QED
    BY <1>9, <2>3
<1>13. ASSUME v.stage = "open", Stage(y.status) = "held", y.amount = x.amount
       PROVE  Sales' = [S EXCEPT ![o].stage = "held", ![o].by = y.pay]
  <2>1. n = [[v EXCEPT !.stage = "held"] EXCEPT !.by = y.pay]
    BY <1>1, <1>4, <1>5, <1>7, <1>13, SaleParts
  <2>2. PICK q : q = [v EXCEPT !.stage = "held"]
    OBVIOUS
  <2>3. n = [q EXCEPT !.by = y.pay]
    BY <2>1, <2>2
  <2> QED
    BY <1>6, <2>2, <2>3
<1>14. ASSUME v.stage = "open", Stage(y.status) = "held", y.amount = x.amount, y.pay = "card",
              UNCHANGED balance
       PROVE  Money!Next
  <2>1. Money!Hold(o, "card")
    BY <1>3, <1>6, <1>13, <1>14 DEF Money!Hold, Sales
  <2> QED
    BY <1>9, <2>1
<1>15. ASSUME v.stage = "open", Stage(y.status) = "held", y.amount = x.amount, y.pay = "wallet",
              x.kind # "topup", balance[x.user] + (-x.amount) >= 0,
              balance' = [balance EXCEPT ![x.user] = @ + (-x.amount)]
       PROVE  Money!Next
  <2>1. Money!Move(v.owner, -v.price)
    BY <1>7, <1>15 DEF Money!Move
  <2>2. Money!Hold(o, "wallet")
    BY <1>3, <1>6, <1>7, <1>13, <1>15, <2>1 DEF Money!Hold, Sales
  <2> QED
    BY <1>9, <2>2
<1>16. ASSUME v.stage = "held", Stage(y.status) = "done", y.amount = x.amount, y.pay = x.pay,
              \/ /\ x.kind = "topup" /\ balance[x.user] + x.amount >= 0
                 /\ balance' = [balance EXCEPT ![x.user] = @ + x.amount]
              \/ x.kind # "topup" /\ UNCHANGED balance
       PROVE  Money!Next
  <2>1. n = [v EXCEPT !.stage = "done"]
    BY <1>1, <1>4, <1>5, <1>7, <1>16, SaleParts
  <2>2. Sales' = [S EXCEPT ![o].stage = "done"]
    BY <1>6, <2>1
  <2>3. IF v.deposit THEN Money!Move(v.owner, v.price) ELSE UNCHANGED balance
    BY <1>7, <1>16 DEF Money!Move
  <2>4. Money!Finish(o)
    BY <1>3, <1>6, <1>16, <2>2, <2>3 DEF Money!Finish, Sales
  <2> QED
    BY <1>9, <2>4
<1>17. ASSUME v.stage = "held", Stage(y.status) = "failed", y.amount = x.amount, y.pay = x.pay,
              \/ /\ x.pay = "wallet" /\ balance[x.user] + x.amount >= 0
                 /\ balance' = [balance EXCEPT ![x.user] = @ + x.amount]
              \/ x.pay # "wallet" /\ UNCHANGED balance
       PROVE  Money!Next
  <2>1. n = [v EXCEPT !.stage = "failed"]
    BY <1>1, <1>4, <1>5, <1>7, <1>17, SaleParts
  <2>2. Sales' = [S EXCEPT ![o].stage = "failed"]
    BY <1>6, <2>1
  <2>3. IF v.by = "wallet" THEN Money!Move(v.owner, v.price) ELSE UNCHANGED balance
    BY <1>7, <1>17 DEF Money!Move
  <2>4. Money!GiveUp(o)
    BY <1>3, <1>6, <1>17, <2>2, <2>3 DEF Money!GiveUp, Sales
  <2> QED
    BY <1>9, <2>4
<1> QED
  BY <1>7, <1>10, <1>11, <1>12, <1>14, <1>15, <1>16, <1>17

\* A new order is a new sale.
LEMMA OfferStep ==
  ASSUME TypeOK, NEW x \in Order, orders' = Append(orders, x), UNCHANGED balance,
         Stage(x.status) = "open", x.amount \in Prices
  PROVE  Money!Next
<1>1. /\ Len(orders) \in Nat /\ DOMAIN orders = 1..Len(orders)
      /\ DOMAIN orders' = 1..(Len(orders) + 1)
      /\ orders'[Len(orders) + 1] = x
      /\ \A o \in DOMAIN orders : orders'[o] = orders[o]
  BY AppendFacts DEF TypeOK
<1>2. PICK n : n = SaleOf(x)
  OBVIOUS
<1>3. PICK X : X = {SaleOf(orders[o]) : o \in DOMAIN orders} \cup {n}
  OBVIOUS
<1>4. PICK k \in Nat : k = Len(orders)
  BY <1>1
<1>5. Sales \in [1..k -> X] /\ n \in X
  BY <1>1, <1>3, <1>4 DEF Sales
<1>6. PICK S : S = Sales
  OBVIOUS
<1>7. S \in Seq(X) /\ Len(S) = k
  BY <1>4, <1>5, <1>6, SeqDef, LenProperties
<1>8. PICK t : t = Append(S, n)
  OBVIOUS
<1>9. /\ t \in Seq(X) /\ DOMAIN t = 1..(k + 1) /\ t[k + 1] = n
      /\ \A i \in DOMAIN S : t[i] = S[i]
  BY <1>5, <1>7, <1>8, AppendFacts
<1>10. t = [i \in 1..(k + 1) |-> t[i]]
  <2>1. \E m \in Nat : t \in [1..m -> X]
    BY <1>9, SeqDef
  <2> QED
    BY <1>9, <2>1
<1>11. Sales' = [i \in 1..(k + 1) |-> SaleOf(orders'[i])]
  BY <1>1, <1>4 DEF Sales, SaleOf, Stage
<1>12. ASSUME NEW i \in 1..(k + 1) PROVE SaleOf(orders'[i]) = t[i]
  <2>1. CASE i = k + 1
    BY <1>1, <1>2, <1>4, <1>9, <2>1
  <2>2. CASE i # k + 1
    <3>1. i \in DOMAIN orders /\ i \in DOMAIN S
      BY <1>1, <1>4, <1>5, <1>6, <2>2
    <3>2. t[i] = SaleOf(orders[i])
      BY <1>6, <1>9, <3>1 DEF Sales
    <3> QED
      BY <1>1, <3>1, <3>2
  <2> QED
    BY <2>1, <2>2
<1>13. Sales' = Append(Sales, n)
  BY <1>6, <1>8, <1>10, <1>11, <1>12
<1>14. n = [owner |-> x.user, price |-> x.amount, deposit |-> x.kind = "topup",
            by |-> "none", stage |-> "open"]
  BY <1>2 DEF SaleOf
<1>15. Money!Offer(x.user, x.amount, x.kind = "topup")
  BY <1>13, <1>14 DEF Money!Offer, Sales
<1>16. x.user \in Users /\ (x.kind = "topup") \in BOOLEAN
  BY DEF Order
<1> QED
  BY <1>15, <1>16 DEF Money!Next

\* The orders that a customer's new checkout closes are dropped together.
LEMMA DropStep ==
  ASSUME TypeOK, NEW u, CancelOpenOrders(u) PROVE Money!Next
<1>1. PICK T : T = {o \in DOMAIN orders : orders[o].user = u /\ orders[o].status \in Open}
  OBVIOUS
<1>2. /\ DOMAIN orders' = DOMAIN orders
      /\ \A o \in DOMAIN orders : orders'[o] =
           IF o \in T THEN [orders[o] EXCEPT !.status = "cancelled"] ELSE orders[o]
  BY <1>1, CancelFacts DEF TypeOK
<1>3. UNCHANGED balance
  BY DEF CancelOpenOrders, wallets
<1>4. ASSUME NEW o \in T
      PROVE  /\ Stage(orders[o].status) = "open"
             /\ SaleOf(orders'[o]) = [SaleOf(orders[o]) EXCEPT !.stage = "void"]
  <2>1. o \in DOMAIN orders /\ orders[o] \in Order /\ orders[o].status \in Open
    BY <1>1, OrderFacts DEF TypeOK
  <2>2. PICK y : y = [orders[o] EXCEPT !.status = "cancelled"]
    OBVIOUS
  <2>3. /\ y \in Order /\ y.user = orders[o].user /\ y.kind = orders[o].kind
        /\ y.amount = orders[o].amount /\ y.status = "cancelled"
    BY <2>1, <2>2 DEF Order, Statuses
  <2>4. Stage(orders[o].status) = "open" /\ Stage(y.status) = "void"
    BY <2>1, <2>3 DEF Stage, Open
  <2>5. orders'[o] = y
    BY <1>2, <2>1, <2>2
  <2> QED
    BY <2>1, <2>3, <2>4, <2>5, SaleParts
<1>5. Sales' = [o \in DOMAIN Sales |->
                  IF o \in T THEN [Sales[o] EXCEPT !.stage = "void"] ELSE Sales[o]]
  <2>1. Sales' = [o \in DOMAIN orders |-> SaleOf(orders'[o])]
    BY <1>2 DEF Sales, SaleOf, Stage
  <2>2. \A o \in DOMAIN orders : SaleOf(orders'[o]) =
          IF o \in T THEN [SaleOf(orders[o]) EXCEPT !.stage = "void"] ELSE SaleOf(orders[o])
    BY <1>2, <1>4
  <2>3. DOMAIN Sales = DOMAIN orders /\ \A o \in DOMAIN orders : Sales[o] = SaleOf(orders[o])
    BY DEF Sales
  <2> QED
    BY <2>1, <2>2, <2>3
<1>6. \A s \in T : Sales[s].stage = "open"
  BY <1>1, <1>4 DEF Sales, SaleOf
<1>7. T \in SUBSET DOMAIN Sales
  BY <1>1 DEF Sales
<1>8. Money!Drop(T)
  BY <1>3, <1>5, <1>6 DEF Money!Drop, Sales
<1> QED
  BY <1>7, <1>8 DEF Money!Next, Sales

\* Every step of the store is a step of the escrow or none.
LEMMA StepIsMoney ==
  TypeOK /\ NothingUnpaid /\ PricesKnown /\ [Next]_vars => [Money!Next]_(Money!vars)
<1> SUFFICES ASSUME TypeOK, NothingUnpaid, PricesKnown, [Next]_vars
             PROVE  Money!Next \/ UNCHANGED Money!vars
  OBVIOUS
<1> USE OrdersAssumption
<1>o. \A o \in DOMAIN orders : orders[o] \in Order /\ PaymentFits(orders[o])
  BY OrderFacts DEF TypeOK, NothingUnpaid
<1>1. ASSUME NEW u \in Users, NEW kind \in Kinds, NEW service \in Services \cup {0},
             NEW base \in Amounts, Start(u, kind, service, base)
      PROVE  Money!Next
  <2>1. PICK x : x = [user |-> u, kind |-> kind, service |-> service,
                      base |-> base, discount |-> 0, amount |-> base, code |-> NoCode,
                      pay |-> "none", status |-> "draft", receipt |-> FALSE, decided |-> Nobody]
    OBVIOUS
  <2>2. x \in Order /\ x.status = "draft" /\ x.amount = base
    BY <2>1 DEF Order, Statuses
  <2>3. Stage(x.status) = "open" /\ x.amount \in Prices
    BY <2>2 DEF Stage, Prices
  <2>4. orders' = Append(orders, x) /\ UNCHANGED balance
    BY <1>1, <2>1 DEF Start, CreateOrder, wallets
  <2> QED
    BY <2>2, <2>3, <2>4, OfferStep
<1>2. ASSUME NEW u \in Users, CancelOpenOrders(u) PROVE Money!Next
  BY <1>2, DropStep
<1>3. ASSUME NEW u \in Users, AttachReceipt(u) PROVE UNCHANGED Money!vars
  <2>1. PICK o \in DOMAIN orders :
          /\ orders[o].status = "awaiting_receipt"
          /\ Update(o, [orders[o] EXCEPT !.receipt = TRUE, !.status = "awaiting_review"])
          /\ UNCHANGED balance
    BY <1>3 DEF AttachReceipt, Waiting, wallets
  <2>2. PICK x : x = orders[o]
    OBVIOUS
  <2>3. PICK y : y = [x EXCEPT !.receipt = TRUE, !.status = "awaiting_review"]
    OBVIOUS
  <2>4. y \in Order
    BY <1>o, <2>2, <2>3, RowChanges DEF Statuses
  <2>5. /\ y.user = x.user /\ y.kind = x.kind /\ y.amount = x.amount
        /\ Stage(y.status) = "open" /\ Stage(x.status) = "open"
    BY <1>o, <2>1, <2>2, <2>3 DEF Order, Stage
  <2>6. Update(o, y)
    BY <2>1, <2>2, <2>3
  <2> QED
    BY <2>1, <2>2, <2>4, <2>5, <2>6, UpdateIsSale
<1>4. ASSUME NEW o \in DOMAIN orders, NEW u \in Users, NEW c \in Codes,
             NEW d \in 0..orders[o].base, Discount(o, u, c, d)
      PROVE  Money!Next
  <2>1. PICK x : x = orders[o]
    OBVIOUS
  <2>2. x \in Order /\ x.base \in Nat /\ d \in Nat /\ x.base - d \in 0..x.base
    BY <1>o, <2>1 DEF Order
  <2>3. PICK y : y = [x EXCEPT !.discount = d, !.amount = x.base - d, !.code = c]
    OBVIOUS
  <2>4. y \in Order
    <3>1. x.base - d \in Nat /\ "draft" \in Statuses
      BY <2>2 DEF Statuses
    <3>2. \A k, n \in Nat, e \in Codes : [x EXCEPT !.discount = k, !.amount = n, !.code = e] \in Order
      BY <2>2, <3>1, RowChanges
    <3> QED
      BY <2>2, <2>3, <3>1, <3>2
  <2>5. x.status = "draft" /\ Update(o, y) /\ UNCHANGED balance
    BY <1>4, <2>1, <2>3 DEF Discount, ApplyDiscount, Discountable, wallets
  <2>6. /\ y.user = x.user /\ y.kind = x.kind /\ y.amount \in 0..x.base
        /\ Stage(y.status) = "open" /\ Stage(x.status) = "open"
    BY <2>2, <2>3, <2>5 DEF Order, Stage
  <2> QED
    BY <2>1, <2>4, <2>5, <2>6, UpdateIsSale
<1>5. ASSUME NEW o \in DOMAIN orders, NEW u \in Users, ChooseCard(o, u) PROVE UNCHANGED Money!vars
  <2>1. PICK x \in Order : x = orders[o]
    BY <1>o
  <2>2. PICK y : y = [x EXCEPT !.pay = "card", !.status = "awaiting_receipt"]
    OBVIOUS
  <2>3. y \in Order
    BY <2>2, RowChanges DEF Statuses
  <2>4. x.status \in {"draft", "awaiting_receipt"} /\ Update(o, y) /\ UNCHANGED balance
    BY <1>5, <2>1, <2>2 DEF ChooseCard, wallets
  <2>5. /\ y.user = x.user /\ y.kind = x.kind /\ y.amount = x.amount
        /\ Stage(y.status) = "open" /\ Stage(x.status) = "open"
    BY <2>2, <2>4 DEF Order, Stage
  <2> QED
    BY <2>1, <2>3, <2>4, <2>5, UpdateIsSale
<1>6. ASSUME NEW o \in DOMAIN orders, NEW u \in Users, PayFromWallet(o, u) PROVE Money!Next
  <2>1. PICK x \in Order : x = orders[o]
    BY <1>o
  <2>2. PICK y : y = [x EXCEPT !.pay = "wallet", !.status = "processing"]
    OBVIOUS
  <2>3. y \in Order
    BY <2>2, RowChanges DEF Statuses
  <2>4. /\ x.status = "draft" /\ x.kind # "topup" /\ x.user = u /\ Update(o, y)
        /\ balance[u] + (-x.amount) >= 0
        /\ balance' = [balance EXCEPT ![u] = @ + (-x.amount)]
    BY <1>6, <2>1, <2>2 DEF PayFromWallet, Payable, AdjustBalanceTx, Affords
  <2>5. /\ y.user = x.user /\ y.kind = x.kind /\ y.amount = x.amount /\ y.pay = "wallet"
        /\ Stage(y.status) = "held" /\ Stage(x.status) = "open"
    BY <2>2, <2>4 DEF Order, Stage
  <2> QED
    BY <2>1, <2>3, <2>4, <2>5, UpdateIsSale
<1>7. ASSUME NEW o \in DOMAIN orders, NEW a \in Admins, Approve(o, a) \/ Reject(o, a)
      PROVE  Money!Next
  <2>1. PICK to \in {"processing", "rejected"} : Transition(o, {"awaiting_review"}, to, a)
    BY <1>7 DEF Approve, Reject
  <2>2. PICK x \in Order : x = orders[o] /\ PaymentFits(x)
    BY <1>o
  <2>3. PICK y : y = [x EXCEPT !.status = to, !.decided = a]
    OBVIOUS
  <2>4. y \in Order
    BY <2>2, <2>3, RowChanges DEF Statuses
  <2>5. x.status = "awaiting_review" /\ Update(o, y) /\ UNCHANGED balance
    BY <2>1, <2>2, <2>3 DEF Transition, wallets
  <2>6. x.pay = "card"
    BY <2>2, <2>5 DEF PaymentFits, Order
  <2>7. /\ y.user = x.user /\ y.kind = x.kind /\ y.amount = x.amount /\ y.pay = "card"
        /\ Stage(y.status) \in {"held", "void"} /\ Stage(x.status) = "open"
    BY <2>3, <2>5, <2>6 DEF Order, Stage
  <2> QED
    BY <2>2, <2>4, <2>5, <2>7, UpdateIsSale
<1>8. ASSUME NEW o \in DOMAIN orders, NEW to \in {"completed", "failed"}, Processing(o),
             SetStatus(o, to),
             \/ /\ to = "completed"
                /\ \/ /\ orders[o].kind = "topup"
                      /\ Affords(orders[o].user, orders[o].amount)
                      /\ balance' = [balance EXCEPT ![orders[o].user] = @ + orders[o].amount]
                   \/ orders[o].kind # "topup" /\ UNCHANGED balance
             \/ /\ to = "failed"
                /\ \/ /\ orders[o].pay = "wallet"
                      /\ Affords(orders[o].user, orders[o].amount)
                      /\ balance' = [balance EXCEPT ![orders[o].user] = @ + orders[o].amount]
                   \/ orders[o].pay # "wallet" /\ UNCHANGED balance
      PROVE  Money!Next
  <2>1. PICK x \in Order : x = orders[o]
    BY <1>o
  <2>2. PICK y : y = [x EXCEPT !.status = to]
    OBVIOUS
  <2>3. y \in Order
    BY <2>2, RowChanges DEF Statuses
  <2>4. x.status = "processing" /\ Update(o, y)
    BY <1>8, <2>1, <2>2 DEF Processing, SetStatus
  <2>5. /\ y.user = x.user /\ y.kind = x.kind /\ y.amount = x.amount /\ y.pay = x.pay
        /\ (to = "completed" => Stage(y.status) = "done")
        /\ (to = "failed" => Stage(y.status) = "failed") /\ Stage(x.status) = "held"
    BY <2>2, <2>4 DEF Order, Stage
  <2> QED
    BY <1>8, <2>1, <2>3, <2>4, <2>5, UpdateIsSale DEF Affords
<1>9. ASSUME NEW o \in DOMAIN orders, Deliver(o) \/ CompleteTopup(o) PROVE Money!Next
  BY <1>8, <1>9 DEF Deliver, CompleteOrder, CompleteTopup, AdjustBalanceTx, wallets
<1>10. ASSUME NEW o \in DOMAIN orders, FailOrder(o) PROVE Money!Next
  <2>1. CASE Refundable(o)
    BY <1>8, <1>10, <2>1 DEF FailOrder, Refundable, AdjustBalanceTx
  <2>2. CASE ~Refundable(o)
    <3>1. Processing(o) /\ SetStatus(o, "failed") /\ UNCHANGED balance
      BY <1>10, <2>2 DEF FailOrder
    <3>2. CASE orders[o].pay # "wallet"
      BY <1>8, <3>1, <3>2
    <3>3. CASE orders[o].pay = "wallet"
      <4>1. orders[o].amount = 0 /\ orders[o].user \in Users
        BY <1>o, <2>2, <3>3 DEF Refundable, Order
      <4>2. /\ Affords(orders[o].user, orders[o].amount)
            /\ balance' = [balance EXCEPT ![orders[o].user] = @ + orders[o].amount]
        BY <3>1, <4>1 DEF Affords, TypeOK
      <4> QED
        BY <1>8, <3>1, <3>3, <4>2
    <3> QED
      BY <3>2, <3>3
  <2> QED
    BY <2>1, <2>2
<1>11. ASSUME NEW u \in Users, NEW delta \in Deltas, NEW reason, NEW o,
              AdjustBalanceTx(u, delta, reason, o), UNCHANGED orders
       PROVE  Money!Next
  <2>1. Money!Gift(u, delta)
    BY <1>11 DEF Money!Gift, Money!Move, AdjustBalanceTx, Affords
  <2> QED
    BY <2>1 DEF Money!Next
<1>12. ASSUME NEW u \in Users, NEW n \in Amounts, AdminAdjust(u, n) \/ AdminAdjust(u, -n)
       PROVE  Money!Next
  <2>1. n \in Deltas /\ -n \in Deltas
    BY DEF Deltas
  <2> QED
    BY <1>11, <1>12, <2>1 DEF AdminAdjust, AdjustBalance
<1>13. ASSUME NEW o \in DOMAIN orders, RewardFor(o) PROVE Money!Next \/ UNCHANGED Money!vars
  <2>1. CASE RewardDue(o)
    <3>1. Reward \in Deltas /\ Referrer[orders[o].user] \in Users
      BY <1>o, <2>1 DEF Deltas, RewardDue, Order
    <3> QED
      BY <1>11, <1>13, <2>1, <3>1 DEF RewardFor, RewardReferrer
  <2>2. CASE ~RewardDue(o)
    BY <1>13, <2>2 DEF RewardFor, RewardReferrer, vars, Money!vars
  <2> QED
    BY <2>1, <2>2
<1>14. CASE UNCHANGED vars
  BY <1>14 DEF vars, Money!vars
<1> QED
  BY <1>1, <1>2, <1>3, <1>4, <1>5, <1>6, <1>7, <1>9, <1>10, <1>12, <1>13, <1>14 DEF Next

(* The tables implement the escrow: a payment is taken out of the purse in *)
(* the step that holds it, kept or given back once in the step that        *)
(* settles it, and a purse changes for no other reason than a gift, a      *)
(* correction or a reward - for any customers, amounts and orders.         *)
THEOREM OrdersImplementEscrow == Spec => ImplementsEscrow
<1>1. Init => Money!Init /\ PricesKnown
  BY DEF Init, Money!Init, PricesKnown
<1>2. Spec => []PricesKnown
  BY <1>1, PricesStayKnown, TypeCorrect, PTL DEF Spec
<1> QED
  BY <1>1, <1>2, StepIsMoney, TypeCorrect, NothingIsDeliveredUnpaid, PTL
     DEF Spec, ImplementsEscrow, Money!Spec

-----------------------------------------------------------------------------
(* Running totals.  Totals is a recursive function over the rows of a      *)
(* ledger; that it exists, and that it depends on the rows it has passed   *)
(* only, goes by the least row at which it would fail.                     *)

\* A set of natural numbers that is not empty has a least one.
LEMMA LeastNumber ==
  ASSUME NEW T, T \subseteq Nat, T # {}
  PROVE  \E n \in T : \A m \in T : n <= m
<1>1. PICK n \in T : \A m \in T : ~ (<<m, n>> \in OpToRel(<, Nat))
  BY NatLessThanWellFounded, WFMin
<1>2. ASSUME NEW m \in T PROVE n <= m
  <2>1. /\ m \in Nat /\ n \in Nat
        /\ ~ (<<m, n>> \in {ss \in Nat \X Nat : ss[1] < ss[2]})
    BY <1>1 DEF OpToRel
  <2>2. ~ (m < n)
    BY <2>1
  <2> QED
    BY <2>1, <2>2
<1> QED
  BY <1>2


\* f is the running total of u over the first n rows.
AddUp(f, rows, u, n) ==
  f = [k \in 0..n |-> IF k = 0 THEN 0 ELSE f[k - 1] + Change(rows, u, k)]

\* Rows have changes.
LEMMA ChangeIsInt ==
  ASSUME NEW rows \in Seq(Row), NEW u
  PROVE  /\ Len(rows) \in Nat
         /\ \A n \in 1..Len(rows) : Change(rows, u, n) \in Int
<1>1. Len(rows) \in Nat /\ \A n \in 1..Len(rows) : rows[n] \in Row
  BY LenProperties, ElementOfSeq
<1> QED
  BY <1>1 DEF Change, Row

\* One more row is one more total.
LEMMA NextTotal ==
  ASSUME NEW rows, NEW u, NEW n \in Nat \ {0}, NEW f \in [0..(n - 1) -> Int],
         AddUp(f, rows, u, n - 1), Change(rows, u, n) \in Int,
         NEW g, g = [k \in 0..n |-> IF k = n THEN f[n - 1] + Change(rows, u, n) ELSE f[k]]
  PROVE  g \in [0..n -> Int] /\ AddUp(g, rows, u, n)
<1>1. n - 1 \in 0..(n - 1) /\ f[n - 1] \in Int
  OBVIOUS
<1>2. g \in [0..n -> Int]
  BY <1>1
<1>3. \A k \in 0..(n - 1) : f[k] = IF k = 0 THEN 0 ELSE f[k - 1] + Change(rows, u, k)
  BY Zenon DEF AddUp
<1>4. ASSUME NEW k \in 0..n
      PROVE  g[k] = IF k = 0 THEN 0 ELSE g[k - 1] + Change(rows, u, k)
  <2>1. CASE k = n
    BY <1>1, <2>1
  <2>2. CASE k # n
    <3>1. k \in 0..(n - 1) /\ g[k] = f[k]
      BY <2>2
    <3>2. k # 0 => g[k - 1] = f[k - 1]
      BY <3>1
    <3> QED
      BY <1>3, <3>1, <3>2
  <2> QED
    BY <2>1, <2>2
<1> QED
  BY <1>2, <1>4, Zenon DEF AddUp

\* Every ledger has a running total.
LEMMA TotalsExist ==
  ASSUME NEW rows \in Seq(Row), NEW u
  PROVE  \E f \in [0..Len(rows) -> Int] : AddUp(f, rows, u, Len(rows))
<1> DEFINE N == Len(rows)
           G(n) == \E f \in [0..n -> Int] : AddUp(f, rows, u, n)
           T == {n \in Nat : n <= N /\ ~ G(n)}
<1>0. N \in Nat /\ \A n \in 1..N : Change(rows, u, n) \in Int
  BY ChangeIsInt
<1>1. SUFFICES ASSUME T # {} PROVE FALSE
  BY <1>0
<1>2. PICK n \in T : \A m \in T : n <= m
  BY <1>1, LeastNumber
<1>3. n \in Nat /\ n <= N /\ ~ G(n)
  OBVIOUS
<1>4. CASE n = 0
  <2> DEFINE f == [k \in 0..0 |-> 0]
  <2>1. f \in [0..0 -> Int] /\ AddUp(f, rows, u, 0)
    BY DEF AddUp
  <2> HIDE DEF f
  <2> QED
    BY <1>3, <1>4, <2>1
<1>5. CASE n # 0
  <2>1. n \in Nat \ {0} /\ n - 1 \in Nat /\ n - 1 <= N /\ n - 1 \notin T
    BY <1>0, <1>2, <1>3, <1>5
  <2>2. G(n - 1)
    BY <2>1
  <2>3. PICK f \in [0..(n - 1) -> Int] : AddUp(f, rows, u, n - 1)
    BY <2>2
  <2>4. PICK g : g = [k \in 0..n |-> IF k = n THEN f[n - 1] + Change(rows, u, n) ELSE f[k]]
    OBVIOUS
  <2>5. Change(rows, u, n) \in Int
    BY <1>0, <1>3, <2>1
  <2>6. g \in [0..n -> Int] /\ AddUp(g, rows, u, n)
    BY <2>1, <2>3, <2>4, <2>5, NextTotal
  <2> QED
    BY <1>3, <2>6
<1> QED
  BY <1>4, <1>5

\* Two ledgers that agree up to row n have the same totals up to there.
LEMMA TotalsAgree ==
  ASSUME NEW u, NEW rows, NEW more, NEW N \in Nat, NEW M \in Nat, N <= M,
         \A n \in 1..N : more[n] = rows[n],
         NEW f, AddUp(f, rows, u, N), NEW g, AddUp(g, more, u, M)
  PROVE  \A n \in 0..N : f[n] = g[n]
<1> DEFINE T == {n \in Nat : n <= N /\ f[n] # g[n]}
<1>1. SUFFICES ASSUME T # {} PROVE FALSE
  OBVIOUS
<1>2. PICK n \in T : \A m \in T : n <= m
  BY <1>1, LeastNumber
<1>3. n \in Nat /\ n <= N /\ n <= M /\ f[n] # g[n]
  OBVIOUS
<1>4. f[n] = IF n = 0 THEN 0 ELSE f[n - 1] + Change(rows, u, n)
  <2>1. n \in 0..N
    BY <1>3
  <2> QED
    BY <2>1, Zenon DEF AddUp
<1>5. g[n] = IF n = 0 THEN 0 ELSE g[n - 1] + Change(more, u, n)
  <2>1. n \in 0..M
    BY <1>3
  <2> QED
    BY <2>1, Zenon DEF AddUp
<1>6. n # 0 => n - 1 \notin T /\ n - 1 \in Nat /\ n - 1 <= N
  BY <1>2, <1>3
<1>7. n # 0 => f[n - 1] = g[n - 1]
  BY <1>6
<1>8. n # 0 => Change(more, u, n) = Change(rows, u, n)
  BY <1>3 DEF Change
<1> QED
  BY <1>3, <1>4, <1>5, <1>7, <1>8

\* Totals is the running total, for every ledger.
LEMMA TotalsAddUp ==
  ASSUME NEW rows \in Seq(Row), NEW u
  PROVE  /\ AddUp(Totals(rows, u), rows, u, Len(rows))
         /\ Totals(rows, u) \in [0..Len(rows) -> Int]
<1>1. PICK f \in [0..Len(rows) -> Int] : AddUp(f, rows, u, Len(rows))
  BY TotalsExist
<1>2. AddUp(Totals(rows, u), rows, u, Len(rows))
  BY <1>1 DEF AddUp, Totals
<1>3. \A n \in 0..Len(rows) : f[n] = Totals(rows, u)[n]
  BY <1>1, <1>2, TotalsAgree, ChangeIsInt
<1>4. Totals(rows, u) = [k \in 0..Len(rows) |-> Totals(rows, u)[k]]
  BY <1>2 DEF AddUp
<1> QED
  BY <1>1, <1>2, <1>3, <1>4

\* Money moves by adjustBalanceTx or not at all.
LEMMA MoneyMoves ==
  ASSUME TypeOK, [Next]_vars
  PROVE  \/ UNCHANGED <<balance, ledger>>
         \/ \E u \in Users, delta \in Int, reason \in Reasons, o \in Nat :
              AdjustBalanceTx(u, delta, reason, o)
<1> USE OrdersAssumption
<1> DEFINE Moves == \E u \in Users, delta \in Int, reason \in Reasons, o \in Nat :
                      AdjustBalanceTx(u, delta, reason, o)
<1>o. \A o \in DOMAIN orders : orders[o] \in Order /\ o \in Nat
  BY OrderFacts, LenProperties DEF TypeOK
<1>1. ASSUME NEW u \in Users, NEW delta \in Int, AdminAdjust(u, delta) PROVE Moves
  <2>1. AdjustBalanceTx(u, delta, "admin", 0) /\ "admin" \in Reasons /\ 0 \in Nat
    BY <1>1 DEF AdminAdjust, AdjustBalance, Reasons
  <2> QED
    BY <2>1
<1>2. ASSUME NEW o \in DOMAIN orders, NEW u \in Users, PayFromWallet(o, u) PROVE Moves
  <2>1. orders[o].kind \in Reasons /\ -orders[o].amount \in Int
    BY <1>o DEF Order, Reasons
  <2> QED
    BY <1>2, <1>o, <2>1 DEF PayFromWallet
<1>3. ASSUME NEW o \in DOMAIN orders, CompleteTopup(o) PROVE Moves
  <2>1. orders[o].user \in Users /\ orders[o].amount \in Int /\ "topup" \in Reasons
    BY <1>o DEF Order, Reasons, Kinds
  <2> QED
    BY <1>3, <1>o, <2>1 DEF CompleteTopup
<1>4. ASSUME NEW o \in DOMAIN orders, FailOrder(o) PROVE UNCHANGED <<balance, ledger>> \/ Moves
  <2>1. orders[o].user \in Users /\ orders[o].amount \in Int /\ "refund" \in Reasons
    BY <1>o DEF Order, Reasons
  <2> QED
    BY <1>4, <1>o, <2>1 DEF FailOrder
<1>5. ASSUME NEW o \in DOMAIN orders, RewardFor(o) PROVE UNCHANGED <<balance, ledger>> \/ Moves
  <2>1. CASE RewardDue(o)
    <3>1. Referrer[orders[o].user] \in Users /\ Reward \in Int /\ "referral" \in Reasons
      BY <2>1, <1>o DEF Order, Reasons, RewardDue
    <3> QED
      BY <1>5, <1>o, <2>1, <3>1 DEF RewardFor, RewardReferrer
  <2>2. CASE ~RewardDue(o)
    BY <1>5, <2>2 DEF RewardFor, RewardReferrer, vars
  <2> QED
    BY <2>1, <2>2
<1>6. ASSUME NEW u \in Users,
             \/ \E kind \in Kinds, service \in Services \cup {0}, base \in Amounts :
                  Start(u, kind, service, base)
             \/ CancelOpenOrders(u) \/ AttachReceipt(u)
      PROVE  UNCHANGED <<balance, ledger>>
  BY <1>6 DEF Start, CreateOrder, CancelOpenOrders, AttachReceipt, wallets
<1>7. ASSUME NEW o \in DOMAIN orders, NEW u \in Users,
             \/ \E c \in Codes, d \in 0..orders[o].base : Discount(o, u, c, d)
             \/ ChooseCard(o, u)
      PROVE  UNCHANGED <<balance, ledger>>
  BY <1>7 DEF Discount, ApplyDiscount, ChooseCard, wallets
<1>8. ASSUME NEW o \in DOMAIN orders,
             Deliver(o) \/ \E a \in Admins : Approve(o, a) \/ Reject(o, a)
      PROVE  UNCHANGED <<balance, ledger>>
  BY <1>8 DEF Approve, Reject, Transition, Deliver, CompleteOrder, wallets
<1>9. \A n \in Amounts : n \in Int /\ -n \in Int
  OBVIOUS
<1> HIDE DEF Moves
<1>10. ASSUME UNCHANGED vars PROVE UNCHANGED <<balance, ledger>>
  BY <1>10 DEF vars
<1>11. ASSUME \E u \in Users :
              \/ \E kind \in Kinds, service \in Services \cup {0}, base \in Amounts :
                   Start(u, kind, service, base)
              \/ CancelOpenOrders(u) \/ AttachReceipt(u)
              \/ \E n \in Amounts : AdminAdjust(u, n) \/ AdminAdjust(u, -n)
       PROVE  UNCHANGED <<balance, ledger>> \/ Moves
  BY <1>1, <1>6, <1>9, <1>11
<1>12. ASSUME \E o \in DOMAIN orders :
              \/ \E u \in Users :
                   \/ \E c \in Codes, d \in 0..orders[o].base : Discount(o, u, c, d)
                   \/ ChooseCard(o, u)
                   \/ PayFromWallet(o, u)
              \/ \E a \in Admins : Approve(o, a) \/ Reject(o, a)
              \/ Deliver(o) \/ CompleteTopup(o) \/ FailOrder(o) \/ RewardFor(o)
       PROVE  UNCHANGED <<balance, ledger>> \/ Moves
  BY <1>2, <1>3, <1>4, <1>5, <1>7, <1>8, <1>12
<1>13. UNCHANGED <<balance, ledger>> \/ Moves
  BY <1>10, <1>11, <1>12 DEF Next
<1> QED
  BY <1>13 DEF Moves

\* A movement adds its row to the totals of the customer, and to no other's.
LEMMA MovementTotals ==
  ASSUME TypeOK, TypeOK', NEW u \in Users, NEW delta \in Int, NEW reason, NEW o,
         AdjustBalanceTx(u, delta, reason, o), NEW v \in Users
  PROVE  /\ Len(ledger) \in Nat /\ Len(ledger') = Len(ledger) + 1
         /\ \A n \in 0..Len(ledger) : Totals(ledger', v)[n] = Totals(ledger, v)[n]
         /\ Totals(ledger', v)[Len(ledger')] = Totals(ledger, v)[Len(ledger)] + IF v = u THEN delta ELSE 0
<1>1. ledger \in Seq(Row) /\ ledger' \in Seq(Row)
  BY DEF TypeOK
<1> DEFINE r == [user |-> u, delta |-> delta, reason |-> reason, order |-> o]
           N == Len(ledger)
<1>2. ledger' = Append(ledger, r)
  BY DEF AdjustBalanceTx
<1>3. /\ N \in Nat /\ Len(ledger') = N + 1
      /\ \A n \in 1..N : ledger'[n] = ledger[n]
      /\ ledger'[N + 1] = r
  <2>1. ledger' \in Seq(Row \cup {r}) /\ ledger \in Seq(Row \cup {r}) /\ r \in Row \cup {r}
    BY <1>1, SeqDef
  <2> QED
    BY <1>1, <1>2, <2>1, AppendProperties, LenProperties
<1>4. AddUp(Totals(ledger, v), ledger, v, N) /\ Totals(ledger, v) \in [0..N -> Int]
  BY <1>1, TotalsAddUp
<1>5. AddUp(Totals(ledger', v), ledger', v, N + 1) /\ Totals(ledger', v) \in [0..(N + 1) -> Int]
  BY <1>1, <1>3, TotalsAddUp
<1>6. \A n \in 0..N : Totals(ledger', v)[n] = Totals(ledger, v)[n]
  BY <1>3, <1>4, <1>5, TotalsAgree
<1>7. Totals(ledger', v)[N + 1] = Totals(ledger', v)[N] + Change(ledger', v, N + 1)
  <2>1. N + 1 \in 0..(N + 1) /\ N + 1 # 0 /\ N + 1 - 1 = N
    BY <1>3
  <2>2. \A k \in 0..(N + 1) : Totals(ledger', v)[k] =
          IF k = 0 THEN 0 ELSE Totals(ledger', v)[k - 1] + Change(ledger', v, k)
    BY <1>5, Zenon DEF AddUp
  <2> QED
    BY <2>1, <2>2
<1>8. Change(ledger', v, N + 1) = IF v = u THEN delta ELSE 0
  BY <1>3 DEF Change
<1> QED
  BY <1>3, <1>6, <1>7, <1>8

(* A balance is always explainable: for any number of movements of any     *)
(* amounts, the ledger rows of a customer add up to the balance, and read  *)
(* from the first one on they never overdraw it.                           *)
THEOREM BalancesAreExplained == Spec => []BalanceExplained
<1>1. Init => BalanceExplained
  <2> SUFFICES ASSUME Init, NEW u \in Users
               PROVE  /\ balance[u] = Totals(ledger, u)[Len(ledger)]
                      /\ \A n \in DOMAIN ledger : Totals(ledger, u)[n] >= 0
    BY DEF BalanceExplained
  <2>1. ledger \in Seq(Row) /\ Len(ledger) = 0 /\ DOMAIN ledger = {} /\ balance[u] = 0
    BY DEF Init
  <2>2. AddUp(Totals(ledger, u), ledger, u, 0)
    BY <2>1, TotalsAddUp
  <2>3. Totals(ledger, u)[0] = 0
    BY <2>2 DEF AddUp
  <2> QED
    BY <2>1, <2>3
<1>2. TypeOK /\ TypeOK' /\ BalanceExplained /\ [Next]_vars => BalanceExplained'
  <2> SUFFICES ASSUME TypeOK, TypeOK', BalanceExplained, [Next]_vars, NEW v \in Users
               PROVE  /\ balance'[v] = Totals(ledger', v)[Len(ledger')]
                      /\ \A n \in DOMAIN ledger' : Totals(ledger', v)[n] >= 0
    BY DEF BalanceExplained
  <2>1. CASE UNCHANGED <<balance, ledger>>
    BY <2>1 DEF BalanceExplained
  <2>2. ASSUME NEW u \in Users, NEW delta \in Int, NEW reason \in Reasons, NEW o \in Nat,
               AdjustBalanceTx(u, delta, reason, o)
        PROVE  /\ balance'[v] = Totals(ledger', v)[Len(ledger')]
               /\ \A n \in DOMAIN ledger' : Totals(ledger', v)[n] >= 0
    <3>1. /\ Len(ledger) \in Nat /\ Len(ledger') = Len(ledger) + 1
          /\ \A n \in 0..Len(ledger) : Totals(ledger', v)[n] = Totals(ledger, v)[n]
          /\ Totals(ledger', v)[Len(ledger')] = Totals(ledger, v)[Len(ledger)] + IF v = u THEN delta ELSE 0
      BY <2>2, MovementTotals
    <3>2. balance'[v] = balance[v] + IF v = u THEN delta ELSE 0
      BY <2>2 DEF AdjustBalanceTx, TypeOK
    <3>3. balance'[v] = Totals(ledger', v)[Len(ledger')] /\ balance'[v] >= 0
      BY <3>1, <3>2 DEF BalanceExplained, TypeOK
    <3>4. DOMAIN ledger = 1..Len(ledger) /\ DOMAIN ledger' = 1..Len(ledger')
      BY LenProperties DEF TypeOK
    <3>5. ASSUME NEW n \in DOMAIN ledger' PROVE Totals(ledger', v)[n] >= 0
      <4>1. CASE n = Len(ledger')
        BY <3>3, <4>1
      <4>2. CASE n # Len(ledger')
        <5>1. n \in DOMAIN ledger /\ n \in 0..Len(ledger)
          BY <3>1, <3>4, <4>2
        <5> QED
          BY <3>1, <5>1 DEF BalanceExplained
      <4> QED
        BY <4>1, <4>2
    <3> QED
      BY <3>3, <3>5
  <2> QED
    BY <2>1, <2>2, MoneyMoves
<1> QED
  BY <1>1, <1>2, TypeCorrect, PTL DEF Spec

=============================================================================

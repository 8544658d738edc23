--------------------------- MODULE CatalogProofs ----------------------------
(***************************************************************************)
(* Discounts stay within the price for every width of the integers; plans, *)
(* orders, services and codes stay consistent for any number of handlers,  *)
(* plans and codes.                                                        *)
(***************************************************************************)
EXTENDS Catalog, TLAPS

-----------------------------------------------------------------------------
(* Pricing.                                                                *)

TermsType == [percent: 0..100, amount: 0..MaxInt, max: 0..MaxInt]

\* A product that wraps around is an integer.
LEMMA WrapType == ASSUME NEW x \in Int PROVE Wrap(x) \in Int
<1> DEFINE n == 2 * MaxInt + 2
<1>1. n \in Nat /\ n > 0 BY PricingAssumption
<1>2. x + MaxInt + 1 \in Int BY PricingAssumption
<1>3. (x + MaxInt + 1) % n \in Int BY <1>1, <1>2
<1> QED BY <1>3, PricingAssumption DEF Wrap

\* So is what a code takes off, before it is bounded.
LEMMA OffType ==
  ASSUME NEW terms \in TermsType, NEW price \in 0..MaxInt
  PROVE  Off(terms, price) \in Int
<1>1. terms.percent \in Int /\ terms.amount \in Int /\ price \in Int
  BY PricingAssumption DEF TermsType
<1>2. price * terms.percent \in Int BY <1>1
<1>3. Wrap(price * terms.percent) \in Int BY <1>2, WrapType
<1>4. Quotient(Wrap(price * terms.percent), 100) \in Int BY <1>3 DEF Quotient
<1> QED BY <1>1, <1>4 DEF Off

\* What a code takes off is between nothing and the price, for every price,
\* also where price * percent wraps around (Apply).
THEOREM DiscountInRange ==
  ASSUME NEW terms \in TermsType, NEW price \in 0..MaxInt
  PROVE  Apply(terms, price) \in 0..price
<1>1. Off(terms, price) \in Int BY OffType
<1> QED BY <1>1, PricingAssumption DEF Apply

\* Wrap leaves alone what fits: the remainder of a small number is itself.
LEMMA SmallMod == ASSUME NEW n \in Nat, NEW y \in 0..n PROVE y % (n + 1) = y
  OBVIOUS

\* Where the product fits, the percentage is exact up to the part of a toman
\* that integer division drops (Apply).
THEOREM PercentIsExact ==
  ASSUME NEW terms \in TermsType, NEW price \in 0..MaxInt,
         terms.percent > 0, price * terms.percent <= MaxInt
  PROVE  Apply(terms, price) = (price * terms.percent) \div 100
<1> DEFINE x == price * terms.percent
<1>1. terms.percent \in 1..100 /\ price \in Nat BY PricingAssumption DEF TermsType
<1>2. x \in Nat /\ x <= price * 100 BY <1>1
<1>3. Wrap(x) = x
  <2>1. x + MaxInt + 1 \in 0..(2 * MaxInt + 1) BY <1>2, PricingAssumption
  <2>2. 2 * MaxInt + 1 \in Nat /\ 2 * MaxInt + 2 = (2 * MaxInt + 1) + 1 BY PricingAssumption
  <2>3. (x + MaxInt + 1) % (2 * MaxInt + 2) = x + MaxInt + 1 BY <2>1, <2>2, SmallMod
  <2> HIDE DEF x
  <2> QED BY <2>3, <1>2, PricingAssumption DEF Wrap
<1>4. x \div 100 \in 0..price BY <1>1, <1>2
<1>5. Off(terms, price) = x \div 100 BY <1>1, <1>2, <1>3 DEF Off, Quotient
<1> QED BY <1>1, <1>4, <1>5 DEF Apply

-----------------------------------------------------------------------------
(* The invariant.                                                          *)

PlanRow == [offer: Offer, active: BOOLEAN]

CodeRow == [terms: CodeTerms, active: BOOLEAN, past: BOOLEAN]

Prices(offer) == {offer.price} \cup ({offer.agent} \ {0})

\* A button shows a plan that was created, and still shows it right.
PlansOK ==
  /\ plans \in [1..MaxPlans -> PlanRow \cup {None}]
  /\ lastPlan \in 0..MaxPlans
  /\ \A p \in Plans : p <= lastPlan
  /\ buttons \subseteq [plan: 1..MaxPlans, offer: Offer]
  /\ \A b \in buttons : /\ b.plan <= lastPlan
                        /\ b.plan \in Plans => plans[b.plan].offer = b.offer

CodesOK ==
  /\ codes \in [Codes -> CodeRow \cup {None}]
  /\ used \in [Codes -> Nat]
  /\ spent \subseteq [code: Codes, user: Users]

OrderOK(x) ==
  /\ x \in Order /\ x.discount <= x.base
  /\ x.plan \in Plans /\ plans[x.plan].offer = x.shown
  /\ x.base \in Prices(x.shown)
  /\ x.earned

ServiceRow == [user: Users, plan: 1..MaxPlans]

SalesOK ==
  /\ orders \in Seq(Order) /\ \A o \in DOMAIN orders : OrderOK(orders[o])
  /\ services \in Seq(ServiceRow) /\ \A s \in DOMAIN services : services[s].plan \in Plans

\* A handler that has read a code knows that it was good, unless the customer
\* has used it, which it has still to look up.
RowOK(t) ==
  /\ t \in Task
  /\ t.pc = "create" => t.base \in Prices(t.button.offer)
  /\ t.pc \in {"once", "apply"} => codes[t.code] # None
  /\ t.pc = "once" => t.earned \/ UsedBy(t.code, orders[t.order].user)
  /\ t.pc = "apply" => t.earned

TasksOK == task \in [Workers -> Task] /\ \A w \in Workers : RowOK(task[w])

CatalogInv == PlansOK /\ CodesOK /\ SalesOK /\ TasksOK

-----------------------------------------------------------------------------
(* What the handlers hold stays true under the steps of the others.        *)

Onward ==
  /\ DOMAIN orders \subseteq DOMAIN orders'
  /\ \A o \in DOMAIN orders : orders'[o].user = orders[o].user
  /\ buttons \subseteq buttons'
  /\ \A c \in Codes : codes[c] # None => codes'[c] # None
  /\ spent \subseteq spent'

\* A handler's row stays in order when the tables only move onward.
LEMMA RowsStay == ASSUME Onward, NEW t, RowOK(t) PROVE RowOK(t)'
<1>1. t \in Task' BY DEF RowOK, Task, Onward
<1>2. CASE t.pc \in {"once", "apply"}
  <2>1. t.code \in Codes /\ t.order \in DOMAIN orders /\ t.pc # "create"
    BY <1>2 DEF RowOK, Task, Idle
  <2>2. codes'[t.code] # None /\ orders'[t.order].user = orders[t.order].user
    BY <1>2, <2>1 DEF RowOK, Onward
  <2> QED BY <1>1, <1>2, <2>1, <2>2 DEF RowOK, UsedBy, Onward
<1>3. CASE t.pc \notin {"once", "apply"}
  BY <1>1, <1>3 DEF RowOK, Prices
<1> QED BY <1>2, <1>3

\* All handlers but the one that moves, and that one too when its new row fits.
LEMMA TasksMove ==
  ASSUME TasksOK, Onward, NEW w \in Workers, NEW t, task' = [task EXCEPT ![w] = t], RowOK(t)'
  PROVE  TasksOK'
<1>1. ASSUME NEW v \in Workers PROVE RowOK(task[v])'
  <2>1. CASE v = w
    <3>1. task'[v] = t BY <2>1 DEF TasksOK
    <3> QED BY <3>1 DEF RowOK, Task, UsedBy, Prices
  <2>2. CASE v # w
    <3>1. PICK r : r = task[v] OBVIOUS
    <3>2. task'[v] = r BY <2>2, <3>1 DEF TasksOK
    <3>3. RowOK(r) BY <3>1 DEF TasksOK
    <3>4. RowOK(r)' BY <3>3, RowsStay
    <3> QED BY <3>2, <3>4 DEF RowOK, Task, UsedBy, Prices
  <2> QED BY <2>1, <2>2
<1>2. \A v \in Workers : task'[v] \in Task' BY <1>1 DEF RowOK
<1>3. task' \in [Workers -> Task'] BY <1>2 DEF TasksOK
<1> QED BY <1>1, <1>3 DEF TasksOK

\* A step of which the handlers know nothing.
LEMMA TasksIdle == ASSUME TasksOK, Onward, task' = task PROVE TasksOK'
<1>1. ASSUME NEW v \in Workers PROVE RowOK(task[v])'
  <2>1. PICK r : r = task[v] OBVIOUS
  <2>2. task'[v] = r BY <2>1
  <2>3. RowOK(r) BY <2>1 DEF TasksOK
  <2>4. RowOK(r)' BY <2>3, RowsStay
  <2> QED BY <2>2, <2>4 DEF RowOK, Task, UsedBy, Prices
<1>2. \A v \in Workers : task'[v] \in Task' BY <1>1 DEF RowOK
<1>3. task' \in [Workers -> Task'] BY <1>2 DEF TasksOK
<1> QED BY <1>1, <1>3 DEF TasksOK

-----------------------------------------------------------------------------
(* The admins.                                                             *)

\* A plan that is in use keeps its row and its offer.
LEMMA SalesKept ==
  ASSUME SalesOK, UNCHANGED sales,
         \A p \in Plans : InUse(p) => p \in Plans' /\ plans'[p].offer = plans[p].offer
  PROVE  SalesOK'
<1>1. ASSUME NEW o \in DOMAIN orders
      PROVE  orders[o].plan \in Plans' /\ plans'[orders[o].plan].offer = plans[orders[o].plan].offer
  <2>1. orders[o].plan \in Plans /\ InUse(orders[o].plan)
    BY DEF SalesOK, OrderOK, InUse, Ordered
  <2> QED BY <2>1
<1>2. ASSUME NEW s \in DOMAIN services PROVE services[s].plan \in Plans'
  <2>1. services[s].plan \in Plans /\ InUse(services[s].plan)
    BY DEF SalesOK, InUse, Serving
  <2> QED BY <2>1
<1>3. orders' = orders /\ services' = services BY DEF sales
<1> QED BY <1>1, <1>2, <1>3 DEF SalesOK, OrderOK, Order, ServiceRow, Prices

\* The admin panel's buttons for plans keep the invariant.
LEMMA PlanSteps ==
  ASSUME CatalogInv, CreatePlan \/ \E p \in Plans : DeletePlan(p) \/ SetPlanActive(p)
  PROVE  CatalogInv'
<1>0. MaxPlans \in Nat /\ None \notin PlanRow
  BY CatalogAssumption DEF MaxPlans, PlanRow, Offer
<1>1. CASE CreatePlan
  <2> DEFINE new == lastPlan + 1
             row == [offer |-> Offers[new], active |-> TRUE]
  <2>1. new \in 1..MaxPlans /\ lastPlan \in Nat BY <1>0, <1>1 DEF CatalogInv, PlansOK, CreatePlan
  <2>2. Offers[new] \in Offer /\ row \in PlanRow BY <2>1 DEF Offer, PlanRow
  <2>3. /\ plans' = [plans EXCEPT ![new] = row]
        /\ buttons' = buttons \cup {[plan |-> new, offer |-> Offers[new]]}
        /\ lastPlan' = new
        /\ UNCHANGED <<codes, used, spent, orders, services, task>>
    BY <1>1 DEF CreatePlan, NextPlan, discounts, sales
  <2>4. new \notin Plans /\ \A b \in buttons : b.plan # new
    BY <2>1 DEF CatalogInv, PlansOK, Plans
  <2>5. Plans' = Plans \cup {new}
    <3> HIDE DEF row, new
    <3> QED BY <2>1, <2>2, <2>3, <1>0 DEF CatalogInv, PlansOK, Plans
  <2>6. \A p \in Plans : plans'[p] = plans[p] BY <2>3, <2>4 DEF CatalogInv, PlansOK, Plans
  <2>7. PlansOK'
    <3>1. plans' \in [1..MaxPlans -> PlanRow \cup {None}] BY <2>1, <2>2, <2>3 DEF CatalogInv, PlansOK
    <3>2. lastPlan' \in 0..MaxPlans /\ \A p \in Plans' : p <= lastPlan'
      BY <2>1, <2>3, <2>5, <1>0 DEF CatalogInv, PlansOK, Plans
    <3>3. buttons' \subseteq [plan: 1..MaxPlans, offer: Offer]
      BY <2>1, <2>2, <2>3 DEF CatalogInv, PlansOK
    <3>4. ASSUME NEW b \in buttons'
          PROVE  b.plan <= lastPlan' /\ (b.plan \in Plans' => plans'[b.plan].offer = b.offer)
      <4>1. CASE b \in buttons
        <5>1. b.plan <= lastPlan /\ b.plan \in 1..MaxPlans
          BY <4>1 DEF CatalogInv, PlansOK
        <5>2. b.plan \in Plans' => b.plan \in Plans BY <4>1, <2>4, <2>5
        <5> QED BY <4>1, <5>1, <5>2, <2>1, <2>3, <2>6, <1>0 DEF CatalogInv, PlansOK
      <4>2. CASE b = [plan |-> new, offer |-> Offers[new]]
        <5>1. plans'[new] = row BY <2>1, <2>3 DEF CatalogInv, PlansOK
        <5> QED BY <4>2, <5>1, <2>1, <2>3
      <4> QED BY <4>1, <4>2, <2>3
    <3> QED BY <3>1, <3>2, <3>3, <3>4 DEF PlansOK, PlanRow, Offer, MaxPlans
  <2>8. SalesOK' BY <2>3, <2>5, <2>6, SalesKept DEF CatalogInv, sales
  <2>9. CodesOK' BY <2>3 DEF CatalogInv, CodesOK, CodeRow
  <2>10. Onward BY <2>3 DEF Onward
  <2>11. TasksOK' BY <2>3, <2>10, TasksIdle DEF CatalogInv
  <2> QED BY <2>7, <2>8, <2>9, <2>11 DEF CatalogInv
<1>2. ASSUME NEW p \in Plans, DeletePlan(p) \/ SetPlanActive(p) PROVE CatalogInv'
  <2>1. UNCHANGED <<lastPlan, codes, used, spent, orders, services, buttons, task>>
    BY <1>2 DEF DeletePlan, SetPlanActive, discounts, sales
  <2>2. p \in 1..MaxPlans /\ plans[p] \in PlanRow BY DEF CatalogInv, PlansOK, Plans
  <2>3. PICK r \in PlanRow \cup {None} :
          /\ plans' = [plans EXCEPT ![p] = r]
          /\ r # None => r.offer = plans[p].offer
          /\ r = None => ~InUse(p)
    <3>1. [plans[p] EXCEPT !.active = FALSE] \in PlanRow BY <2>2 DEF PlanRow
    <3>2. [plans[p] EXCEPT !.active = ~@] \in PlanRow BY <2>2 DEF PlanRow
    <3>3. CASE DeletePlan(p) /\ InUse(p)
      BY <3>1, <3>3, <2>2, <1>0 DEF DeletePlan, PlanRow
    <3>4. CASE DeletePlan(p) /\ ~InUse(p) BY <3>4 DEF DeletePlan
    <3>5. CASE SetPlanActive(p)
      BY <3>2, <3>5, <2>2, <1>0 DEF SetPlanActive, PlanRow
    <3> QED BY <1>2, <3>3, <3>4, <3>5
  <2>4. plans' \in [1..MaxPlans -> PlanRow \cup {None}] BY <2>3 DEF CatalogInv, PlansOK
  <2>5. ASSUME NEW q \in Plans' PROVE q \in Plans /\ plans'[q].offer = plans[q].offer
    BY <2>2, <2>3, <1>0 DEF CatalogInv, PlansOK, Plans
  <2>6. PlansOK'
    BY <2>1, <2>4, <2>5 DEF CatalogInv, PlansOK, PlanRow, Offer, MaxPlans
  <2>7. ASSUME NEW q \in Plans, InUse(q)
        PROVE  q \in Plans' /\ plans'[q].offer = plans[q].offer
    <3>1. CASE q = p
      <4>1. r # None BY <3>1, <2>3, <2>7
      <4> QED BY <3>1, <4>1, <2>2, <2>3 DEF CatalogInv, PlansOK, Plans
    <3>2. CASE q # p BY <3>2, <2>3 DEF CatalogInv, PlansOK, Plans
    <3> QED BY <3>1, <3>2
  <2>8. SalesOK' BY <2>1, <2>7, SalesKept DEF CatalogInv, sales
  <2>9. CodesOK' BY <2>1 DEF CatalogInv, CodesOK, CodeRow
  <2>10. Onward BY <2>1 DEF Onward
  <2>11. TasksOK' BY <2>1, <2>10, TasksIdle DEF CatalogInv
  <2> QED BY <2>6, <2>8, <2>9, <2>11 DEF CatalogInv
<1> QED BY <1>1, <1>2

\* Steps that leave the plans alone, and then the sales.
LEMMA PlansStay == ASSUME PlansOK, UNCHANGED <<plans, lastPlan, buttons>> PROVE PlansOK'
  BY DEF PlansOK, PlanRow, Offer, MaxPlans, Plans

\* Steps that leave the sales and the plans alone.
LEMMA SalesStay == ASSUME SalesOK, UNCHANGED <<plans, orders, services>> PROVE SalesOK'
  BY DEF SalesOK, OrderOK, Order, ServiceRow, Prices, Plans, Offer, MaxPlans

\* Steps that leave the codes alone.
LEMMA CodesStayOK == ASSUME CodesOK, UNCHANGED <<codes, used, spent>> PROVE CodesOK'
  BY DEF CodesOK, CodeRow

\* A code is made where there was none, or its row is changed.
LEMMA CodeSteps ==
  ASSUME CatalogInv,
         \/ \E w \in Workers, c \in Codes : TypeNewCode(w, c)
         \/ \E w \in Workers, terms \in CodeTerms, past \in BOOLEAN : CreateDiscount(w, terms, past)
         \/ \E c \in Codes : SetDiscountActive(c) \/ TimePasses(c)
  PROVE  CatalogInv'
<1>1. UNCHANGED <<plans, lastPlan, buttons, orders, services, used, spent>>
  BY DEF TypeNewCode, CreateDiscount, SetDiscountActive, TimePasses, catalog, sales, discounts
<1>2. PlansOK' /\ SalesOK' BY <1>1, PlansStay, SalesStay DEF CatalogInv
<1>3. /\ codes' \in [Codes -> CodeRow \cup {None}]
      /\ \A c \in Codes : codes[c] # None => codes'[c] # None
  <2>0. None \notin CodeRow BY CatalogAssumption DEF CodeRow
  <2>1. ASSUME NEW c \in Codes, NEW r \in CodeRow, codes' = [codes EXCEPT ![c] = r]
        PROVE  <1>3!1 /\ <1>3!2
    BY <2>0, <2>1 DEF CatalogInv, CodesOK
  <2>2. CASE \E w \in Workers, c \in Codes : TypeNewCode(w, c)
    BY <2>2 DEF TypeNewCode, discounts, CatalogInv, CodesOK
  <2>3. ASSUME NEW w \in Workers, NEW terms \in CodeTerms, NEW past \in BOOLEAN,
               CreateDiscount(w, terms, past)
        PROVE  <1>3!1 /\ <1>3!2
    <3>1. task[w].pc = "newcode" BY <2>3 DEF CreateDiscount, At
    <3>2. task[w].code \in Codes BY <3>1 DEF CatalogInv, TasksOK, Task, Idle
    <3>3. [terms |-> terms, active |-> TRUE, past |-> past] \in CodeRow BY DEF CodeRow
    <3> QED BY <2>1, <2>3, <3>2, <3>3 DEF CreateDiscount, CatalogInv, CodesOK
  <2>4. ASSUME NEW c \in Codes, SetDiscountActive(c) \/ TimePasses(c)
        PROVE  <1>3!1 /\ <1>3!2
    <3>1. codes[c] \in CodeRow BY <2>4 DEF SetDiscountActive, TimePasses, CatalogInv, CodesOK
    <3>2. [codes[c] EXCEPT !.active = ~@] \in CodeRow /\ [codes[c] EXCEPT !.past = TRUE] \in CodeRow
      BY <3>1 DEF CodeRow
    <3>3. CASE SetDiscountActive(c) BY <2>1, <3>2, <3>3 DEF SetDiscountActive
    <3>4. CASE TimePasses(c) BY <2>1, <3>2, <3>4 DEF TimePasses
    <3> QED BY <2>4, <3>3, <3>4
  <2> QED BY <2>2, <2>3, <2>4
<1>4. CodesOK' BY <1>1, <1>3 DEF CatalogInv, CodesOK, CodeRow
<1>5. Onward BY <1>1, <1>3 DEF Onward
<1>6. TasksOK'
  <2>1. CASE task' = task BY <1>5, <2>1, TasksIdle DEF CatalogInv
  <2>2. ASSUME NEW w \in Workers, NEW c \in Codes, TypeNewCode(w, c) PROVE TasksOK'
    <3>1. task' = [task EXCEPT ![w] = [pc |-> "newcode", code |-> c]]
      BY <2>2 DEF TypeNewCode, Goto
    <3>2. RowOK([pc |-> "newcode", code |-> c])' BY DEF RowOK, Task
    <3> QED BY <1>5, <3>1, <3>2, TasksMove DEF CatalogInv
  <2>3. ASSUME NEW w \in Workers, NEW terms \in CodeTerms, NEW past \in BOOLEAN,
               CreateDiscount(w, terms, past)
        PROVE  TasksOK'
    <3>1. task' = [task EXCEPT ![w] = Idle] BY <2>3 DEF CreateDiscount, Finish, Goto
    <3>2. RowOK(Idle)' BY DEF RowOK, Task, Idle
    <3> QED BY <1>5, <3>1, <3>2, TasksMove DEF CatalogInv
  <2> QED BY <2>1, <2>2, <2>3 DEF SetDiscountActive, TimePasses
<1> QED BY <1>2, <1>4, <1>6 DEF CatalogInv

-----------------------------------------------------------------------------
(* The sales.                                                              *)

Statuses == {"draft", "processing", "completed", "failed", "cancelled"}

\* An order whose status alone changes stays in order.
LEMMA StatusFits ==
  ASSUME NEW x, OrderOK(x), NEW status \in Statuses
  PROVE  OrderOK([x EXCEPT !.status = status]) /\ [x EXCEPT !.status = status].user = x.user
<1> DEFINE y == [x EXCEPT !.status = status]
<1>1. x \in Order BY DEF OrderOK
<1>2. y \in Order BY <1>1 DEF Order, Statuses
<1>3. /\ y.user = x.user /\ y.plan = x.plan /\ y.base = x.base /\ y.discount = x.discount
      /\ y.shown = x.shown /\ y.earned = x.earned
  BY <1>1 DEF Order
<1> HIDE DEF y
<1>4. OrderOK(y) BY <1>2, <1>3 DEF OrderOK
<1> QED BY <1>3, <1>4 DEF y

\* One order gets a new row that fits, of the same customer.
LEMMA OrderMoves ==
  ASSUME SalesOK, UNCHANGED <<plans, services>>,
         NEW o \in DOMAIN orders, NEW x, OrderOK(x), x.user = orders[o].user,
         orders' = [orders EXCEPT ![o] = x]
  PROVE  /\ SalesOK'
         /\ DOMAIN orders' = DOMAIN orders
         /\ \A p \in DOMAIN orders : orders'[p].user = orders[p].user
<1>1. x \in Order BY DEF OrderOK
<1>2. orders' \in Seq(Order) /\ DOMAIN orders' = DOMAIN orders BY <1>1 DEF SalesOK
<1>3. ASSUME NEW p \in DOMAIN orders PROVE OrderOK(orders'[p])
  BY <1>3 DEF SalesOK
<1>4. \A p \in DOMAIN orders : orders'[p].user = orders[p].user BY DEF SalesOK
<1>5. plans' = plans /\ services' = services OBVIOUS
<1> QED BY <1>2, <1>3, <1>4, <1>5
       DEF SalesOK, OrderOK, Order, ServiceRow, Prices, Plans, Offer, MaxPlans

\* Steps that open an order: the plan and the price go from the button to the
\* order, and the foreign key is checked when it is written.
LEMMA OpeningSteps ==
  ASSUME CatalogInv, NEW w \in Workers,
         \/ \E u \in Users, agent \in IsAgent, b \in buttons : StartPurchase(w, u, agent, b)
         \/ CreateOrder(w)
  PROVE  CatalogInv'
<1>1. UNCHANGED <<plans, lastPlan, buttons, codes, used, spent, services>>
  BY DEF StartPurchase, CreateOrder, catalog, discounts
<1>2. PlansOK' /\ CodesOK' BY <1>1, PlansStay, CodesStayOK DEF CatalogInv
<1>3. orders \in Seq(Order) /\ \A o \in DOMAIN orders : OrderOK(orders[o])
  BY DEF CatalogInv, SalesOK
<1>4. ASSUME NEW u \in Users, NEW agent \in IsAgent, NEW b \in buttons,
             StartPurchase(w, u, agent, b)
      PROVE  CatalogInv'
  <2> DEFINE offer == plans[b.plan].offer
             t == [pc |-> "create", user |-> u, button |-> b, base |-> PriceFor(offer, agent)]
  <2>1. PICK r : r = t OBVIOUS
  <2>2. offer = b.offer /\ offer \in Offer BY <1>4 DEF StartPurchase, CatalogInv, PlansOK
  <2>3. offer \in [price: 0..MaxInt, agent: 0..MaxInt]
    <3>1. PICK p \in 1..MaxPlans : offer = Offers[p] BY <2>2 DEF Offer
    <3> DEFINE S == [price: 0..MaxInt, agent: 0..MaxInt]
    <3>2. Offers \in Seq(S) BY CatalogAssumption
    <3> HIDE DEF offer, S
    <3>3. Offers[p] \in S BY <3>2 DEF MaxPlans
    <3> QED BY <3>1, <3>3 DEF S
  <2>4. PriceFor(offer, agent) \in Prices(b.offer) /\ PriceFor(offer, agent) \in 0..MaxInt
    BY <2>2, <2>3, PricingAssumption DEF PriceFor, Prices
  <2>5. RowOK(r)' BY <1>1, <2>1, <2>4 DEF RowOK, Task, Prices
  <2>6. \A o \in DOMAIN orders :
          OrderOK(orders'[o]) /\ orders'[o].user = orders[o].user
    <3>1. ASSUME NEW o \in DOMAIN orders
          PROVE  OrderOK(orders'[o]) /\ orders'[o].user = orders[o].user
      <4>1. CASE orders'[o] = orders[o] BY <4>1, <1>3
      <4>2. CASE orders'[o] = [orders[o] EXCEPT !.status = "cancelled"]
        BY <4>2, <1>3, StatusFits DEF Statuses
      <4> QED BY <1>4, <4>1, <4>2 DEF StartPurchase
    <3> QED BY <3>1
  <2>7. DOMAIN orders' = DOMAIN orders BY <1>4 DEF StartPurchase
  <2>8. orders' \in Seq(Order)
    <3>1. \A o \in DOMAIN orders : orders'[o] \in Order BY <2>6 DEF OrderOK
    <3>2. DOMAIN orders = 1..Len(orders) /\ Len(orders) \in Nat BY <1>3
    <3>3. orders' = [o \in 1..Len(orders) |-> orders'[o]] BY <3>2, <1>4 DEF StartPurchase
    <3> QED BY <3>1, <3>2, <3>3
  <2>9. SalesOK'
    BY <1>1, <2>6, <2>7, <2>8
       DEF CatalogInv, SalesOK, OrderOK, Order, ServiceRow, Prices, Plans, Offer, MaxPlans
  <2>10. Onward BY <1>1, <2>6, <2>7 DEF Onward
  <2>11. task' = [task EXCEPT ![w] = r] BY <1>4, <2>1 DEF StartPurchase, Goto
  <2>12. TasksOK' BY <2>5, <2>10, <2>11, TasksMove DEF CatalogInv
  <2> QED BY <1>2, <2>9, <2>12 DEF CatalogInv
<1>5. CASE CreateOrder(w)
  <2>1. task' = [task EXCEPT ![w] = Idle] BY <1>5 DEF CreateOrder, Finish, Goto
  <2>2. RowOK(Idle)' BY DEF RowOK, Task, Idle
  <2>3. SalesOK' /\ Onward
    <3>1. CASE orders' = orders
      BY <1>1, <3>1, SalesStay DEF CatalogInv, Onward
    <3>2. CASE orders' # orders
      <4> DEFINE t == task[w]
                 x == [user |-> t.user, plan |-> t.button.plan, base |-> t.base, discount |-> 0,
                       code |-> None, status |-> "draft", shown |-> t.button.offer,
                       earned |-> TRUE]
      <4>1. t.pc = "create" BY <1>5 DEF CreateOrder, At
      <4>2. /\ t \in Task /\ t.base \in Prices(t.button.offer)
        BY <4>1 DEF CatalogInv, TasksOK, RowOK
      <4>3. t.user \in Users /\ t.button \in buttons /\ t.base \in 0..MaxInt
        BY <4>1, <4>2 DEF Task, Idle
      <4>4. t.button.plan \in 1..MaxPlans /\ t.button.offer \in Offer
        BY <4>3 DEF CatalogInv, PlansOK
      <4>5. t.button.plan \in Plans /\ orders' = Append(orders, x)
        BY <1>5, <3>2 DEF CreateOrder, Referable
      <4>6. plans[t.button.plan].offer = t.button.offer BY <4>3, <4>5 DEF CatalogInv, PlansOK
      <4>7. x \in Order BY <4>3, <4>4, PricingAssumption DEF Order
      <4>8. OrderOK(x)
        <5> HIDE DEF t
        <5> QED BY <4>2, <4>3, <4>5, <4>6, <4>7 DEF OrderOK
      <4> HIDE DEF x
      <4>9. /\ orders' \in Seq(Order) /\ DOMAIN orders \subseteq DOMAIN orders'
            /\ \A o \in DOMAIN orders : orders'[o] = orders[o]
            /\ \A o \in DOMAIN orders' : o \in DOMAIN orders \/ orders'[o] = x
        BY <1>3, <4>5, <4>7
      <4>10. \A o \in DOMAIN orders' : OrderOK(orders'[o]) BY <1>3, <4>8, <4>9
      <4>11. SalesOK'
        BY <1>1, <4>9, <4>10
           DEF CatalogInv, SalesOK, OrderOK, Order, ServiceRow, Prices, Plans, Offer, MaxPlans
      <4>12. Onward BY <1>1, <4>9 DEF Onward
      <4> QED BY <4>11, <4>12
    <3> QED BY <3>1, <3>2
  <2>4. TasksOK' BY <2>1, <2>2, <2>3, TasksMove DEF CatalogInv
  <2> QED BY <1>2, <2>3, <2>4 DEF CatalogInv
<1> QED BY <1>4, <1>5

\* What a handler holds of an order.
LEMMA HeldOrder ==
  ASSUME CatalogInv, NEW w \in Workers,
         task[w].pc \in {"once", "apply", "load", "record", "complete"}
  PROVE  task[w].order \in DOMAIN orders /\ task[w] \in Task
  BY DEF CatalogInv, TasksOK, RowOK, Task, Idle

\* Steps that change nothing but one order and the handler.
LEMMA HandlerSteps ==
  ASSUME CatalogInv, NEW w \in Workers,
         UNCHANGED <<plans, lastPlan, buttons, codes, used, spent, services>>,
         NEW o \in DOMAIN orders, NEW x, OrderOK(x), x.user = orders[o].user,
         orders' = [orders EXCEPT ![o] = x],
         NEW t, task' = [task EXCEPT ![w] = t], RowOK(t)
  PROVE  CatalogInv'
<1>1. PlansOK' /\ CodesOK' BY PlansStay, CodesStayOK DEF CatalogInv
<1>2. /\ SalesOK' /\ DOMAIN orders' = DOMAIN orders
      /\ \A p \in DOMAIN orders : orders'[p].user = orders[p].user
  BY OrderMoves DEF CatalogInv
<1>3. Onward BY <1>2 DEF Onward
<1>4. RowOK(t)' BY <1>3, RowsStay
<1>5. TasksOK' BY <1>3, <1>4, TasksMove DEF CatalogInv
<1> QED BY <1>1, <1>2, <1>5 DEF CatalogInv

\* ApplyCode: the code's row and the customer's uses, then the discount.
LEMMA CodeTypedSteps ==
  ASSUME CatalogInv, NEW w \in Workers,
         \/ \E o \in DOMAIN orders, c \in Codes : GetDiscount(w, o, c)
         \/ DiscountUsedBy(w)
         \/ ApplyDiscount(w)
  PROVE  CatalogInv'
<1>1. \A o \in DOMAIN orders : OrderOK(orders[o]) /\ orders = [orders EXCEPT ![o] = orders[o]]
  BY DEF CatalogInv, SalesOK
<1>2. RowOK(Idle) BY DEF RowOK, Task, Idle
<1>3. ASSUME NEW o \in DOMAIN orders, NEW c \in Codes, GetDiscount(w, o, c) PROVE CatalogInv'
  <2>1. PICK r : r = [pc |-> "once", order |-> o, code |-> c, earned |-> Good(c, orders[o].user)]
    OBVIOUS
  <2>2. task' = [task EXCEPT ![w] = r] BY <1>3, <2>1 DEF GetDiscount, Goto
  <2>3. Good(c, orders[o].user) = ~UsedBy(c, orders[o].user) BY <1>3 DEF GetDiscount, Good
  <2>4. codes[c] # None BY <1>3 DEF GetDiscount
  <2>5. RowOK(r)
    <3>1. (~UsedBy(c, orders[o].user)) \in BOOLEAN BY DEF UsedBy
    <3>2. r \in Task BY <2>1, <2>3, <3>1 DEF Task
    <3>3. r.pc = "once" /\ r.code = c /\ r.order = o /\ r.earned = ~UsedBy(c, orders[o].user)
      BY <2>1, <2>3
    <3> QED BY <3>2, <3>3, <2>4 DEF RowOK
  <2>6. orders' = [orders EXCEPT ![o] = orders[o]] /\ UNCHANGED <<plans, lastPlan, buttons, codes, used, spent, services>>
    BY <1>1, <1>3 DEF GetDiscount, catalog, discounts, sales
  <2>7. PICK x : x = orders[o] OBVIOUS
  <2>8. OrderOK(x) /\ x.user = orders[o].user /\ orders' = [orders EXCEPT ![o] = x]
    BY <1>1, <2>6, <2>7
  <2> QED BY <2>2, <2>5, <2>6, <2>8, HandlerSteps
<1>4. CASE DiscountUsedBy(w)
  <2>0. task[w].pc = "once" BY <1>4 DEF DiscountUsedBy, At
  <2>1. PICK t : t = task[w] OBVIOUS
  <2>2. t \in Task /\ RowOK(t) /\ t.pc = "once" BY <2>0, <2>1 DEF CatalogInv, TasksOK
  <2>3. t.order \in DOMAIN orders /\ t.code \in Codes /\ t.earned \in BOOLEAN
        /\ t \in [pc: {"once", "apply"}, order: DOMAIN orders, code: Codes, earned: BOOLEAN]
    BY <2>2 DEF Task, Idle
  <2>4. PICK r : r = IF UsedBy(t.code, orders[t.order].user) THEN Idle ELSE [t EXCEPT !.pc = "apply"]
    OBVIOUS
  <2>5. RowOK(r)
    <3>1. CASE UsedBy(t.code, orders[t.order].user) BY <1>2, <2>4, <3>1
    <3>2. CASE ~UsedBy(t.code, orders[t.order].user)
      <4>1. t.earned /\ codes[t.code] # None BY <2>2, <3>2 DEF RowOK
      <4>2. r \in Task /\ r.pc = "apply" /\ r.code = t.code /\ r.earned = t.earned
        BY <2>3, <2>4, <3>2 DEF Task
      <4> QED BY <4>1, <4>2 DEF RowOK
    <3> QED BY <3>1, <3>2
  <2>6. task' = [task EXCEPT ![w] = r] BY <1>4, <2>1, <2>4 DEF DiscountUsedBy, Goto
  <2>7. PICK x : x = orders[t.order] OBVIOUS
  <2>8. /\ OrderOK(x) /\ x.user = orders[t.order].user
        /\ orders' = [orders EXCEPT ![t.order] = x]
        /\ UNCHANGED <<plans, lastPlan, buttons, codes, used, spent, services>>
    BY <1>1, <1>4, <2>3, <2>7 DEF DiscountUsedBy, catalog, discounts, sales
  <2> QED BY <2>3, <2>5, <2>6, <2>8, HandlerSteps
<1>5. CASE ApplyDiscount(w)
  <2>0. task[w].pc = "apply" BY <1>5 DEF ApplyDiscount, At
  <2>1. PICK t : t = task[w] OBVIOUS
  <2>2. t \in Task /\ RowOK(t) /\ t.pc = "apply" BY <2>0, <2>1 DEF CatalogInv, TasksOK
  <2>3. t.order \in DOMAIN orders /\ t.code \in Codes /\ t.earned /\ codes[t.code] # None
    BY <2>2 DEF Task, Idle, RowOK
  <2>4. PICK y : y = orders[t.order] OBVIOUS
  <2>5. OrderOK(y) /\ y \in Order BY <1>1, <2>3, <2>4 DEF OrderOK
  <2>6. PICK off : off = Apply(codes[t.code].terms, y.base) OBVIOUS
  <2>7. off \in 0..y.base
    <3>1. codes[t.code] \in CodeRow BY <2>3 DEF CatalogInv, CodesOK
    <3>2. codes[t.code].terms \in TermsType
      BY <3>1, CatalogAssumption DEF CodeRow, TermsType
    <3>3. y.base \in 0..MaxInt BY <2>5 DEF Order
    <3> QED BY <2>6, <3>2, <3>3, DiscountInRange
  <2>8. PICK x : x = [[[y EXCEPT !.discount = off] EXCEPT !.code = t.code] EXCEPT !.earned = t.earned]
    OBVIOUS
  <2>9. OrderOK(x) /\ x.user = y.user
    <3>1. /\ x \in Order
          /\ x.user = y.user /\ x.plan = y.plan /\ x.base = y.base /\ x.discount = off
          /\ x.shown = y.shown /\ x.earned
      <4>1. y.base \in 0..MaxInt /\ off \in 0..MaxInt BY <2>5, <2>7, PricingAssumption DEF Order
      <4>2. t.earned \in BOOLEAN BY <2>2 DEF Task, Idle
      <4> QED BY <2>3, <2>5, <2>8, <4>1, <4>2 DEF Order
    <3>2. x.discount <= x.base BY <2>7, <3>1
    <3> QED BY <2>5, <3>1, <3>2 DEF OrderOK
  <2>10. \/ orders' = [orders EXCEPT ![t.order] = x]
         \/ orders' = [orders EXCEPT ![t.order] = y]
    <3>1. CASE orders' = orders BY <1>1, <2>3, <2>4, <3>1
    <3>2. CASE orders' # orders
      <4>1. orders' = [orders EXCEPT ![t.order].discount = off, ![t.order].code = t.code,
                                     ![t.order].earned = t.earned]
        BY <1>5, <2>1, <2>4, <2>6, <3>2 DEF ApplyDiscount
      <4>2. orders' = [orders EXCEPT ![t.order] = x] BY <2>3, <2>4, <2>8, <4>1
      <4> QED BY <4>2
    <3> QED BY <3>1, <3>2
  <2>11. /\ task' = [task EXCEPT ![w] = Idle]
         /\ UNCHANGED <<plans, lastPlan, buttons, codes, used, spent, services>>
    BY <1>5 DEF ApplyDiscount, Finish, Goto, catalog, discounts
  <2>12. x.user = orders[t.order].user /\ y.user = orders[t.order].user BY <2>4, <2>9
  <2> QED BY <1>2, <2>3, <2>5, <2>9, <2>10, <2>11, <2>12, HandlerSteps
<1> QED BY <1>3, <1>4, <1>5

\* Payment and delivery move the order from status to status.
LEMMA DeliverySteps ==
  ASSUME CatalogInv, NEW w \in Workers,
         (\E o \in DOMAIN orders : Win(w, o)) \/ LoadPlan(w) \/ FailOrder(w)
  PROVE  CatalogInv'
<1>1. \A o \in DOMAIN orders : OrderOK(orders[o]) /\ orders = [orders EXCEPT ![o] = orders[o]]
  BY DEF CatalogInv, SalesOK
<1>2. RowOK(Idle) BY DEF RowOK, Task, Idle
<1>3. UNCHANGED <<plans, lastPlan, buttons, codes, used, spent, services>>
  BY DEF Win, LoadPlan, FailOrder, catalog, discounts
<1>4. ASSUME NEW o \in DOMAIN orders, NEW status \in Statuses, SetStatus(o, status),
             NEW t, task' = [task EXCEPT ![w] = t], RowOK(t)
      PROVE  CatalogInv'
  <2>1. PICK y : y = orders[o] OBVIOUS
  <2>2. PICK x : x = [y EXCEPT !.status = status] OBVIOUS
  <2>3. OrderOK(x) /\ x.user = orders[o].user BY <1>1, <2>1, <2>2, StatusFits
  <2>4. orders' = [orders EXCEPT ![o] = x] BY <1>4, <2>1, <2>2 DEF SetStatus
  <2> QED BY <1>3, <1>4, <2>3, <2>4, HandlerSteps
<1>5. ASSUME NEW o \in DOMAIN orders, Win(w, o) PROVE CatalogInv'
  <2>1. PICK r : r = [pc |-> "load", order |-> o] OBVIOUS
  <2>2. RowOK(r) BY <2>1 DEF RowOK, Task
  <2>3. task' = [task EXCEPT ![w] = r] /\ SetStatus(o, "processing") BY <1>5, <2>1 DEF Win, Goto
  <2> QED BY <1>4, <2>2, <2>3 DEF Statuses
<1>6. CASE FailOrder(w)
  <2>1. task[w].order \in DOMAIN orders BY <1>6, HeldOrder DEF FailOrder, At
  <2>2. task' = [task EXCEPT ![w] = Idle] /\ SetStatus(task[w].order, "failed")
    BY <1>6 DEF FailOrder, Finish, Goto
  <2> QED BY <1>2, <1>4, <2>1, <2>2 DEF Statuses
<1>7. CASE LoadPlan(w)
  <2>1. PICK t : t = task[w] OBVIOUS
  <2>2. t.order \in DOMAIN orders /\ t \in Task /\ t.pc = "load"
    BY <1>7, <2>1, HeldOrder DEF LoadPlan, At
  <2>3. orders[t.order].plan \in Plans BY <1>1, <2>2 DEF OrderOK
  <2>4. PICK r : r = [t EXCEPT !.pc = "record"] OBVIOUS
  <2>5. RowOK(r)
    <3>1. t \in [pc: {"load", "record", "complete"}, order: DOMAIN orders]
      BY <2>2 DEF Task, Idle
    <3>2. r \in Task /\ r.pc = "record" BY <2>4, <3>1 DEF Task
    <3> QED BY <3>2 DEF RowOK
  <2>6. orders' = orders /\ task' = [task EXCEPT ![w] = r]
    BY <1>7, <2>1, <2>3, <2>4 DEF LoadPlan, Goto
  <2>7. PICK x : x = orders[t.order] OBVIOUS
  <2>8. OrderOK(x) /\ x.user = orders[t.order].user /\ orders' = [orders EXCEPT ![t.order] = x]
    BY <1>1, <2>2, <2>6, <2>7
  <2> QED BY <1>3, <2>2, <2>5, <2>6, <2>8, HandlerSteps
<1> QED BY <1>5, <1>6, <1>7

\* The service of a purchase points at the plan of its order.
LEMMA ServiceStep == ASSUME CatalogInv, NEW w \in Workers, CreateService(w) PROVE CatalogInv'
<1>1. UNCHANGED <<plans, lastPlan, buttons, codes, used, spent, orders>>
  BY DEF CreateService, catalog, discounts
<1>2. PlansOK' /\ CodesOK' BY <1>1, PlansStay, CodesStayOK DEF CatalogInv
<1>3. PICK t : t = task[w] OBVIOUS
<1>4. t.order \in DOMAIN orders /\ t \in Task /\ t.pc = "record"
  BY <1>3, HeldOrder DEF CreateService, At
<1>5. PICK x : x = orders[t.order] OBVIOUS
<1>6. x.user \in Users /\ x.plan \in Plans /\ x.plan \in 1..MaxPlans
  BY <1>4, <1>5 DEF CatalogInv, SalesOK, OrderOK, Order
<1>7. PICK row : row = [user |-> x.user, plan |-> x.plan] OBVIOUS
<1>8. services' = Append(services, row) BY <1>3, <1>5, <1>7 DEF CreateService
<1>9. row \in ServiceRow /\ row.plan \in Plans BY <1>6, <1>7 DEF ServiceRow
<1>10. /\ services' \in Seq(ServiceRow)
       /\ \A s \in DOMAIN services' : services'[s] = row \/ (s \in DOMAIN services /\ services'[s] = services[s])
  <2>1. PICK S : S = ServiceRow OBVIOUS
  <2>2. services \in Seq(S) /\ row \in S BY <1>9, <2>1 DEF CatalogInv, SalesOK
  <2>3. PICK old : old = services OBVIOUS
  <2>4. /\ Append(old, row) \in Seq(S)
        /\ \A s \in DOMAIN Append(old, row) :
              Append(old, row)[s] = row \/ (s \in DOMAIN old /\ Append(old, row)[s] = old[s])
    BY <2>2, <2>3
  <2> QED BY <1>8, <2>1, <2>3, <2>4
<1>11. \A s \in DOMAIN services' : services'[s].plan \in Plans BY <1>9, <1>10 DEF CatalogInv, SalesOK
<1>12. SalesOK'
  BY <1>1, <1>10, <1>11
     DEF CatalogInv, SalesOK, OrderOK, Order, ServiceRow, Prices, Plans, Offer, MaxPlans
<1>13. Onward BY <1>1 DEF Onward
<1>14. PICK r : r = [t EXCEPT !.pc = "complete"] OBVIOUS
<1>15. RowOK(r)
  <2>1. t \in [pc: {"load", "record", "complete"}, order: DOMAIN orders] BY <1>4 DEF Task, Idle
  <2>2. r \in Task /\ r.pc = "complete" BY <2>1, <1>14 DEF Task
  <2> QED BY <2>2 DEF RowOK
<1>16. RowOK(r)' BY <1>13, <1>15, RowsStay
<1>17. task' = [task EXCEPT ![w] = r] BY <1>3, <1>14 DEF CreateService, Goto
<1>18. TasksOK' BY <1>13, <1>16, <1>17, TasksMove DEF CatalogInv
<1> QED BY <1>2, <1>12, <1>18 DEF CatalogInv

\* The use of a code is written with the order's completion.
LEMMA CompleteStep == ASSUME CatalogInv, NEW w \in Workers, CompleteOrder(w) PROVE CatalogInv'
<1>1. UNCHANGED <<plans, lastPlan, buttons, services, codes>>
  BY DEF CompleteOrder, catalog, discounts
<1>2. PICK o : o = task[w].order OBVIOUS
<1>3. o \in DOMAIN orders BY <1>2, HeldOrder DEF CompleteOrder, At
<1>4. PICK y : y = orders[o] OBVIOUS
<1>5. OrderOK(y) /\ y \in Order BY <1>3, <1>4 DEF CatalogInv, SalesOK, OrderOK
<1>6. PICK x : x = [y EXCEPT !.status = "completed"] OBVIOUS
<1>7. OrderOK(x) /\ x.user = orders[o].user BY <1>4, <1>5, <1>6, StatusFits DEF Statuses
<1>8. orders' = [orders EXCEPT ![o] = x] BY <1>2, <1>4, <1>6 DEF CompleteOrder, SetStatus
<1>9. /\ SalesOK' /\ DOMAIN orders' = DOMAIN orders
      /\ \A p \in DOMAIN orders : orders'[p].user = orders[p].user
  BY <1>1, <1>3, <1>7, <1>8, OrderMoves DEF CatalogInv
<1>10. CodesOK' /\ spent \subseteq spent'
  <2>1. CASE UNCHANGED <<used, spent>> BY <1>1, <2>1 DEF CatalogInv, CodesOK, CodeRow
  <2>2. CASE ~UNCHANGED <<used, spent>>
    <3>1. y.code # None /\ y.code \in Codes /\ y.user \in Users
      BY <1>2, <1>4, <1>5, <2>2 DEF CompleteOrder, Order, discounts
    <3>2. /\ used' = [used EXCEPT ![y.code] = @ + 1]
          /\ spent' = spent \cup {[code |-> y.code, user |-> y.user]}
      BY <1>2, <1>4, <2>2 DEF CompleteOrder, discounts
    <3>3. used' \in [Codes -> Nat] BY <3>1, <3>2 DEF CatalogInv, CodesOK
    <3>4. spent' \subseteq [code: Codes, user: Users] BY <3>1, <3>2 DEF CatalogInv, CodesOK
    <3> QED BY <1>1, <3>2, <3>3, <3>4 DEF CatalogInv, CodesOK, CodeRow
  <2> QED BY <2>1, <2>2
<1>11. Onward BY <1>1, <1>9, <1>10 DEF Onward
<1>12. RowOK(Idle)' BY DEF RowOK, Task, Idle
<1>13. task' = [task EXCEPT ![w] = Idle] BY DEF CompleteOrder, Finish, Goto
<1>14. TasksOK' BY <1>11, <1>12, <1>13, TasksMove DEF CatalogInv
<1>15. PlansOK' BY <1>1, PlansStay DEF CatalogInv
<1> QED BY <1>9, <1>10, <1>14, <1>15 DEF CatalogInv

-----------------------------------------------------------------------------
(* The theorems.                                                           *)

\* The invariant holds of empty tables.
LEMMA CatalogInitInv == Init => CatalogInv
<1> SUFFICES ASSUME Init PROVE CatalogInv
  OBVIOUS
<1>1. MaxPlans \in Nat BY CatalogAssumption DEF MaxPlans
<1>2. Plans = {} BY DEF Init, Plans
<1>3. PlansOK BY <1>1, <1>2 DEF Init, PlansOK
<1>4. CodesOK BY DEF Init, CodesOK
<1>5. SalesOK BY DEF Init, SalesOK
<1>6. RowOK(Idle) BY DEF RowOK, Task, Idle
<1>7. TasksOK BY <1>6 DEF Init, TasksOK, RowOK
<1> QED BY <1>3, <1>4, <1>5, <1>7 DEF CatalogInv

\* Every step keeps the invariant, one lemma for each group of actions.
LEMMA CatalogNextInv == CatalogInv /\ [Next]_catalogVars => CatalogInv'
<1> SUFFICES ASSUME CatalogInv, [Next]_catalogVars PROVE CatalogInv'
  OBVIOUS
<1>1. CASE Manage BY <1>1, PlanSteps, CodeSteps DEF Manage
<1>2. CASE \E c \in Codes : TimePasses(c) BY <1>2, CodeSteps
<1>3. ASSUME NEW w \in Workers, Buy(w) PROVE CatalogInv'
  BY <1>3, OpeningSteps, CodeTypedSteps, DeliverySteps, ServiceStep, CompleteStep DEF Buy
<1>4. CASE UNCHANGED catalogVars
  <2>1. UNCHANGED <<plans, lastPlan, buttons, codes, used, spent, orders, services, task>>
    BY <1>4 DEF catalogVars, catalog, discounts, sales
  <2>2. PlansOK' /\ CodesOK' /\ SalesOK'
    BY <2>1, PlansStay, CodesStayOK, SalesStay DEF CatalogInv
  <2>3. Onward BY <2>1 DEF Onward
  <2>4. TasksOK' BY <2>1, <2>3, TasksIdle DEF CatalogInv
  <2> QED BY <2>2, <2>4 DEF CatalogInv
<1> QED BY <1>1, <1>2, <1>3, <1>4 DEF Next

\* The invariant gives the properties.
LEMMA CatalogInvGives ==
  CatalogInv => CatalogTypeOK /\ NoOrphans /\ SoldAsShown /\ CodesWereGood
<1> SUFFICES ASSUME CatalogInv PROVE CatalogTypeOK /\ NoOrphans /\ SoldAsShown /\ CodesWereGood
  OBVIOUS
<1>1. \A o \in DOMAIN orders : OrderOK(orders[o]) BY DEF CatalogInv, SalesOK
<1>2. NoOrphans BY <1>1 DEF CatalogInv, SalesOK, OrderOK, NoOrphans
<1>3. SoldAsShown BY <1>1 DEF OrderOK, SoldAsShown, Prices
<1>4. CodesWereGood BY <1>1 DEF OrderOK, CodesWereGood
<1>5. CatalogTypeOK
  BY <1>1 DEF CatalogInv, PlansOK, CodesOK, SalesOK, TasksOK, OrderOK, PlanRow, CodeRow, ServiceRow,
              CatalogTypeOK
<1> QED BY <1>2, <1>3, <1>4, <1>5

\* The variables keep their types, and discounts their bounds.
THEOREM CatalogTypeCorrect == Spec => []CatalogTypeOK
<1> QED BY CatalogInitInv, CatalogNextInv, CatalogInvGives, PTL DEF Spec

\* No order and no service loses its plan, whatever admins delete while
\* customers buy (DeletePlan, CreateOrder, CreateService).
THEOREM PlansOutliveTheirSales == Spec => []NoOrphans
<1> QED BY CatalogInitInv, CatalogNextInv, CatalogInvGives, PTL DEF Spec

\* An old button never sells another plan or another price (CreatePlan,
\* StartPurchase).
THEOREM ButtonsSellWhatTheyShow == Spec => []SoldAsShown
<1> QED BY CatalogInitInv, CatalogNextInv, CatalogInvGives, PTL DEF Spec

\* A discount is given by a code that was good for the customer (ApplyCode).
THEOREM DiscountsAreEarned == Spec => []CodesWereGood
<1> QED BY CatalogInitInv, CatalogNextInv, CatalogInvGives, PTL DEF Spec

\* A code stays what it is and keeps count of its uses (CreateDiscount).
THEOREM CodesAreKept == Spec => CodesStay
<1> DEFINE A == \A c \in Codes : codes[c] # None =>
                  /\ codes'[c] # None
                  /\ codes'[c].terms = codes[c].terms
                  /\ codes[c].past => codes'[c].past
                  /\ used'[c] >= used[c]
<1>1. ASSUME CatalogInv, [Next]_catalogVars PROVE [A]_catalogVars
  <2>0. None \notin CodeRow BY CatalogAssumption DEF CodeRow
  <2>1. codes \in [Codes -> CodeRow \cup {None}] /\ used \in [Codes -> Nat]
    BY <1>1 DEF CatalogInv, CodesOK
  <2>2. \A c \in Codes : used[c] \in Nat BY <2>1
  <2>3. CASE UNCHANGED <<codes, used>> BY <2>2, <2>3
  <2>4. ASSUME NEW w \in Workers, CompleteOrder(w) PROVE A
    <3>1. codes' = codes /\ \/ used' = used
                            \/ used' = [used EXCEPT ![orders[task[w].order].code] = @ + 1]
      BY <2>4 DEF CompleteOrder, discounts
    <3> QED BY <2>1, <2>2, <3>1
  <2>5. ASSUME NEW w \in Workers, NEW terms \in CodeTerms, NEW past \in BOOLEAN,
               CreateDiscount(w, terms, past)
        PROVE  A
    <3>1. used' = used BY <2>5 DEF CreateDiscount
    <3>2. \A c \in Codes : codes[c] # None => codes'[c] = codes[c]
      BY <2>1, <2>5 DEF CreateDiscount
    <3> QED BY <2>2, <3>1, <3>2
  <2>6. ASSUME NEW c \in Codes, SetDiscountActive(c) \/ TimePasses(c) PROVE A
    <3>1. codes[c] \in CodeRow /\ used' = used
      BY <2>1, <2>6 DEF SetDiscountActive, TimePasses
    <3>2. PICK r : /\ codes' = [codes EXCEPT ![c] = r]
                   /\ r \in CodeRow /\ r.terms = codes[c].terms /\ (codes[c].past => r.past)
      <4>0. PICK x : x = codes[c] OBVIOUS
      <4>1. CASE SetDiscountActive(c)
        <5>1. PICK r : r = [x EXCEPT !.active = ~@] OBVIOUS
        <5>2. r.terms = x.terms /\ r.past = x.past /\ r \in CodeRow
          BY <3>1, <4>0, <5>1 DEF CodeRow
        <5>3. codes' = [codes EXCEPT ![c] = r]
          BY <4>0, <4>1, <5>1 DEF SetDiscountActive
        <5> QED BY <4>0, <5>2, <5>3
      <4>2. CASE TimePasses(c)
        <5>1. PICK r : r = [x EXCEPT !.past = TRUE] OBVIOUS
        <5>2. r.terms = x.terms /\ r.past = TRUE /\ r \in CodeRow
          BY <3>1, <4>0, <5>1 DEF CodeRow
        <5>3. codes' = [codes EXCEPT ![c] = r]
          BY <4>0, <4>2, <5>1 DEF TimePasses
        <5> QED BY <4>0, <5>2, <5>3
      <4> QED BY <2>6, <4>1, <4>2
    <3>3. \A d \in Codes : d # c => codes'[d] = codes[d] BY <2>1, <3>2
    <3>4. codes'[c] = r BY <2>1, <3>2
    <3> QED BY <2>0, <2>2, <3>1, <3>2, <3>3, <3>4
  <2>7. CASE UNCHANGED catalogVars BY <2>7
  <2> QED
    BY <1>1, <2>3, <2>4, <2>5, <2>6, <2>7
       DEF Next, Manage, Buy, CreatePlan, DeletePlan, SetPlanActive, TypeNewCode, StartPurchase,
           CreateOrder, GetDiscount, DiscountUsedBy, ApplyDiscount, Win, LoadPlan, FailOrder,
           CreateService, discounts
<1>2. CatalogInv /\ [Next]_catalogVars => [A]_catalogVars BY <1>1
<1> QED BY <1>2, CatalogInitInv, CatalogNextInv, PTL DEF Spec, CodesStay

=============================================================================

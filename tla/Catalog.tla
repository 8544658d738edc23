------------------------------ MODULE Catalog -------------------------------
(***************************************************************************)
(* Plans, services, discount codes and agents: internal/store/catalog.go,  *)
(* the admin panel's buttons and forms that change them                    *)
(* (internal/bot/admin.go) and the sale that reads them while they change  *)
(* (StartPurchase, ApplyCode and fulfil of shop.go).  Handlers             *)
(* are workers as in Shop.tla: between two store calls of one, others run. *)
(*                                                                         *)
(* A sale here is a purchase: a renewal reads its plan in the same places  *)
(* and records no service.  A draft stands for both states that are open.  *)
(* How an order is paid is in Shop.tla: here a draft is simply won.        *)
(***************************************************************************)
EXTENDS Integers, Sequences, FiniteSets, Pricing

CONSTANTS
  Users, Workers,
  Codes,        \* the words an admin may make a code of
  Offers,       \* what the plans cost that admins make, in order: [price, agent]
  CodeTerms,    \* what a code may be worth: [percent, amount, max]
  MaxOrders,    \* bound: orders ever created
  None          \* no code, no plan, no row

ASSUME CatalogAssumption ==
  /\ Offers \in Seq([price: 0..MaxInt, agent: 0..MaxInt])
  /\ CodeTerms \subseteq [percent: 0..100, amount: 0..MaxInt, max: 0..MaxInt]
  /\ MaxOrders \in Nat
  /\ None \notin Codes
  /\ None \notin [offer: {Offers[p] : p \in DOMAIN Offers}, active: BOOLEAN]
  /\ None \notin [terms: CodeTerms, active: BOOLEAN, past: BOOLEAN]

VARIABLES
  plans,        \* plans[id]: [offer, active], or None; ids 1..MaxPlans
  lastPlan,     \* the AUTOINCREMENT counter of plans
  codes,        \* codes[c]: [terms, active, past], or None; past: expires_at is over
  used,         \* used[c]
  spent,        \* discount_uses: [code, user]
  orders,       \* orders[id], ids from 1
  services,     \* services[id]: [user, plan]
  buttons,      \* plans in the lists customers have been shown: [plan, offer]
  task          \* task[w]: what worker w does next, and its locals

catalog == <<plans, lastPlan>>
discounts == <<codes, used, spent>>
sales == <<orders, services>>
catalogVars == <<catalog, discounts, sales, buttons, task>>

\* Bound: plans ever created.
MaxPlans == Len(Offers)

Offer == {Offers[p] : p \in 1..MaxPlans}

Idle == [pc |-> "idle"]

At(w, pc) == task[w].pc = pc

Goto(w, t) == task' = [task EXCEPT ![w] = t]

Finish(w) == Goto(w, Idle)

Plans == {p \in 1..MaxPlans : plans[p] # None}

Init ==
  /\ plans = [p \in 1..MaxPlans |-> None] /\ lastPlan = 0
  /\ codes = [c \in Codes |-> None] /\ used = [c \in Codes |-> 0] /\ spent = {}
  /\ orders = << >> /\ services = << >>
  /\ buttons = {}
  /\ task = [w \in Workers |-> Idle]

-----------------------------------------------------------------------------
(* The admin panel: plans.                                                 *)

\* Mutant: without AUTOINCREMENT the id after the largest one in the table.
NextPlanInTable ==
  1 + Cardinality({p \in 1..MaxPlans : \E q \in Plans : p <= q})

NextPlan == lastPlan + 1

\* A new plan is active and is in every list (ListPlans) from now on; the
\* buttons of an old list stay in the chat.
CreatePlan ==
  /\ lastPlan < MaxPlans
  /\ LET offer == Offers[lastPlan + 1]
     IN /\ plans' = [plans EXCEPT ![NextPlan] = [offer |-> offer, active |-> TRUE]]
        /\ buttons' = buttons \cup {[plan |-> NextPlan, offer |-> offer]}
  /\ lastPlan' = lastPlan + 1
  /\ UNCHANGED <<discounts, sales, task>>

\* The button reads the plan and then writes the opposite of what it read: that
\* is either what is there by then or the other.  UPDATE finds no row of a plan
\* that was deleted meanwhile.
SetPlanActive(p) ==
  /\ p \in Plans
  /\ plans' = [plans EXCEPT ![p].active = ~@]
  /\ UNCHANGED <<lastPlan, discounts, sales, buttons, task>>

Ordered(p) == \E o \in DOMAIN orders : orders[o].plan = p

Serving(p) == \E s \in DOMAIN services : services[s].plan = p

InUse(p) == Ordered(p) \/ Serving(p)

\* The count and the delete are one transaction.
DeletePlan(p) ==
  /\ p \in Plans
  /\ plans' = IF InUse(p) THEN [plans EXCEPT ![p].active = FALSE]
                          ELSE [plans EXCEPT ![p] = None]
  /\ UNCHANGED <<lastPlan, discounts, sales, buttons, task>>

-----------------------------------------------------------------------------
(* The admin panel: discount codes and agents.                             *)

\* The form refuses a word that is a code; it ends with CreateDiscount.
TypeNewCode(w, c) ==
  /\ At(w, "idle") /\ codes[c] = None
  /\ Goto(w, [pc |-> "newcode", code |-> c])
  /\ UNCHANGED <<catalog, discounts, sales, buttons>>

\* Mutant: INSERT OR REPLACE.
ReplaceDiscount(w, terms, past) ==
  /\ At(w, "newcode")
  /\ LET c == task[w].code
     IN /\ codes' = [codes EXCEPT ![c] = [terms |-> terms, active |-> TRUE,
                                          past |-> past]]
        /\ used' = [used EXCEPT ![c] = 0]
  /\ Finish(w)
  /\ UNCHANGED <<catalog, spent, sales, buttons>>

\* Another admin may have made the code since: the primary key refuses it.  For
\* more days than time.Duration can hold the end may have passed already.
CreateDiscount(w, terms, past) ==
  /\ At(w, "newcode")
  /\ LET c == task[w].code
     IN codes' = IF codes[c] # None THEN codes
                 ELSE [codes EXCEPT ![c] = [terms |-> terms, active |-> TRUE,
                                            past |-> past]]
  /\ Finish(w)
  /\ UNCHANGED <<catalog, used, spent, sales, buttons>>

\* Like the button of a plan.
SetDiscountActive(c) ==
  /\ codes[c] # None
  /\ codes' = [codes EXCEPT ![c].active = ~@]
  /\ UNCHANGED <<catalog, used, spent, sales, buttons, task>>

\* The button for agents writes the opposite of what it read as well, at any
\* time.  is_agent is read once in a sale, so it is either there.
IsAgent == BOOLEAN

-----------------------------------------------------------------------------
(* A customer buys.                                                        *)

PriceFor(offer, agent) == IF agent /\ offer.agent > 0 THEN offer.agent ELSE offer.price

\* A tap on a button: the plan is read, then what the customer has open is
\* cancelled.
StartPurchase(w, u, agent, b) ==
  /\ At(w, "idle")
  /\ b.plan \in Plans /\ plans[b.plan].active
  /\ orders' = [o \in DOMAIN orders |->
       IF orders[o].user = u /\ orders[o].status = "draft"
       THEN [orders[o] EXCEPT !.status = "cancelled"] ELSE orders[o]]
  /\ Goto(w, [pc |-> "create", user |-> u, button |-> b,
              base |-> PriceFor(plans[b.plan].offer, agent)])
  /\ UNCHANGED <<catalog, discounts, services, buttons>>

\* Mutant: foreign keys are not enforced.
Anything(p) == TRUE

\* A foreign key: a row of plans can be referred to.
Referable(p) == p \in Plans

\* shown is history: the offer on the button that was tapped.
CreateOrder(w) ==
  /\ At(w, "create")
  /\ LET t == task[w]
         p == t.button.plan
     IN IF Referable(p) /\ Len(orders) < MaxOrders
        THEN orders' = Append(orders,
               [user |-> t.user, plan |-> p, base |-> t.base, discount |-> 0, code |-> None,
                status |-> "draft", shown |-> t.button.offer, earned |-> TRUE])
        ELSE orders' = orders
  /\ Finish(w)
  /\ UNCHANGED <<catalog, discounts, services, buttons>>

-----------------------------------------------------------------------------
(* ApplyCode.                                                              *)

Expired(c) == codes[c].past

UsedUp(c) == codes[c].terms.max > 0 /\ used[c] >= codes[c].terms.max

UsedBy(c, u) == [code |-> c, user |-> u] \in spent

\* What a code has to be for a customer, all at one moment.
Good(c, u) ==
  codes[c] # None /\ codes[c].active /\ ~Expired(c) /\ ~UsedUp(c) /\ ~UsedBy(c, u)

\* The order is read before: it stays what it was, or is no draft any more when
\* the discount is written.  earned is history: the code was good when it was read.
GetDiscount(w, o, c) ==
  /\ At(w, "idle")
  /\ orders[o].status = "draft"
  /\ codes[c] # None /\ codes[c].active /\ ~Expired(c) /\ ~UsedUp(c)
  /\ Goto(w, [pc |-> "once", order |-> o, code |-> c, earned |-> Good(c, orders[o].user)])
  /\ UNCHANGED <<catalog, discounts, sales, buttons>>

\* Mutant: the customer's earlier use is looked up for nothing.
DiscountUsedByNobody(w) ==
  /\ At(w, "once")
  /\ Goto(w, [task[w] EXCEPT !.pc = "apply"])
  /\ UNCHANGED <<catalog, discounts, sales, buttons>>

DiscountUsedBy(w) ==
  /\ At(w, "once")
  /\ Goto(w, IF UsedBy(task[w].code, orders[task[w].order].user) THEN Idle
             ELSE [task[w] EXCEPT !.pc = "apply"])
  /\ UNCHANGED <<catalog, discounts, sales, buttons>>

\* The terms in the copy read before are those in the table (CodesStay).
ApplyDiscount(w) ==
  /\ At(w, "apply")
  /\ LET t == task[w]
         off == Apply(codes[t.code].terms, orders[t.order].base)
     IN orders' = IF orders[t.order].status = "draft" /\ off <= orders[t.order].base
                  THEN [orders EXCEPT ![t.order].discount = off, ![t.order].code = t.code,
                                      ![t.order].earned = t.earned]
                  ELSE orders
  /\ Finish(w)
  /\ UNCHANGED <<catalog, discounts, services, buttons>>

-----------------------------------------------------------------------------
(* Payment and delivery.                                                   *)

SetStatus(o, status) == orders' = [orders EXCEPT ![o].status = status]

Win(w, o) ==
  /\ At(w, "idle") /\ orders[o].status = "draft"
  /\ SetStatus(o, "processing")
  /\ Goto(w, [pc |-> "load", order |-> o])
  /\ UNCHANGED <<catalog, discounts, services, buttons>>

\* fulfil reads the plan again; without it the delivery fails.
LoadPlan(w) ==
  /\ At(w, "load")
  /\ LET o == task[w].order
     IN IF orders[o].plan \in Plans
        THEN orders' = orders /\ Goto(w, [task[w] EXCEPT !.pc = "record"])
        ELSE SetStatus(o, "failed") /\ Finish(w)
  /\ UNCHANGED <<catalog, discounts, services, buttons>>

\* The panel refuses, or the store refuses the row of the new service.
FailOrder(w) ==
  /\ At(w, "record")
  /\ SetStatus(task[w].order, "failed")
  /\ Finish(w)
  /\ UNCHANGED <<catalog, discounts, services, buttons>>

CreateService(w) ==
  /\ At(w, "record")
  /\ LET x == orders[task[w].order]
     IN /\ Referable(x.plan)
        /\ services' = Append(services, [user |-> x.user, plan |-> x.plan])
  /\ Goto(w, [task[w] EXCEPT !.pc = "complete"])
  /\ UNCHANGED <<catalog, discounts, orders, buttons>>

\* INSERT OR IGNORE: the count goes up with the row.
CompleteOrder(w) ==
  /\ At(w, "complete")
  /\ LET o == task[w].order
         x == orders[o]
         use == [code |-> x.code, user |-> x.user]
     IN /\ SetStatus(o, "completed")
        /\ IF x.code = None \/ use \in spent
           THEN UNCHANGED discounts
           ELSE /\ spent' = spent \cup {use}
                /\ used' = [used EXCEPT ![x.code] = @ + 1]
                /\ codes' = codes
  /\ Finish(w)
  /\ UNCHANGED <<catalog, services, buttons>>

\* A code without an end, or with a late one, is one this never happens to.
TimePasses(c) ==
  /\ codes[c] # None /\ ~codes[c].past
  /\ codes' = [codes EXCEPT ![c].past = TRUE]
  /\ UNCHANGED <<catalog, used, spent, sales, buttons, task>>

-----------------------------------------------------------------------------
Manage ==
  \/ CreatePlan
  \/ \E p \in Plans : DeletePlan(p) \/ SetPlanActive(p)
  \/ \E c \in Codes : SetDiscountActive(c)
  \/ \E w \in Workers, c \in Codes : TypeNewCode(w, c)
  \/ \E w \in Workers, terms \in CodeTerms, past \in BOOLEAN : CreateDiscount(w, terms, past)

Buy(w) ==
  \/ \E u \in Users, agent \in IsAgent, b \in buttons : StartPurchase(w, u, agent, b)
  \/ \E o \in DOMAIN orders : Win(w, o) \/ \E c \in Codes : GetDiscount(w, o, c)
  \/ CreateOrder(w) \/ DiscountUsedBy(w) \/ ApplyDiscount(w)
  \/ LoadPlan(w) \/ FailOrder(w) \/ CreateService(w) \/ CompleteOrder(w)

Next ==
  \/ Manage
  \/ \E w \in Workers : Buy(w)
  \/ \E c \in Codes : TimePasses(c)

Spec == Init /\ [][Next]_catalogVars

-----------------------------------------------------------------------------
Order == [user: Users, plan: 1..MaxPlans, base: 0..MaxInt, discount: 0..MaxInt,
          code: Codes \cup {None}, shown: Offer, earned: BOOLEAN,
          status: {"draft", "processing", "completed", "failed", "cancelled"}]

Task ==
  {Idle}
  \cup [pc: {"newcode"}, code: Codes]
  \cup [pc: {"create"}, user: Users, button: buttons, base: 0..MaxInt]
  \cup [pc: {"once", "apply"}, order: DOMAIN orders, code: Codes, earned: BOOLEAN]
  \cup [pc: {"load", "record", "complete"}, order: DOMAIN orders]

\* The variables have their types, and no discount is more than the price or
\* less than nothing, also when price times percentage does not fit an int64.
CatalogTypeOK ==
  /\ plans \in [1..MaxPlans -> [offer: Offer, active: BOOLEAN] \cup {None}]
  /\ lastPlan \in 0..MaxPlans
  /\ codes \in [Codes -> [terms: CodeTerms, active: BOOLEAN, past: BOOLEAN] \cup {None}]
  /\ used \in [Codes -> Nat]
  /\ spent \subseteq [code: Codes, user: Users]
  /\ orders \in Seq(Order)
  /\ \A o \in DOMAIN orders : orders[o].discount <= orders[o].base
  /\ services \in Seq([user: Users, plan: 1..MaxPlans])
  /\ buttons \subseteq [plan: 1..MaxPlans, offer: Offer]
  /\ task \in [Workers -> Task]

\* "deleting it would orphan the orders and services that point at it"
\* (catalog.go): no order and no service ever points at a plan that is gone,
\* though a plan may be deleted between a sale's read of it and its order.
NoOrphans ==
  /\ \A o \in DOMAIN orders : orders[o].plan \in Plans
  /\ \A s \in DOMAIN services : services[s].plan \in Plans

\* A customer who taps an old button buys what the button showed, at one of its
\* prices, whatever was deleted and created since: and nothing is free unless
\* the plan is.
SoldAsShown ==
  \A o \in DOMAIN orders :
    /\ orders[o].base \in {orders[o].shown.price} \cup ({orders[o].shown.agent} \ {0})
    /\ plans[orders[o].plan] # None => plans[orders[o].plan].offer = orders[o].shown

\* Every discount was given by a code that was active, unexpired, under its
\* limit and new to the customer, all at one moment of the handler, although it
\* reads these one after another while admins switch codes and orders complete.
CodesWereGood == \A o \in DOMAIN orders : orders[o].earned

\* "Discount codes - percent or fixed amount, with a use limit" (README.md:21):
\* no more customers than the limit says get a discount of a code.  It is
\* compared when the code is typed and not when it is spent.
LimitsHold ==
  \A c \in Codes :
    codes[c] # None /\ codes[c].terms.max > 0 => used[c] <= codes[c].terms.max

\* A code keeps its terms and its end, and its uses are never forgotten, also
\* when two admins make the same one at once.
CodesStay ==
  [][\A c \in Codes : codes[c] # None =>
       /\ codes'[c] # None
       /\ codes'[c].terms = codes[c].terms
       /\ codes[c].past => codes'[c].past
       /\ used'[c] >= used[c]]_catalogVars

=============================================================================

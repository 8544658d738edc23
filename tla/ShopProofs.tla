----------------------------- MODULE ShopProofs -----------------------------
(***************************************************************************)
(* Proofs about Shop: for any number of handlers, customers, admins, names *)
(* and crashes, any faults and any interleaving, an order is delivered     *)
(* once and by one handler, every paid order is seen to, and the shop      *)
(* keeps to what Orders allows, so that what is proved of Orders holds of  *)
(* the shop.  Last: what it takes for a customer to have two open orders.  *)
(***************************************************************************)
EXTENDS Shop, OrdersProofs

-----------------------------------------------------------------------------
(* The invariant.                                                          *)

Owns(u, s) == s \in DOMAIN services /\ services[s].user = u

Granted(o) == \E i \in DOMAIN grants : grants[i].order = o

Delivered(o) ==
  \E i \in DOMAIN grants, s \in DOMAIN services :
    /\ grants[i] = [order |-> o, name |-> services[s].name]
    /\ services[s].user = orders[o].user
    /\ orders[o].kind = "renew" => s = orders[o].service

\* Faults that make a failed delivery look like one that never happened.
Honest == "lost" \notin Faults /\ "store" \notin Faults

\* A renewal that may have been refused after it was carried out.
MaybeCutShort(o) == "refused" \in Faults /\ orders[o].kind = "renew"

Holding == {"card", "limit", "once", "apply", "reward"} \cup Delivering

\* What a handler may rely on, by the call it makes next.
Stands(t) ==
  /\ t.pc = "create" => /\ t.base \in Amounts
                        /\ (t.kind = "renew") <=> (t.service > 0)
                        /\ t.kind = "renew" => Owns(t.user, t.service)
  /\ t.pc \in Holding => t.order \in DOMAIN orders
  /\ t.pc \in {"limit", "once", "apply"} => orders[t.order].kind # "topup"
  /\ t.pc \in Delivering => orders[t.order].status = "processing"
  /\ t.pc \in {"load", "topup", "account", "extend"} => ~Granted(t.order)
  /\ t.pc = "topup" => orders[t.order].kind = "topup"
  /\ t.pc \in {"account", "record"} => orders[t.order].kind = "purchase"
  /\ t.pc = "extend" => orders[t.order].kind = "renew"
  /\ t.pc = "record" => \E i \in DOMAIN grants : grants[i] = [order |-> t.order, name |-> t.name]
  /\ t.pc = "complete" => orders[t.order].kind # "topup" /\ Delivered(t.order)
  /\ t.pc = "fail" /\ Honest => ~Granted(t.order) \/ MaybeCutShort(t.order)
  /\ t.pc = "reward" => orders[t.order].status = "completed" /\ orders[t.order].kind # "topup"

Service == [user: Users, name: Names]
Account == [order: Nat, name: Names]

ProcessOK ==
  /\ mode \in {"down", "starting", "up"}
  /\ stuck \in SUBSET DOMAIN orders
  /\ crashes \in 0..MaxCrashes
  /\ mode # "up" => crashes > 0 /\ \A w \in Workers : task[w] = Idle

GrantsOK ==
  /\ DeliveredOnce
  /\ \A i \in DOMAIN grants : grants[i].order \in DOMAIN orders

RenewalsOwned ==
  \A o \in DOMAIN orders : orders[o].kind = "renew" => Owns(orders[o].user, orders[o].service)

ShopInv ==
  /\ TypeOK
  /\ services \in Seq(Service) /\ grants \in Seq(Account)
  /\ task \in [Workers -> Task]
  /\ ProcessOK
  /\ Len(orders) + Cardinality(Creating) <= MaxOrders
  /\ RenewalsOwned
  /\ \A w \in Workers : Stands(task[w])
  /\ SingleWorker
  /\ GrantsOK
  /\ CompletedIsDelivered
  /\ FailedUndelivered

-----------------------------------------------------------------------------
(* What a step leaves as it was.                                           *)

Won == {"processing", "completed", "failed"}

\* Of the orders that were paid, or are now, only x has changed its status.
Calm(x) ==
  /\ \A o \in DOMAIN orders :
       /\ o \in DOMAIN orders'
       /\ orders'[o].user = orders[o].user /\ orders'[o].kind = orders[o].kind
       /\ orders'[o].service = orders[o].service
       /\ orders[o].status \in Terminal => orders'[o].status = orders[o].status
       /\ orders[o].status \in Won => orders'[o].status \in Won
       /\ o # x /\ (orders[o].status \in Won \/ orders'[o].status \in Won)
          => orders'[o].status = orders[o].status
  /\ \A o \in DOMAIN orders' \ DOMAIN orders : orders'[o].status = "draft"

\* The panel and the services table only grow, and the panel by x alone.
Grows(x) ==
  /\ services' \in Seq(Service) /\ grants' \in Seq(Account)
  /\ \A s \in DOMAIN services : s \in DOMAIN services' /\ services'[s] = services[s]
  /\ \A i \in DOMAIN grants : i \in DOMAIN grants' /\ grants'[i] = grants[i]
  /\ \A i \in DOMAIN grants' \ DOMAIN grants : grants'[i].order = x

\* Tables that grow keep what was true of their rows.
LEMMA StaysTrue ==
  ASSUME NEW x, Calm(x), Grows(x)
  PROVE  /\ \A u, s : Owns(u, s) => Owns(u, s)'
         /\ \A o : o # x => (Granted(o)' <=> Granted(o))
         /\ \A o : Granted(o) => Granted(o)'
         /\ \A o \in DOMAIN orders : Delivered(o) => Delivered(o)'
<1>1. \A u, s : Owns(u, s) => Owns(u, s)'
  BY DEF Grows, Owns
<1>2. \A o : o # x => (Granted(o)' <=> Granted(o))
  BY DEF Grows, Granted
<1>3. \A o : Granted(o) => Granted(o)'
  BY DEF Grows, Granted
<1>4. ASSUME NEW o \in DOMAIN orders, Delivered(o) PROVE Delivered(o)'
  <2>1. PICK i \in DOMAIN grants, s \in DOMAIN services :
          /\ grants[i] = [order |-> o, name |-> services[s].name]
          /\ services[s].user = orders[o].user
          /\ orders[o].kind = "renew" => s = orders[o].service
    BY <1>4 DEF Delivered
  <2>2. i \in DOMAIN grants' /\ s \in DOMAIN services' /\ grants'[i] = grants[i] /\ services'[s] = services[s]
    BY DEF Grows
  <2>3. orders'[o].user = orders[o].user /\ orders'[o].kind = orders[o].kind
        /\ orders'[o].service = orders[o].service
    BY DEF Calm
  <2> QED
    BY <2>1, <2>2, <2>3 DEF Delivered
<1> QED
  BY <1>1, <1>2, <1>3, <1>4

\* A handler that does not move, and does not hold x, stands where it stood.
LEMMA OthersStand ==
  ASSUME NEW x, Calm(x), Grows(x), NEW t, Stands(t), t.pc \in Delivering => t.order # x
  PROVE  Stands(t)'
<1>1. /\ \A u, s : Owns(u, s) => Owns(u, s)'
      /\ \A o : o # x => (Granted(o)' <=> Granted(o))
      /\ \A o \in DOMAIN orders : Delivered(o) => Delivered(o)'
  BY StaysTrue
<1>2. t.pc \in Holding => t.order \in DOMAIN orders /\ t.order \in DOMAIN orders'
  BY DEF Stands, Calm
<1>3. t.pc \in Holding => /\ orders'[t.order].kind = orders[t.order].kind
                          /\ orders[t.order].status = "completed"
                             => orders'[t.order].status = "completed"
  BY <1>2 DEF Calm, Terminal
<1>4. t.pc \in Delivering => orders'[t.order].status = "processing"
  BY <1>2 DEF Calm, Won, Stands, Holding
<1>5. t.pc = "record" => \E i \in DOMAIN grants' : grants'[i] = [order |-> t.order, name |-> t.name]
  BY DEF Stands, Grows
<1>6. t.pc \in {"load", "topup", "account", "extend", "complete", "record", "fail"} => t.pc \in Delivering
  BY DEF Delivering
<1>7. t.pc \in {"limit", "once", "apply", "reward"} \cup Delivering => t.pc \in Holding
  BY DEF Holding
<1> QED
  BY <1>1, <1>2, <1>3, <1>4, <1>5, <1>6, <1>7 DEF Stands, MaybeCutShort

\* What a step has to show for the invariant to stay: only the handlers in W
\* move, only x is won, delivered or closed, and each of that rightly.
LEMMA Moves ==
  ASSUME ShopInv, NEW W \in SUBSET Workers, NEW x,
         [Next]_vars, Calm(x), Grows(x),
         task' \in [Workers -> Task],
         \A v \in Workers \ W : task'[v] = task[v],
         \A v \in Workers \ W : task[v].pc \in Delivering => task[v].order # x,
         \A v \in W : Stands(task[v])',
         \A v \in W : task'[v].pc \in Delivering => task'[v].order = x /\ W = {v},
         ProcessOK', crashes' = 0 => crashes = 0,
         Len(orders') + Cardinality(Creating') <= MaxOrders,
         RenewalsOwned',
         \/ UNCHANGED grants
         \/ /\ ~Granted(x) /\ x \in DOMAIN orders
            /\ orders'[x].kind # "topup" /\ orders'[x].status = "processing"
            /\ \A i, j \in DOMAIN grants' \ DOMAIN grants : i = j,
         x \in DOMAIN orders /\ orders'[x].status = "completed" /\ orders'[x].kind # "topup"
           => orders[x].status = "completed" \/ Delivered(x)',
         x \in DOMAIN orders /\ orders'[x].status = "failed" /\ Honest /\ crashes' = 0
           => orders[x].status = "failed" \/ MaybeCutShort(x) \/ (UNCHANGED grants /\ ~Granted(x))
  PROVE  ShopInv'
<1>1. TypeOK'
  BY StepKeepsTypes DEF ShopInv
<1>2. \A w \in Workers : Stands(task[w])'
  <2>1. ASSUME NEW v \in Workers \ W PROVE Stands(task[v])'
    <3>1. PICK t : t = task[v]
      OBVIOUS
    <3>2. task'[v] = t /\ Stands(t) /\ (t.pc \in Delivering => t.order # x)
      BY <3>1 DEF ShopInv
    <3>3. Stands(t)'
      BY <3>2, OthersStand
    <3> QED
      BY <3>2, <3>3
  <2> QED
    BY <2>1
<1>3. SingleWorker'
  <2>1. \A v \in Workers : task'[v].pc \in Delivering => orders'[task'[v].order].status = "processing"
    BY <1>2 DEF Stands
  <2>2. ASSUME NEW v \in Workers, NEW w \in Workers, task'[v].pc \in Delivering,
               task'[w].pc \in Delivering, task'[w].order = task'[v].order
        PROVE  w = v
    <3>1. CASE v \in W /\ w \in W
      BY <2>2, <3>1
    <3>2. CASE v \notin W /\ w \notin W
      BY <2>2, <3>2 DEF ShopInv, SingleWorker
    <3>3. CASE v \in W /\ w \notin W
      BY <2>2, <3>3
    <3>4. CASE v \notin W /\ w \in W
      BY <2>2, <3>4
    <3> QED
      BY <3>1, <3>2, <3>3, <3>4
  <2> QED
    BY <2>1, <2>2 DEF SingleWorker
<1>4. GrantsOK'
  <2>1. ASSUME NEW i \in DOMAIN grants', i \in DOMAIN grants \/ UNCHANGED grants
        PROVE  LET o == grants'[i].order
               IN  /\ o \in DOMAIN orders'
                   /\ orders'[o].kind # "topup" /\ orders'[o].status \in {"processing", "completed", "failed"}
    <3>1. PICK o : o = grants[i].order
      OBVIOUS
    <3>2. i \in DOMAIN grants /\ grants'[i].order = o
      BY <2>1, <3>1 DEF Grows
    <3>3. o \in DOMAIN orders /\ orders[o].kind # "topup" /\ orders[o].status \in Won
      BY <3>1, <3>2 DEF ShopInv, GrantsOK, DeliveredOnce, Won
    <3>4. o \in DOMAIN orders' /\ orders'[o].kind # "topup" /\ orders'[o].status \in Won
      BY <3>3 DEF Calm
    <3> QED
      BY <3>2, <3>4 DEF Won
  <2>2. ASSUME NEW i \in DOMAIN grants', i \notin DOMAIN grants, ~UNCHANGED grants
        PROVE  LET o == grants'[i].order
               IN  /\ o = x /\ o \in DOMAIN orders'
                   /\ orders'[o].kind # "topup" /\ orders'[o].status \in {"processing", "completed", "failed"}
    <3>1. grants'[i].order = x
      BY <2>2 DEF Grows
    <3>2. x \in DOMAIN orders' /\ orders'[x].kind # "topup" /\ orders'[x].status = "processing"
      BY <2>2 DEF Calm
    <3> QED
      BY <3>1, <3>2
  <2>3. ASSUME NEW i \in DOMAIN grants', NEW j \in DOMAIN grants', grants'[i].order = grants'[j].order
        PROVE  i = j
    <3>1. CASE i \in DOMAIN grants /\ j \in DOMAIN grants
      BY <2>3, <3>1 DEF Grows, ShopInv, GrantsOK, DeliveredOnce
    <3>2. CASE i \notin DOMAIN grants /\ j \notin DOMAIN grants
      BY <3>2
    <3>3. CASE i \in DOMAIN grants /\ j \notin DOMAIN grants
      BY <2>3, <3>3 DEF Grows, Granted
    <3>4. CASE i \notin DOMAIN grants /\ j \in DOMAIN grants
      BY <2>3, <3>4 DEF Grows, Granted
    <3> QED
      BY <3>1, <3>2, <3>3, <3>4
  <2> QED
    BY <2>1, <2>2, <2>3 DEF GrantsOK, DeliveredOnce
<1>5. CompletedIsDelivered'
  <2>1. ASSUME NEW o \in DOMAIN orders', orders'[o].status = "completed", orders'[o].kind # "topup"
        PROVE  Delivered(o)'
    <3>1. o \in DOMAIN orders /\ orders'[o].kind = orders[o].kind
      BY <2>1 DEF Calm
    <3>2. CASE orders[o].status = "completed"
      <4>1. Delivered(o)
        BY <2>1, <3>1, <3>2 DEF ShopInv, CompletedIsDelivered, Delivered
      <4> QED
        BY <3>1, <4>1, StaysTrue
    <3>3. CASE orders[o].status # "completed"
      <4>1. o = x
        BY <2>1, <3>1, <3>3 DEF Calm, Won
      <4> QED
        BY <2>1, <3>1, <3>3, <4>1
    <3> QED
      BY <3>2, <3>3
  <2> QED
    BY <2>1 DEF CompletedIsDelivered, Delivered
<1>6. FailedUndelivered'
  <2>1. ASSUME Honest, crashes' = 0, NEW i \in DOMAIN grants'
        PROVE  LET o == grants'[i].order
               IN  orders'[o].status = "failed" => orders'[o].kind = "renew" /\ "refused" \in Faults
    <3>1. CASE i \in DOMAIN grants
      <4>1. PICK o : o = grants[i].order
        OBVIOUS
      <4>2. grants'[i].order = o /\ Granted(o)
        BY <3>1, <4>1 DEF Grows, Granted
      <4>3. /\ o \in DOMAIN orders /\ orders[o].status \in Won
            /\ orders'[o].kind = orders[o].kind
            /\ orders[o].status = "failed" => orders[o].kind = "renew" /\ "refused" \in Faults
        BY <2>1, <3>1, <4>1 DEF ShopInv, FailedUndelivered, Honest, GrantsOK, DeliveredOnce, Won,
           Calm
      <4>4. CASE o # x
        BY <4>2, <4>3, <4>4 DEF Calm
      <4>5. CASE o = x
        BY <2>1, <4>2, <4>3, <4>5 DEF MaybeCutShort, Calm
      <4> QED
        BY <4>4, <4>5
    <3>2. CASE i \notin DOMAIN grants
      <4>1. grants'[i].order = x /\ ~UNCHANGED grants
        BY <2>1, <3>2 DEF Grows
      <4> QED
        BY <4>1
    <3> QED
      BY <3>1, <3>2
  <2> QED
    BY <2>1 DEF FailedUndelivered, Honest
<1> QED
  BY <1>1, <1>2, <1>3, <1>4, <1>5, <1>6 DEF ShopInv, Grows

-----------------------------------------------------------------------------
(* The steps, by what they do to the tables.                               *)

\* A step that leaves the orders alone disturbs no row.
LEMMA StillCalm == ASSUME UNCHANGED orders PROVE \A x : Calm(x)
BY DEF Calm

\* One that leaves services and accounts alone takes no delivery back.
LEMMA StillGrows ==
  ASSUME ShopInv, UNCHANGED <<services, grants>> PROVE \A x : Grows(x)
BY DEF Grows, ShopInv

\* One order moves on, or back to nothing it was before.
LEMMA UpdateCalm ==
  ASSUME TypeOK, NEW o \in DOMAIN orders, NEW y \in Order, Update(o, y),
         y.user = orders[o].user, y.kind = orders[o].kind, y.service = orders[o].service,
         orders[o].status \notin Terminal,
         orders[o].status = "processing" => y.status \in Won
  PROVE  /\ Calm(o) /\ DOMAIN orders' = DOMAIN orders /\ orders'[o] = y
         /\ orders[o].status \notin Won /\ y.status \notin Won => \A x : Calm(x)
<1>1. /\ DOMAIN orders' = DOMAIN orders
      /\ \A p \in DOMAIN orders : orders'[p] = IF p = o THEN y ELSE orders[p]
  BY UpdateFacts DEF TypeOK
<1>2. orders[o].status \in Won => orders[o].status = "processing"
  BY DEF Won, Terminal
<1> QED
  BY <1>1, <1>2 DEF Calm

\* Cancelling the open orders of a customer disturbs no order that was won.
LEMMA CancelCalm ==
  ASSUME TypeOK, NEW u, CancelOpenOrders(u)
  PROVE  (\A x : Calm(x)) /\ DOMAIN orders' = DOMAIN orders
<1>1. /\ DOMAIN orders' = DOMAIN orders
      /\ \A o \in DOMAIN orders : orders[o] \in Order /\ orders'[o] =
           IF orders[o].user = u /\ orders[o].status \in Open
           THEN [orders[o] EXCEPT !.status = "cancelled"] ELSE orders[o]
  BY CancelFacts, OrderFacts DEF TypeOK
<1>2. \A o \in DOMAIN orders :
        /\ orders'[o].user = orders[o].user /\ orders'[o].kind = orders[o].kind
        /\ orders'[o].service = orders[o].service
        /\ orders'[o].status = orders[o].status
           \/ (orders[o].status \in Open /\ orders'[o].status = "cancelled")
  BY <1>1 DEF Order
<1> QED
  BY <1>1, <1>2 DEF Calm, Open, Won, Terminal

\* An order that is inserted is the last one, and a draft.
LEMMA CreateCalm ==
  ASSUME TypeOK, NEW u \in Users, NEW kind \in Kinds, NEW service \in Services \cup {0},
         NEW base \in Nat, CreateOrder(u, kind, service, base)
  PROVE  /\ Len(orders) \in Nat
         /\ DOMAIN orders = 1..Len(orders) /\ DOMAIN orders' = 1..(Len(orders) + 1)
         /\ \A x : Calm(x)
         /\ orders'[Len(orders) + 1].user = u
         /\ orders'[Len(orders) + 1].kind = kind
         /\ orders'[Len(orders) + 1].service = service
         /\ \A o \in DOMAIN orders : orders'[o] = orders[o]
<1>1. PICK x : x = [user |-> u, kind |-> kind, service |-> service,
                    base |-> base, discount |-> 0, amount |-> base, code |-> NoCode,
                    pay |-> "none", status |-> "draft", receipt |-> FALSE, decided |-> Nobody]
  OBVIOUS
<1>2. /\ x \in Order /\ x.user = u /\ x.kind = kind /\ x.service = service
      /\ x.status = "draft"
  BY <1>1 DEF Order, Statuses
<1>3. PICK g, h : g = orders /\ h = orders'
  OBVIOUS
<1>4. g \in Seq(Order) /\ h = Append(g, x)
  BY <1>1, <1>3 DEF CreateOrder, TypeOK
<1>5. /\ h \in Seq(Order) /\ Len(g) \in Nat /\ DOMAIN g = 1..Len(g)
      /\ DOMAIN h = 1..(Len(g) + 1) /\ h[Len(g) + 1] = x
      /\ \A i \in DOMAIN g : i \in DOMAIN h /\ h[i] = g[i]
      /\ \A i \in DOMAIN h : i \in DOMAIN g \/ i = Len(g) + 1
  BY <1>2, <1>4, AppendFacts
<1>6. \A o \in DOMAIN orders : o \in DOMAIN orders' /\ orders'[o] = orders[o]
  BY <1>3, <1>5
<1>7. \A o \in DOMAIN orders' \ DOMAIN orders : orders'[o].status = "draft"
  BY <1>2, <1>3, <1>5
<1>8. \A x1 : Calm(x1)
  BY <1>6, <1>7 DEF Calm
<1> QED
  BY <1>2, <1>3, <1>5, <1>6, <1>8

\* A table keeps its length with its domain.
LEMMA SameLength ==
  ASSUME TypeOK, TypeOK', DOMAIN orders' = DOMAIN orders
  PROVE  Len(orders') = Len(orders)
<1>1. /\ Len(orders) \in Nat /\ Len(orders') \in Nat
      /\ DOMAIN orders = 1..Len(orders) /\ DOMAIN orders' = 1..Len(orders')
  BY LenProperties DEF TypeOK
<1> QED
  BY <1>1

\* The handlers about to insert an order are finitely many.
LEMMA CreatingFacts ==
  ASSUME ShopAssumption
  PROVE  IsFiniteSet(Creating) /\ Cardinality(Creating) \in Nat
BY FS_Subset, FS_CardinalityType DEF ShopAssumption, Creating

\* A handler that has ended has nothing behind it, after any step.
LEMMA IdleStands == Idle \in Task /\ Stands(Idle)'
BY DEF Idle, Task, Stands, Holding, Delivering

\* A handler's row has the fields its next call needs.
LEMMA TaskFields ==
  ASSUME NEW t \in Task
  PROVE  /\ t.pc = "create" => /\ t.user \in Users /\ t.kind \in Kinds
                               /\ t.service \in Services \cup {0} /\ t.base \in Nat
         /\ t.pc \in {"limit", "once", "apply"} => t.order \in Nat /\ t.code \in Codes
         /\ t.pc \in Holding => t.order \in Nat
         /\ t.pc = "account" => t.tries \in 0..MaxTries
         /\ t.pc = "record" => t.name \in Names
<1>1. CASE t = Idle
  BY <1>1 DEF Idle, Holding, Delivering
<1>2. CASE t \in [pc: {"create"}, user: Users, kind: Kinds, service: Services \cup {0}, base: Nat]
  BY <1>2 DEF Holding, Delivering
<1>3. CASE t \in [pc: {"card"}, order: Nat]
  BY <1>3 DEF Holding, Delivering
<1>4. CASE t \in [pc: {"limit", "once", "apply"}, order: Nat, code: Codes]
  BY <1>4 DEF Holding, Delivering
<1>5. CASE t \in [pc: {"load", "topup", "extend", "complete", "fail", "reward"}, order: Nat]
  BY <1>5 DEF Holding, Delivering
<1>6. CASE t \in [pc: {"account"}, order: Nat, tries: 0..MaxTries]
  BY <1>6 DEF Holding, Delivering
<1>7. CASE t \in [pc: {"record"}, order: Nat, name: Names]
  BY <1>7 DEF Holding, Delivering
<1> QED
  BY <1>1, <1>2, <1>3, <1>4, <1>5, <1>6, <1>7 DEF Task

\* As long as no order is added, every renewal stays one of the customer's own.
LEMMA RenewalsStay ==
  ASSUME ShopInv, NEW x, Calm(x), Grows(x), DOMAIN orders' = DOMAIN orders
  PROVE  RenewalsOwned'
<1>1. \A u, s : Owns(u, s) => Owns(u, s)'
  BY StaysTrue
<1>2. ASSUME NEW o \in DOMAIN orders', orders'[o].kind = "renew"
      PROVE  Owns(orders[o].user, orders[o].service)'
  <2>1. PICK u, s : u = orders[o].user /\ s = orders[o].service
    OBVIOUS
  <2>2. Owns(u, s) /\ orders'[o].user = u /\ orders'[o].service = s
    BY <1>2, <2>1 DEF Calm, ShopInv, RenewalsOwned
  <2>3. Owns(u, s)'
    BY <1>1, <2>2
  <2> QED
    BY <2>2, <2>3 DEF Owns
<1> QED
  BY <1>2 DEF RenewalsOwned, Owns

\* A step of one handler that starts no order.
LEMMA HandlerMoves ==
  ASSUME ShopInv, NEW w \in Workers, NEW t \in Task, NEW x,
         mode = "up", UNCHANGED process,
         task' = [task EXCEPT ![w] = t], t.pc # "create",
         [Next]_vars, Calm(x), Grows(x), DOMAIN orders' = DOMAIN orders,
         Stands(t)',
         t.pc \in Delivering => t.order = x,
         \A v \in Workers \ {w} : task[v].pc \in Delivering => task[v].order # x,
         \/ UNCHANGED grants
         \/ /\ ~Granted(x) /\ x \in DOMAIN orders
            /\ orders'[x].kind # "topup" /\ orders'[x].status = "processing"
            /\ \A i, j \in DOMAIN grants' \ DOMAIN grants : i = j,
         x \in DOMAIN orders /\ orders'[x].status = "completed" /\ orders'[x].kind # "topup"
           => orders[x].status = "completed" \/ Delivered(x)',
         x \in DOMAIN orders /\ orders'[x].status = "failed" /\ Honest /\ crashes' = 0
           => orders[x].status = "failed" \/ MaybeCutShort(x) \/ (UNCHANGED grants /\ ~Granted(x))
  PROVE  ShopInv'
<1>1. /\ task \in [Workers -> Task] /\ task' \in [Workers -> Task] /\ task'[w] = t
      /\ \A v \in Workers \ {w} : task'[v] = task[v]
  BY DEF ShopInv
<1>2. ProcessOK' /\ (crashes' = 0 => crashes = 0)
  BY <1>1 DEF ShopInv, ProcessOK, process
<1>3. Len(orders') + Cardinality(Creating') <= MaxOrders
  <2>1. Creating' \subseteq Creating
    BY <1>1 DEF Creating
  <2>2. Cardinality(Creating') <= Cardinality(Creating) /\ Cardinality(Creating') \in Nat
    BY <2>1, CreatingFacts, ShopAssumption, FS_Subset, FS_CardinalityType
  <2>3. Len(orders') = Len(orders) /\ Len(orders) \in Nat
    BY SameLength, StepKeepsTypes, LenProperties DEF ShopInv, TypeOK
  <2>4. Len(orders) + Cardinality(Creating) <= MaxOrders
    BY DEF ShopInv
  <2> QED
    BY <2>2, <2>3, <2>4, CreatingFacts, ShopAssumption DEF ShopAssumption
<1>4. RenewalsOwned'
  BY RenewalsStay
<1>5. \A v \in {w} : Stands(task[v])'
  BY <1>1 DEF Stands
<1>6. \A v \in {w} : task'[v].pc \in Delivering => task'[v].order = x /\ {w} = {v}
  BY <1>1
<1>7. {w} \in SUBSET Workers
  OBVIOUS
<1> QED
  BY <1>1, <1>2, <1>3, <1>4, <1>5, <1>6, <1>7, Moves

\* Nobody else holds what a handler delivers, and nobody what is not processing.
LEMMA HeldAlone ==
  ASSUME ShopInv, NEW w \in Workers, task[w].pc \in Delivering
  PROVE  \A v \in Workers \ {w} : task[v].pc \in Delivering => task[v].order # task[w].order
BY DEF ShopInv, SingleWorker

\* Only an order in processing is in the hands of a delivering handler.
LEMMA HeldByNobody ==
  ASSUME ShopInv, NEW o, orders[o].status # "processing"
  PROVE  \A v \in Workers : task[v].pc \in Delivering => task[v].order # o
BY DEF ShopInv, SingleWorker

\* What stands behind a handler's row lasts while the tables do.
LEMMA StillStands ==
  ASSUME UNCHANGED <<orders, services, grants>>, NEW t, Stands(t)
  PROVE  Stands(t)'
BY DEF Stands, Owns, Granted, Delivered, MaybeCutShort

-----------------------------------------------------------------------------
(* Steps that only decide what the handler does next.                      *)

\* A handler that writes nothing keeps the invariant if its new row stands.
LEMMA NothingWritten ==
  ASSUME ShopInv, NEW w \in Workers, NEW t \in Task, mode = "up",
         UNCHANGED <<vars, world, process>>, Goto(w, t), t.pc # "create", Stands(t),
         t.pc \in Delivering => task[w].pc \in Delivering /\ t.order = task[w].order
  PROVE  ShopInv'
<1>1. /\ UNCHANGED <<orders, services, grants>>
      /\ [Next]_vars /\ UNCHANGED process
      /\ task' = [task EXCEPT ![w] = t]
  BY DEF vars, world, Goto
<1>2. PICK x : x = IF task[w].pc \in Delivering THEN task[w].order ELSE 0
  OBVIOUS
<1>3. Calm(x) /\ Grows(x)
  BY <1>1, StillCalm, StillGrows
<1>4. \A v \in Workers \ {w} : task[v].pc \in Delivering => task[v].order # x
  <2>1. CASE task[w].pc \in Delivering
    BY <1>2, <2>1, HeldAlone
  <2>2. CASE task[w].pc \notin Delivering
    <3>1. DOMAIN orders = 1..Len(orders) /\ Len(orders) \in Nat
      BY LenProperties DEF ShopInv, TypeOK
    <3>2. \A v \in Workers : task[v].pc \in Delivering => task[v].order \in DOMAIN orders
      BY DEF ShopInv, Stands, Holding
    <3> QED
      BY <1>2, <2>2, <3>1, <3>2
  <2> QED
    BY <2>1, <2>2
<1>5. Stands(t)' /\ (t.pc \in Delivering => t.order = x)
  BY <1>1, <1>2, StillStands
<1> QED
  BY <1>1, <1>3, <1>4, <1>5, HandlerMoves

\* The row of a handler is one of a task, and stands.
LEMMA RowOf ==
  ASSUME ShopInv, NEW w \in Workers
  PROVE  task[w] \in Task /\ Stands(task[w])
BY DEF ShopInv

\* A handler that has ended has nothing behind it.
LEMMA IdleNow == Idle.pc = "idle" /\ Stands(Idle)
BY DEF Idle, Stands, Holding, Delivering

\* The rows of fulfil.
LEMMA FulfilRow ==
  ASSUME NEW pc \in {"load", "topup", "extend", "complete", "fail", "reward"}, NEW o \in Nat
  PROVE  /\ Fulfil(pc, o) \in Task
         /\ Fulfil(pc, o).pc = pc /\ Fulfil(pc, o).order = o
BY DEF Fulfil, Task

\* fulfil's switch gives every kind of order a worker that can deliver it.
LEMMA SwitchFits ==
  ASSUME ShopAssumption, NEW o \in Nat, orders[o].kind \in Kinds
  PROVE  LET t == FulfilTask(o)
         IN  /\ t \in Task /\ t.order = o /\ t.pc \in {"topup", "account", "extend"}
             /\ t.pc = "topup" <=> orders[o].kind = "topup"
             /\ t.pc = "account" <=> orders[o].kind = "purchase"
             /\ t.pc = "extend" <=> orders[o].kind = "renew"
<1>1. CASE orders[o].kind = "topup"
  BY <1>1, FulfilRow DEF FulfilTask
<1>2. CASE orders[o].kind = "purchase"
  <2>1. FulfilTask(o) = [pc |-> "account", order |-> o, tries |-> 0]
    BY <1>2 DEF FulfilTask
  <2> QED
    BY <1>2, <2>1 DEF Task, ShopAssumption
<1>3. CASE orders[o].kind = "renew"
  BY <1>3, FulfilRow DEF FulfilTask
<1> QED
  BY <1>1, <1>2, <1>3 DEF Kinds

\* Entering a code and its two checks write nothing.
LEMMA CodeSteps ==
  ASSUME ShopInv, NEW w \in Workers,
         (\E o \in DOMAIN orders, c \in Codes : EnterCode(w, o, c)) \/ CheckLimit(w) \/ CheckOnce(w)
  PROVE  ShopInv' /\ [Next]_vars
<1>1. mode = "up" /\ UNCHANGED <<vars, world, process>>
  BY DEF EnterCode, CheckLimit, CheckOnce, At
<1>2. PICK r : r = task[w]
  OBVIOUS
<1>3. r \in Task /\ Stands(r)
  BY <1>2, RowOf
<1>4. PICK t : Goto(w, t) /\ t \in Task /\ Stands(t) /\ t.pc \in {"idle", "limit", "once", "apply"}
  <2>1. ASSUME NEW o \in DOMAIN orders, NEW c \in Codes, EnterCode(w, o, c)
        PROVE  \E t : Goto(w, t) /\ t \in Task /\ Stands(t) /\ t.pc \in {"idle", "limit", "once", "apply"}
    <3>1. PICK t : t = [pc |-> "limit", order |-> o, code |-> c]
      OBVIOUS
    <3>2. o \in Nat
      BY LenProperties DEF ShopInv, TypeOK
    <3>3. t \in Task /\ t.pc = "limit" /\ t.order = o
      BY <3>1, <3>2 DEF Task
    <3>4. Stands(t)
      BY <2>1, <3>3 DEF EnterCode, Stands, Holding, Delivering
    <3> QED
      BY <2>1, <3>1, <3>3, <3>4 DEF EnterCode
  <2>2. CASE Goto(w, Idle)
    BY <2>2, IdleNow DEF Task
  <2>3. ASSUME NEW pc \in {"once", "apply"}, Goto(w, [task[w] EXCEPT !.pc = pc]),
               r.pc \in {"limit", "once"}
        PROVE  \E t : Goto(w, t) /\ t \in Task /\ Stands(t) /\ t.pc \in {"idle", "limit", "once", "apply"}
    <3>1. r \in [pc: {"limit", "once", "apply"}, order: Nat, code: Codes]
      BY <1>3, <2>3 DEF Task, Idle
    <3>2. PICK t : t = [r EXCEPT !.pc = pc]
      OBVIOUS
    <3>3. t \in [pc: {"limit", "once", "apply"}, order: Nat, code: Codes] /\ t.pc = pc /\ t.order = r.order
      BY <3>1, <3>2
    <3>4. t \in Task
      BY <3>3 DEF Task
    <3>5. Stands(t)
      BY <1>3, <2>3, <3>3 DEF Stands, Holding, Delivering
    <3> QED
      BY <1>2, <2>3, <3>2, <3>3, <3>4, <3>5
  <2> QED
    BY <1>2, <2>1, <2>2, <2>3 DEF CheckLimit, CheckOnce, Finish, At
<1>5. ShopInv'
  <2>1. t.pc # "create" /\ t.pc \notin Delivering
    BY <1>4 DEF Delivering
  <2> QED
    BY <1>1, <1>4, <2>1, NothingWritten
<1> QED
  BY <1>1, <1>5

\* Load, a name that is taken, a refusal, a store error.
LEMMA DecidingSteps ==
  ASSUME ShopInv, NEW w \in Workers,
         Load(w) \/ NameClash(w) \/ PanelRefuses(w) \/ StoreError(w)
  PROVE  ShopInv' /\ [Next]_vars
<1>1. mode = "up" /\ UNCHANGED <<vars, world, process>>
  BY DEF Load, NameClash, PanelRefuses, StoreError, At
<1>2. PICK r : r = task[w]
  OBVIOUS
<1>3. r \in Task /\ Stands(r)
  BY <1>2, RowOf
<1>o. r.pc \in Delivering => /\ r.order \in DOMAIN orders /\ r.order \in Nat
                             /\ orders[r.order].kind \in Kinds
                             /\ orders[r.order].status = "processing"
  <2>1. r.pc \in Delivering => r.order \in DOMAIN orders
    BY <1>3 DEF Stands, Holding
  <2> QED
    BY <1>3, <2>1, OrderFacts, LenProperties DEF Stands, ShopInv, TypeOK, Order
<1>4. PICK t : /\ Goto(w, t) /\ t \in Task /\ Stands(t) /\ t.pc # "create"
               /\ t.pc \in Delivering => r.pc \in Delivering /\ t.order = r.order
  <2>1. CASE Load(w)
    <3>1. r.pc = "load" /\ r.pc \in Delivering /\ Goto(w, FulfilTask(r.order))
      BY <1>2, <2>1 DEF Load, At, Delivering
    <3>2. PICK t : t = FulfilTask(r.order)
      OBVIOUS
    <3>3. /\ t \in Task /\ t.order = r.order /\ t.pc \in {"topup", "account", "extend"}
          /\ t.pc = "topup" <=> orders[r.order].kind = "topup"
          /\ t.pc = "account" <=> orders[r.order].kind = "purchase"
          /\ t.pc = "extend" <=> orders[r.order].kind = "renew"
      BY <1>o, <3>1, <3>2, SwitchFits, ShopAssumption
    <3>4. Stands(t)
      BY <1>3, <1>o, <3>1, <3>3 DEF Stands
    <3> QED
      BY <3>1, <3>2, <3>3, <3>4
  <2>2. ASSUME r.pc \in {"topup", "account", "record", "extend"}, r.pc = "record" => ~Honest,
               Goto(w, Fulfil("fail", r.order))
        PROVE  \E t : /\ Goto(w, t) /\ t \in Task /\ Stands(t) /\ t.pc # "create"
                      /\ t.pc \in Delivering => r.pc \in Delivering /\ t.order = r.order
    <3>1. r.pc \in Delivering
      BY <2>2 DEF Delivering
    <3>2. PICK t : t = Fulfil("fail", r.order)
      OBVIOUS
    <3>3. t \in Task /\ t.pc = "fail" /\ t.order = r.order
      BY <1>o, <3>1, <3>2, FulfilRow
    <3>4. Honest => ~Granted(r.order)
      BY <1>3, <2>2 DEF Stands
    <3>5. Stands(t)
      BY <1>o, <3>1, <3>3, <3>4 DEF Stands, Holding, Delivering
    <3> QED
      BY <2>2, <3>1, <3>2, <3>3, <3>5
  <2>3. CASE NameClash(w)
    <3>1. r.pc = "account" /\ r.pc \in Delivering
      BY <1>2, <2>3 DEF NameClash, At, Delivering
    <3>2. r \in [pc: {"account"}, order: Nat, tries: 0..MaxTries]
      BY <1>3, <3>1 DEF Task, Idle
    <3>3. CASE r.tries + 1 < MaxTries
      <4>1. PICK t : t = [r EXCEPT !.tries = r.tries + 1]
        OBVIOUS
      <4>2. Goto(w, t)
        BY <1>2, <2>3, <3>3, <4>1 DEF NameClash
      <4>3. t \in [pc: {"account"}, order: Nat, tries: 0..MaxTries] /\ t.order = r.order
        BY <3>2, <3>3, <4>1, ShopAssumption DEF ShopAssumption
      <4>4. t \in Task /\ t.pc = "account"
        BY <4>3 DEF Task
      <4>5. Stands(t)
        BY <1>3, <3>1, <4>3, <4>4 DEF Stands, Delivering
      <4> QED
        BY <3>1, <4>2, <4>3, <4>4, <4>5
    <3>4. CASE ~(r.tries + 1 < MaxTries)
      <4>1. Goto(w, Fulfil("fail", r.order))
        BY <1>2, <2>3, <3>4 DEF NameClash
      <4> QED
        BY <2>2, <3>1, <4>1
    <3> QED
      BY <3>3, <3>4
  <2>4. CASE PanelRefuses(w)
    BY <1>2, <2>2, <2>4 DEF PanelRefuses
  <2>5. CASE StoreError(w)
    <3>1. CASE r.pc \in {"topup", "account", "record", "extend"}
      BY <1>2, <2>2, <2>5, <3>1 DEF StoreError, Honest
    <3>2. CASE r.pc \notin {"topup", "account", "record", "extend"}
      <4>1. Goto(w, Idle)
        BY <1>2, <2>5, <3>2 DEF StoreError
      <4>2. Idle.pc \notin Delivering
        BY IdleNow DEF Delivering
      <4> QED
        BY <4>1, <4>2, IdleNow DEF Task
    <3> QED
      BY <3>1, <3>2
  <2> QED
    BY <2>1, <2>3, <2>4, <2>5
<1>5. ShopInv'
  BY <1>1, <1>2, <1>4, NothingWritten
<1> QED
  BY <1>1, <1>5

-----------------------------------------------------------------------------
(* Steps on orders that are not paid yet, and on wallets.                  *)

\* 0 is the number of no order.
LEMMA NotAnOrder ==
  ASSUME ShopInv
  PROVE  0 \notin DOMAIN orders /\ \A v \in Workers : task[v].pc \in Delivering => task[v].order # 0
<1>1. DOMAIN orders = 1..Len(orders) /\ Len(orders) \in Nat
  BY LenProperties DEF ShopInv, TypeOK
<1> QED
  BY <1>1 DEF ShopInv, Stands, Holding

\* The handler of a small call ends with it.
LEMMA HandlerEnds ==
  ASSUME ShopInv, NEW w \in Workers, mode = "up", UNCHANGED <<world, process>>, Finish(w),
         [Next]_vars, \A x : Calm(x), DOMAIN orders' = DOMAIN orders
  PROVE  ShopInv'
<1>1. Calm(0) /\ Grows(0) /\ UNCHANGED grants
  BY StillGrows DEF world
<1>2. 0 \notin DOMAIN orders /\ \A v \in Workers : task[v].pc \in Delivering => task[v].order # 0
  BY NotAnOrder
<1>3. Idle \in Task /\ Stands(Idle)' /\ Idle.pc = "idle" /\ Idle.pc \notin Delivering
  BY IdleStands, IdleNow DEF Delivering
<1>4. task' = [task EXCEPT ![w] = Idle] /\ UNCHANGED process
  BY DEF Finish, Goto
<1> QED
  BY <1>1, <1>2, <1>3, <1>4, HandlerMoves

\* No handler is needed: a receipt, a rejection, a card, an adjustment.
LEMMA NoHandlerMoves ==
  ASSUME ShopInv, mode = "up", UNCHANGED <<world, task, process>>,
         [Next]_vars, \A x : Calm(x), DOMAIN orders' = DOMAIN orders
  PROVE  ShopInv'
<1>1. Calm(0) /\ Grows(0) /\ UNCHANGED grants
  BY StillGrows DEF world
<1>2. 0 \notin DOMAIN orders /\ \A v \in Workers : task[v].pc \in Delivering => task[v].order # 0
  BY NotAnOrder
<1>3. ProcessOK' /\ (crashes' = 0 => crashes = 0) /\ task' = task /\ task' \in [Workers -> Task]
  BY DEF ShopInv, ProcessOK, process
<1>4. Creating' = Creating
  BY DEF Creating
<1>5. Len(orders') = Len(orders)
  BY SameLength, StepKeepsTypes DEF ShopInv
<1>6. Len(orders') + Cardinality(Creating') <= MaxOrders
  BY <1>4, <1>5 DEF ShopInv
<1>7. RenewalsOwned'
  BY <1>1, RenewalsStay
<1>8. {} \in SUBSET Workers
  OBVIOUS
<1> QED
  BY <1>1, <1>2, <1>3, <1>6, <1>7, <1>8, Moves

\* What ApplyCode takes off is never more than the price (Apply).
LEMMA DiscountFits ==
  ASSUME NEW terms \in [percent: 0..100, amount: Nat, max: Nat], NEW price \in Nat
  PROVE  Apply(terms, price) \in 0..price
<1>1. Wrap(price * terms.percent) \in Int
  BY PricingAssumption DEF Wrap
<1>2. Quotient(Wrap(price * terms.percent), 100) \in Int
  BY <1>1 DEF Quotient
<1>3. Off(terms, price) \in Int
  BY <1>2 DEF Off
<1> QED
  BY <1>3 DEF Apply

\* One unpaid order is changed, and stays unpaid.
LEMMA OpenUpdate ==
  ASSUME ShopInv, NEW o \in DOMAIN orders, NEW y \in Order, Update(o, y),
         y.user = orders[o].user, y.kind = orders[o].kind, y.service = orders[o].service,
         orders[o].status \in Open \cup {"awaiting_review"}, y.status \notin Won
  PROVE  (\A x : Calm(x)) /\ DOMAIN orders' = DOMAIN orders
<1>1. orders[o].status \notin Terminal \cup Won
  BY DEF Open, Terminal, Won
<1> QED
  BY <1>1, UpdateCalm DEF ShopInv, Won

\* Choosing the card moves one open order on.
LEMMA CardCalm ==
  ASSUME ShopInv, NEW o \in DOMAIN orders, ChooseCard(o, orders[o].user)
  PROVE  [Next]_vars /\ (\A x : Calm(x)) /\ DOMAIN orders' = DOMAIN orders
<1>1. orders[o] \in Order
  BY OrderFacts DEF ShopInv, TypeOK
<1>2. PICK y : y = [orders[o] EXCEPT !.pay = "card", !.status = "awaiting_receipt"]
  OBVIOUS
<1>3. /\ y \in Order /\ y.user = orders[o].user /\ y.kind = orders[o].kind
      /\ y.service = orders[o].service /\ y.status = "awaiting_receipt"
  <2>1. y \in Order
    BY <1>1, <1>2, RowChanges DEF Statuses
  <2>2. /\ y.user = orders[o].user /\ y.kind = orders[o].kind
        /\ y.service = orders[o].service /\ y.status = "awaiting_receipt"
    BY <1>1, <1>2 DEF Order
  <2> QED
    BY <2>1, <2>2
<1>4. Update(o, y) /\ orders[o].status \in Open
  BY <1>2 DEF ChooseCard, Open
<1>5. (\A x : Calm(x)) /\ DOMAIN orders' = DOMAIN orders
  BY <1>3, <1>4, OpenUpdate DEF Won
<1>6. Next
  BY <1>1 DEF Next, Order
<1> QED
  BY <1>5, <1>6

\* ApplyCode writes to an order that is not paid yet, or not at all.
LEMMA CodeCalm ==
  ASSUME ShopInv, NEW w \in Workers, ApplyCode(w)
  PROVE  [Next]_vars /\ (\A x : Calm(x)) /\ DOMAIN orders' = DOMAIN orders
<1>1. PICK r : r = task[w]
  OBVIOUS
<1>2. r \in Task /\ Stands(r)
  BY <1>1, RowOf
<1>3. PICK o : o = r.order
  OBVIOUS
<1>4. o \in DOMAIN orders /\ orders[o] \in Order
  <2>1. r.pc \in Holding
    BY <1>1 DEF ApplyCode, At, Holding
  <2> QED
    BY <1>2, <1>3, <2>1, OrderFacts DEF Stands, ShopInv, TypeOK
<1>5. UNCHANGED vars => [Next]_vars /\ (\A x : Calm(x)) /\ DOMAIN orders' = DOMAIN orders
  BY StillCalm DEF vars
<1>6. r.pc = "apply" /\ orders[o].kind # "topup" /\ r.code \in Codes
  BY <1>1, <1>2, <1>3, TaskFields DEF ApplyCode, At, Stands
<1>7. CASE UNCHANGED vars
  BY <1>5, <1>7
<1>8. CASE Discountable(o) /\ ApplyDiscount(o, orders[o].user, r.code, Apply(Terms[r.code], orders[o].base))
  <2>1. PICK d : d = Apply(Terms[r.code], orders[o].base)
    OBVIOUS
  <2>2. orders[o].base \in Nat /\ orders[o].user \in Users
    BY <1>4 DEF Order
  <2>3. d \in 0..orders[o].base
    BY <1>6, <2>1, <2>2, DiscountFits, ShopAssumption DEF ShopAssumption
  <2>4. Discount(o, orders[o].user, r.code, d)
    BY <1>6, <1>8, <2>1 DEF Discount
  <2>5. Next
    BY <1>4, <1>6, <2>2, <2>3, <2>4 DEF Next
  <2>6. PICK y : y = [orders[o] EXCEPT !.discount = d, !.amount = orders[o].base - d, !.code = r.code]
    OBVIOUS
  <2>7. d \in Nat /\ orders[o].base - d \in Nat
    BY <2>2, <2>3
  <2>8. /\ y \in Order /\ y.user = orders[o].user /\ y.kind = orders[o].kind
        /\ y.service = orders[o].service /\ y.status = orders[o].status
    <3>1. y \in Order
      BY <1>4, <1>6, <2>6, <2>7, RowChanges DEF Statuses
    <3>2. /\ y.user = orders[o].user /\ y.kind = orders[o].kind
          /\ y.service = orders[o].service /\ y.status = orders[o].status
      BY <1>4, <1>6, <2>6, <2>7 DEF Order
    <3> QED
      BY <3>1, <3>2
  <2>9. Update(o, y) /\ orders[o].status = "draft"
    BY <1>8, <2>1, <2>6 DEF ApplyDiscount, Discountable
  <2> QED
    BY <1>4, <2>5, <2>8, <2>9, OpenUpdate DEF Open, Won
<1> QED
  BY <1>1, <1>3, <1>7, <1>8 DEF ApplyCode

\* Steps of a handler that end it, with a change to one row or a balance.
LEMMA SmallSteps ==
  ASSUME ShopInv, NEW w \in Workers, TopupToCard(w) \/ ApplyCode(w) \/ PayReward(w)
  PROVE  ShopInv' /\ [Next]_vars
<1>1. mode = "up" /\ UNCHANGED <<world, process>> /\ Finish(w)
  BY DEF TopupToCard, ApplyCode, PayReward, At
<1>2. PICK r : r = task[w]
  OBVIOUS
<1>3. r \in Task /\ Stands(r)
  BY <1>2, RowOf
<1>4. PICK o : o = r.order
  OBVIOUS
<1>5. o \in DOMAIN orders /\ orders[o] \in Order
  <2>1. r.pc \in Holding
    BY <1>2 DEF TopupToCard, ApplyCode, PayReward, At, Holding
  <2> QED
    BY <1>3, <1>4, <2>1, OrderFacts DEF Stands, ShopInv, TypeOK
<1>6. UNCHANGED vars => [Next]_vars /\ (\A x : Calm(x)) /\ DOMAIN orders' = DOMAIN orders
  BY StillCalm DEF vars
<1>7. [Next]_vars /\ (\A x : Calm(x)) /\ DOMAIN orders' = DOMAIN orders
  <2>1. CASE TopupToCard(w)
    BY <1>2, <1>4, <1>5, <1>6, <2>1, CardCalm DEF TopupToCard
  <2>2. CASE ApplyCode(w)
    BY <2>2, CodeCalm
  <2>3. CASE PayReward(w)
    <3>1. r.pc = "reward" /\ orders[o].status = "completed" /\ orders[o].kind # "topup"
      BY <1>2, <1>3, <1>4, <2>3 DEF PayReward, At, Stands
    <3>2. RewardFor(o)
      BY <1>2, <1>4, <2>3, <3>1 DEF PayReward, RewardFor
    <3>3. Next
      BY <1>5, <3>2 DEF Next
    <3>4. UNCHANGED orders
      BY <3>2 DEF RewardFor, RewardReferrer, vars
    <3> QED
      BY <3>3, <3>4, StillCalm
  <2> QED
    BY <2>1, <2>2, <2>3
<1> QED
  BY <1>1, <1>7, HandlerEnds

\* Taps that are one call of the store disturb no order that was paid.
LEMMA TapCalm ==
  ASSUME ShopInv, Tap
  PROVE  /\ mode = "up" /\ UNCHANGED <<world, task, process>>
         /\ [Next]_vars /\ (\A x : Calm(x)) /\ DOMAIN orders' = DOMAIN orders
<1> DEFINE Quiet == /\ mode = "up" /\ UNCHANGED <<world, task, process>>
                    /\ [Next]_vars /\ (\A x : Calm(x)) /\ DOMAIN orders' = DOMAIN orders
<1>0. \A o \in DOMAIN orders : orders[o] \in Order
  BY OrderFacts DEF ShopInv, TypeOK
<1>1. ASSUME NEW u \in Users, SubmitReceipt(u) PROVE Quiet
  <2>1. AttachReceipt(u) /\ mode = "up" /\ UNCHANGED <<world, task, process>>
    BY <1>1 DEF SubmitReceipt
  <2>2. PICK o \in DOMAIN orders :
          /\ orders[o].status = "awaiting_receipt"
          /\ Update(o, [orders[o] EXCEPT !.receipt = TRUE, !.status = "awaiting_review"])
    BY <2>1 DEF AttachReceipt, Waiting
  <2>3. PICK y : y = [orders[o] EXCEPT !.receipt = TRUE, !.status = "awaiting_review"]
    OBVIOUS
  <2>4. /\ y \in Order /\ y.user = orders[o].user /\ y.kind = orders[o].kind
        /\ y.service = orders[o].service /\ y.status = "awaiting_review"
    <3>1. y \in Order
      BY <1>0, <2>3, RowChanges DEF Statuses
    <3>2. /\ y.user = orders[o].user /\ y.kind = orders[o].kind
          /\ y.service = orders[o].service /\ y.status = "awaiting_review"
      BY <1>0, <2>3 DEF Order
    <3> QED
      BY <3>1, <3>2
  <2>5. (\A x : Calm(x)) /\ DOMAIN orders' = DOMAIN orders
    BY <2>2, <2>3, <2>4, OpenUpdate DEF Won, Open
  <2>6. Next
    BY <2>1 DEF Next
  <2> QED
    BY <2>1, <2>5, <2>6
<1>2. ASSUME NEW u \in Users, NEW n \in Amounts, AdjustWallet(u, n) \/ AdjustWallet(u, -n)
      PROVE  Quiet
  <2>1. mode = "up" /\ UNCHANGED <<world, task, process>> /\ UNCHANGED orders /\ Next
    BY <1>2 DEF AdjustWallet, AdminAdjust, AdjustBalance, Next
  <2> QED
    BY <2>1, StillCalm
<1>3. ASSUME NEW o \in DOMAIN orders, PayByCard(o) PROVE Quiet
  <2>1. mode = "up" /\ UNCHANGED <<world, task, process>> /\ ChooseCard(o, orders[o].user)
    BY <1>3 DEF PayByCard
  <2> QED
    BY <2>1, CardCalm
<1>4. ASSUME NEW o \in DOMAIN orders, NEW a \in Admins, RejectReceipt(o, a)
      PROVE  Quiet
  <2>1. mode = "up" /\ UNCHANGED <<world, task, process>> /\ Reject(o, a)
    BY <1>4 DEF RejectReceipt
  <2>2. PICK y : y = [orders[o] EXCEPT !.status = "rejected", !.decided = a]
    OBVIOUS
  <2>3. /\ y \in Order /\ y.user = orders[o].user /\ y.kind = orders[o].kind
        /\ y.service = orders[o].service /\ y.status = "rejected"
    <3>1. y \in Order
      BY <1>0, <2>2, RowChanges DEF Statuses
    <3>2. /\ y.user = orders[o].user /\ y.kind = orders[o].kind
          /\ y.service = orders[o].service /\ y.status = "rejected"
      BY <1>0, <2>2 DEF Order
    <3> QED
      BY <3>1, <3>2
  <2>4. Update(o, y) /\ orders[o].status = "awaiting_review"
    BY <2>1, <2>2, OrdersAssumption DEF Reject, Transition, OrdersAssumption
  <2>5. (\A x : Calm(x)) /\ DOMAIN orders' = DOMAIN orders
    BY <2>3, <2>4, OpenUpdate DEF Won
  <2>6. Next
    BY <2>1 DEF Next
  <2> QED
    BY <2>1, <2>5, <2>6
<1> QED
  BY <1>1, <1>2, <1>3, <1>4 DEF Tap

\* So they keep the invariant: no handler has any part in them.
LEMMA TapSteps == ASSUME ShopInv, Tap PROVE ShopInv' /\ [Next]_vars
BY TapCalm, NoHandlerMoves

-----------------------------------------------------------------------------
(* Winning an order.                                                       *)

\* Before it is won nothing was granted for an order, and nobody holds it.
LEMMA Winning ==
  ASSUME ShopInv, NEW w \in Workers, NEW o \in DOMAIN orders, NEW y \in Order, NEW t \in Task,
         mode = "up", UNCHANGED <<world, process>>, Goto(w, t), [Next]_vars,
         Update(o, y), y.status = "processing",
         y.user = orders[o].user, y.kind = orders[o].kind, y.service = orders[o].service,
         orders[o].status \in {"draft", "awaiting_review"},
         t.order = o, t.pc \in {"load", "account", "extend"},
         t.pc = "account" => orders[o].kind = "purchase",
         t.pc = "extend" => orders[o].kind = "renew"
  PROVE  ShopInv'
<1>1. Calm(o) /\ DOMAIN orders' = DOMAIN orders /\ orders'[o] = y
  BY UpdateCalm DEF Terminal, ShopInv
<1>2. Grows(o) /\ UNCHANGED grants
  BY StillGrows DEF world
<1>3. ~Granted(o)
  BY DEF ShopInv, GrantsOK, DeliveredOnce, Granted
<1>4. \A v \in Workers \ {w} : task[v].pc \in Delivering => task[v].order # o
  BY HeldByNobody
<1>5. ~Granted(o)'
  BY <1>2, <1>3 DEF Granted
<1>6. Stands(t)'
  BY <1>1, <1>5 DEF Stands, Delivering, Holding
<1>7. task' = [task EXCEPT ![w] = t] /\ UNCHANGED process /\ t.pc # "create"
  BY DEF Goto
<1>8. orders'[o].status = "processing"
  BY <1>1
<1> QED
  BY <1>1, <1>2, <1>4, <1>6, <1>7, <1>8, HandlerMoves

\* The compare-and-set of the wallet and of the approving admin: whoever
\* wins the order is its only handler.
LEMMA WinningSteps ==
  ASSUME ShopInv, NEW w \in Workers, NEW o \in DOMAIN orders,
         PayWithWallet(w, o) \/ \E a \in Admins : ApproveReceipt(w, o, a)
  PROVE  ShopInv' /\ [Next]_vars
<1>1. mode = "up" /\ UNCHANGED <<world, process>>
  BY DEF PayWithWallet, ApproveReceipt, At
<1>2. orders[o] \in Order /\ o \in Nat
  BY OrderFacts, LenProperties DEF ShopInv, TypeOK
<1>3. ASSUME PayWithWallet(w, o) PROVE ShopInv' /\ [Next]_vars
  <2>1. PICK y : y = [orders[o] EXCEPT !.pay = "wallet", !.status = "processing"]
    OBVIOUS
  <2>2. y \in Order
    BY <1>2, <2>1, RowChanges DEF Statuses
  <2>3. /\ y.user = orders[o].user /\ y.kind = orders[o].kind
        /\ y.service = orders[o].service /\ y.status = "processing"
    BY <1>2, <2>1 DEF Order
  <2>4. Update(o, y) /\ orders[o].status = "draft" /\ orders[o].kind # "topup"
    BY <1>3, <2>1 DEF PayWithWallet, PayFromWallet, Payable
  <2>5. Next
    BY <1>2, <1>3 DEF PayWithWallet, Next, Order
  <2>6. PICK t : t = FulfilTask(o)
    OBVIOUS
  <2>7. /\ t \in Task /\ t.order = o /\ t.pc \in {"topup", "account", "extend"}
        /\ t.pc = "topup" <=> orders[o].kind = "topup"
        /\ t.pc = "account" <=> orders[o].kind = "purchase"
        /\ t.pc = "extend" <=> orders[o].kind = "renew"
    <3>1. orders[o].kind \in Kinds
      BY <1>2 DEF Order
    <3> QED
      BY <1>2, <2>6, <3>1, SwitchFits, ShopAssumption
  <2>8. Goto(w, t)
    BY <1>3, <2>6 DEF PayWithWallet
  <2> QED
    BY <1>1, <2>2, <2>3, <2>4, <2>5, <2>7, <2>8, Winning
<1>4. ASSUME NEW a \in Admins, ApproveReceipt(w, o, a) PROVE ShopInv' /\ [Next]_vars
  <2>1. PICK y : y = [orders[o] EXCEPT !.status = "processing", !.decided = a]
    OBVIOUS
  <2>2. y \in Order
    BY <1>2, <2>1, RowChanges DEF Statuses
  <2>3. /\ y.user = orders[o].user /\ y.kind = orders[o].kind
        /\ y.service = orders[o].service /\ y.status = "processing"
    BY <1>2, <2>1 DEF Order
  <2>4. Update(o, y) /\ orders[o].status = "awaiting_review"
    BY <1>4, <2>1, OrdersAssumption DEF ApproveReceipt, Approve, Transition, OrdersAssumption
  <2>5. Next
    BY <1>4 DEF ApproveReceipt, Next
  <2>6. PICK t : t = Fulfil("load", o)
    OBVIOUS
  <2>7. t \in Task /\ t.order = o /\ t.pc = "load"
    BY <1>2, <2>6, FulfilRow
  <2>8. Goto(w, t)
    BY <1>4, <2>6 DEF ApproveReceipt
  <2> QED
    BY <1>1, <2>2, <2>3, <2>4, <2>5, <2>7, <2>8, Winning
<1> QED
  BY <1>3, <1>4

-----------------------------------------------------------------------------
(* Delivering it.                                                          *)

\* The order in a handler's hands is closed.
LEMMA CloseFacts ==
  ASSUME ShopInv, NEW o \in DOMAIN orders, Processing(o),
         NEW status \in {"completed", "failed"}, SetStatus(o, status)
  PROVE  /\ Calm(o) /\ DOMAIN orders' = DOMAIN orders
         /\ orders'[o].status = status /\ orders'[o].kind = orders[o].kind
<1>1. orders[o] \in Order
  BY OrderFacts DEF ShopInv, TypeOK
<1>2. PICK y : y = [orders[o] EXCEPT !.status = status]
  OBVIOUS
<1>3. /\ y \in Order /\ y.user = orders[o].user /\ y.kind = orders[o].kind
      /\ y.service = orders[o].service /\ y.status = status
  BY <1>1, <1>2 DEF Order, Statuses
<1>4. Update(o, y) /\ orders[o].status = "processing"
  BY <1>2 DEF SetStatus, Processing
<1> QED
  BY <1>3, <1>4, UpdateCalm DEF ShopInv, Terminal, Won

\* The order leaves processing, and its handler lets go of it.
LEMMA ClosingSteps ==
  ASSUME ShopInv, NEW w \in Workers, CreditTopup(w) \/ Complete(w) \/ GiveUp(w)
  PROVE  ShopInv' /\ [Next]_vars
<1>1. mode = "up" /\ UNCHANGED <<world, process>>
  BY DEF CreditTopup, Complete, GiveUp, At
<1>2. PICK r : r = task[w]
  OBVIOUS
<1>3. r \in Task /\ Stands(r)
  BY <1>2, RowOf
<1>4. PICK o : o = r.order
  OBVIOUS
<1>5. r.pc \in Delivering /\ o \in DOMAIN orders /\ Processing(o) /\ o \in Nat
  <2>1. r.pc \in Delivering
    BY <1>2 DEF CreditTopup, Complete, GiveUp, At, Delivering
  <2>2. o \in DOMAIN orders /\ Processing(o)
    BY <1>3, <1>4, <2>1 DEF Stands, Holding, Processing
  <2> QED
    BY <2>1, <2>2, LenProperties DEF ShopInv, TypeOK
<1>6. \A v \in Workers \ {w} : task[v].pc \in Delivering => task[v].order # o
  BY <1>2, <1>4, <1>5, HeldAlone
<1>7. Grows(o) /\ UNCHANGED grants /\ UNCHANGED process
  BY <1>1, StillGrows DEF world
<1>8. Idle \in Task /\ Stands(Idle)' /\ Idle.pc = "idle" /\ Idle.pc \notin Delivering
  BY IdleStands, IdleNow DEF Delivering
<1>9. CASE CreditTopup(w)
  <2>1. orders[o].kind = "topup" /\ CompleteTopup(o) /\ task' = [task EXCEPT ![w] = Idle]
    BY <1>2, <1>3, <1>4, <1>5, <1>9 DEF CreditTopup, At, Stands, Finish, Goto
  <2>2. Next
    BY <1>5, <2>1 DEF Next
  <2>3. SetStatus(o, "completed")
    BY <2>1 DEF CompleteTopup
  <2>4. /\ Calm(o) /\ DOMAIN orders' = DOMAIN orders
        /\ orders'[o].status = "completed" /\ orders'[o].kind = "topup"
    BY <1>5, <2>1, <2>3, CloseFacts
  <2> QED
    BY <1>1, <1>6, <1>7, <1>8, <2>1, <2>2, <2>4, HandlerMoves
<1>10. CASE Complete(w)
  <2>1. /\ orders[o].kind # "topup" /\ Delivered(o) /\ CompleteOrder(o)
        /\ task' = [task EXCEPT ![w] = Fulfil("reward", o)]
    BY <1>2, <1>3, <1>4, <1>5, <1>10 DEF Complete, At, Stands, Goto
  <2>2. Deliver(o) /\ Next
    BY <1>5, <2>1 DEF Deliver, Next
  <2>3. SetStatus(o, "completed")
    BY <2>1 DEF CompleteOrder
  <2>4. /\ Calm(o) /\ DOMAIN orders' = DOMAIN orders
        /\ orders'[o].status = "completed" /\ orders'[o].kind # "topup"
    BY <1>5, <2>1, <2>3, CloseFacts
  <2>5. PICK t : t = Fulfil("reward", o)
    OBVIOUS
  <2>6. t \in Task /\ t.pc = "reward" /\ t.order = o
    BY <1>5, <2>5, FulfilRow
  <2>7. Stands(t)' /\ t.pc \notin Delivering
    BY <1>5, <2>4, <2>6 DEF Stands, Delivering
  <2>8. Delivered(o)'
    BY <1>5, <1>7, <2>1, <2>4, StaysTrue
  <2>9. task' = [task EXCEPT ![w] = t]
    BY <2>1, <2>5
  <2>10. /\ t.pc # "create" /\ (t.pc \in Delivering => t.order = o)
         /\ orders'[o].status # "failed"
         /\ [Next]_vars /\ mode = "up"
    BY <1>1, <2>2, <2>4, <2>6
  <2>11. ShopInv'
    BY <1>6, <1>7, <2>4, <2>6, <2>7, <2>8, <2>9, <2>10, HandlerMoves
  <2> QED
    BY <2>10, <2>11
<1>11. CASE GiveUp(w)
  <2>1. /\ Honest => ~Granted(o) \/ MaybeCutShort(o)
        /\ FailOrder(o) /\ task' = [task EXCEPT ![w] = Idle]
    BY <1>2, <1>3, <1>4, <1>5, <1>11 DEF GiveUp, At, Stands, Finish, Goto
  <2>2. Next
    BY <1>5, <2>1 DEF Next
  <2>3. SetStatus(o, "failed")
    BY <2>1 DEF FailOrder
  <2>4. Calm(o) /\ DOMAIN orders' = DOMAIN orders /\ orders'[o].status = "failed"
    BY <1>5, <2>3, CloseFacts
  <2> QED
    BY <1>1, <1>6, <1>7, <1>8, <2>1, <2>2, <2>4, HandlerMoves
<1> QED
  BY <1>9, <1>10, <1>11

\* The panel honours the order in a handler's hands, for the first time.
LEMMA GrantFacts ==
  ASSUME ShopInv, NEW o \in Nat, NEW n \in Names, Grant(o, n), UNCHANGED services
  PROVE  /\ Grows(o)
         /\ \A i, j \in DOMAIN grants' \ DOMAIN grants : i = j
         /\ \E i \in DOMAIN grants' : grants'[i] = [order |-> o, name |-> n]
<1>1. PICK x : x = [order |-> o, name |-> n]
  OBVIOUS
<1>2. x \in Account /\ x.order = o
  BY <1>1 DEF Account
<1>3. PICK g, h : g = grants /\ h = grants'
  OBVIOUS
<1>4. g \in Seq(Account) /\ h = Append(g, x)
  BY <1>1, <1>3 DEF ShopInv, Grant
<1>5. /\ h \in Seq(Account) /\ Len(g) \in Nat
      /\ DOMAIN g = 1..Len(g) /\ DOMAIN h = 1..(Len(g) + 1) /\ h[Len(g) + 1] = x
      /\ \A i \in DOMAIN g : i \in DOMAIN h /\ h[i] = g[i]
      /\ \A i \in DOMAIN h : i \in DOMAIN g \/ i = Len(g) + 1
  BY <1>2, <1>4, AppendFacts
<1>6. \A i \in DOMAIN h \ DOMAIN g : i = Len(g) + 1 /\ h[i].order = o
  BY <1>2, <1>5
<1>7. Grows(o)
  BY <1>3, <1>5, <1>6 DEF Grows, ShopInv
<1>8. Len(g) + 1 \in DOMAIN h
  BY <1>5
<1> QED
  BY <1>1, <1>3, <1>5, <1>6, <1>7, <1>8

\* The panel makes or renews an account for an order that had none.
LEMMA Granting ==
  ASSUME ShopInv, NEW w \in Workers, NEW o, o = task[w].order, NEW n \in Names, NEW t \in Task,
         mode = "up", task[w].pc \in {"account", "extend"},
         Grant(o, n), UNCHANGED <<vars, services, process>>, Goto(w, t),
         t.pc \in Delivering, t.order = o, Stands(t)'
  PROVE  ShopInv'
<1>1. /\ task[w].pc \in Delivering /\ o \in DOMAIN orders /\ orders[o].status = "processing"
      /\ orders[o].kind # "topup" /\ ~Granted(o)
  BY RowOf DEF Delivering, Stands, Holding
<1>2. o \in Nat
  BY <1>1, LenProperties DEF ShopInv, TypeOK
<1>3. Grows(o) /\ \A i, j \in DOMAIN grants' \ DOMAIN grants : i = j
  BY <1>2, GrantFacts
<1>4. UNCHANGED orders /\ [Next]_vars
  BY DEF vars
<1>5. Calm(o) /\ DOMAIN orders' = DOMAIN orders
  BY <1>4, StillCalm
<1>6. \A v \in Workers \ {w} : task[v].pc \in Delivering => task[v].order # o
  BY <1>1, HeldAlone
<1>7. task' = [task EXCEPT ![w] = t] /\ UNCHANGED process /\ t.pc # "create"
  BY DEF Goto, Delivering
<1>8. orders'[o].kind # "topup" /\ orders'[o].status = "processing"
  BY <1>1, <1>4
<1> QED
  BY <1>1, <1>3, <1>4, <1>5, <1>6, <1>7, <1>8, HandlerMoves

\* Whoever renews has a service of the customer's, with its panel name.
LEMMA ExtendedFacts ==
  ASSUME ShopInv, NEW o \in DOMAIN orders, orders[o].kind = "renew"
  PROVE  /\ orders[o].service \in DOMAIN services
         /\ services[orders[o].service].user = orders[o].user
         /\ Extended(o) \in Names
<1>1. Owns(orders[o].user, orders[o].service)
  BY DEF ShopInv, RenewalsOwned
<1>2. \A s \in DOMAIN services : services[s] \in Service
  BY LenProperties, ElementOfSeq DEF ShopInv
<1> QED
  BY <1>1, <1>2 DEF Owns, Extended, Service

\* The calls to the panel, with each of their outcomes.
LEMMA GrantingSteps ==
  ASSUME ShopInv, NEW w \in Workers,
         MakeAccount(w) \/ RenewAccount(w) \/ RenewalCutShort(w) \/ AnswerLost(w)
  PROVE  ShopInv' /\ [Next]_vars
<1>1. mode = "up" /\ UNCHANGED <<vars, services, process>>
  BY DEF MakeAccount, RenewAccount, RenewalCutShort, AnswerLost, At
<1>2. PICK r : r = task[w]
  OBVIOUS
<1>3. r \in Task /\ Stands(r) /\ r.pc \in {"account", "extend"}
  BY <1>2, RowOf DEF MakeAccount, RenewAccount, RenewalCutShort, AnswerLost, At
<1>4. PICK o : o = task[w].order
  OBVIOUS
<1>5. /\ o \in DOMAIN orders /\ orders[o].status = "processing"
      /\ r.pc = "account" => orders[o].kind = "purchase"
      /\ r.pc = "extend" => orders[o].kind = "renew"
  BY <1>2, <1>3, <1>4 DEF Stands, Holding, Delivering
<1>6. o \in Nat /\ UNCHANGED orders
  BY <1>1, <1>5, LenProperties DEF ShopInv, TypeOK, vars
<1>7. PICK n \in Names : /\ Grant(o, n)
                         /\ \/ MakeAccount(w) /\ Goto(w, [pc |-> "record", order |-> o, name |-> n])
                            \/ RenewAccount(w) /\ n = Extended(o)
                            \/ RenewalCutShort(w) \/ AnswerLost(w)
  <2>1. CASE MakeAccount(w)
    BY <1>4, <2>1 DEF MakeAccount
  <2>2. r.pc = "extend" => Extended(o) \in Names
    BY <1>5, ExtendedFacts
  <2>3. CASE RenewAccount(w)
    BY <1>2, <1>4, <2>2, <2>3 DEF RenewAccount, At
  <2>4. CASE AnswerLost(w)
    BY <1>2, <1>3, <1>4, <2>2, <2>4 DEF AnswerLost
  <2>5. CASE RenewalCutShort(w)
    BY <1>2, <1>4, <2>2, <2>5 DEF RenewalCutShort, At
  <2> QED
    BY <2>1, <2>3, <2>4, <2>5
<1>8. Grows(o) /\ \E i \in DOMAIN grants' : grants'[i] = [order |-> o, name |-> n]
  BY <1>1, <1>6, <1>7, GrantFacts
<1>9. CASE MakeAccount(w) /\ Goto(w, [pc |-> "record", order |-> o, name |-> n])
  <2>1. r.pc = "account"
    BY <1>2, <1>9 DEF MakeAccount, At
  <2>2. PICK t : t = [pc |-> "record", order |-> o, name |-> n]
    OBVIOUS
  <2>3. t \in Task /\ t.pc = "record" /\ t.order = o /\ t.name = n
    BY <1>6, <2>2 DEF Task
  <2>4. Stands(t)'
    BY <1>5, <1>6, <1>8, <2>1, <2>3 DEF Stands, Holding, Delivering
  <2>5. Goto(w, t) /\ t.pc \in Delivering
    BY <1>9, <2>2, <2>3 DEF Delivering
  <2> QED
    BY <1>1, <1>2, <1>3, <1>4, <1>7, <2>3, <2>4, <2>5, Granting
<1>10. CASE RenewAccount(w) /\ n = Extended(o)
  <2>1. r.pc = "extend"
    BY <1>2, <1>10 DEF RenewAccount, At
  <2>2. PICK t : t = Fulfil("complete", o)
    OBVIOUS
  <2>3. t \in Task /\ t.pc = "complete" /\ t.order = o
    BY <1>6, <2>2, FulfilRow
  <2>4. PICK s : s = orders[o].service
    OBVIOUS
  <2>5. s \in DOMAIN services /\ services[s].user = orders[o].user /\ n = services[s].name
    BY <1>5, <1>10, <2>1, <2>4, ExtendedFacts DEF Extended
  <2>6. Delivered(o)'
    BY <1>1, <1>6, <1>8, <2>4, <2>5 DEF Delivered
  <2>7. Stands(t)'
    BY <1>5, <1>6, <2>1, <2>3, <2>6 DEF Stands, Holding, Delivering
  <2>8. Goto(w, t) /\ t.pc \in Delivering
    BY <1>4, <1>10, <2>2, <2>3 DEF RenewAccount, Delivering
  <2> QED
    BY <1>1, <1>2, <1>3, <1>4, <1>7, <2>3, <2>7, <2>8, Granting
<1>11. CASE RenewalCutShort(w) \/ AnswerLost(w)
  <2>1. PICK t : t = Fulfil("fail", o)
    OBVIOUS
  <2>2. t \in Task /\ t.pc = "fail" /\ t.order = o
    BY <1>6, <2>1, FulfilRow
  <2>3. Honest => "refused" \in Faults /\ orders'[o].kind = "renew"
    BY <1>2, <1>5, <1>6, <1>11 DEF Honest, AnswerLost, RenewalCutShort, At
  <2>4. Stands(t)'
    BY <1>5, <1>6, <2>2, <2>3 DEF Stands, MaybeCutShort, Holding, Delivering
  <2>5. Goto(w, t) /\ t.pc \in Delivering
    BY <1>4, <1>11, <2>1, <2>2 DEF RenewalCutShort, AnswerLost, Delivering
  <2> QED
    BY <1>1, <1>2, <1>3, <1>4, <1>7, <2>2, <2>4, <2>5, Granting
<1>12. [Next]_vars
  BY <1>1
<1> QED
  BY <1>7, <1>9, <1>10, <1>11, <1>12

\* The account is listed under the customer who bought it.
LEMMA RecordingStep ==
  ASSUME ShopInv, NEW w \in Workers, RecordService(w)
  PROVE  ShopInv' /\ [Next]_vars
<1>1. mode = "up" /\ UNCHANGED <<vars, grants, process>> /\ UNCHANGED orders /\ [Next]_vars
  BY DEF RecordService, At, vars
<1>2. PICK r : r = task[w]
  OBVIOUS
<1>3. r \in Task /\ Stands(r) /\ r.pc = "record" /\ r.pc \in Delivering /\ r.name \in Names
  BY <1>2, RowOf, TaskFields DEF RecordService, At, Delivering
<1>4. PICK o : o = r.order
  OBVIOUS
<1>5. /\ o \in DOMAIN orders /\ orders[o].status = "processing" /\ orders[o].kind = "purchase"
      /\ \E i \in DOMAIN grants : grants[i] = [order |-> o, name |-> r.name]
  BY <1>3, <1>4 DEF Stands, Holding
<1>6. orders[o].user \in Users /\ o \in Nat
  BY <1>5, OrderFacts, LenProperties DEF ShopInv, TypeOK, Order
<1>7. PICK x : x = [user |-> orders[o].user, name |-> r.name]
  OBVIOUS
<1>8. PICK g, h : g = services /\ h = services'
  OBVIOUS
<1>9. g \in Seq(Service) /\ x \in Service /\ h = Append(g, x)
  BY <1>2, <1>3, <1>4, <1>6, <1>7, <1>8 DEF ShopInv, RecordService, Service
<1>10. /\ h \in Seq(Service) /\ Len(g) \in Nat
       /\ DOMAIN h = 1..(Len(g) + 1) /\ h[Len(g) + 1] = x
       /\ \A i \in DOMAIN g : i \in DOMAIN h /\ h[i] = g[i]
  BY <1>9, AppendFacts
<1>11. Grows(o)
  BY <1>1, <1>8, <1>10 DEF Grows, ShopInv
<1>12. Delivered(o)'
  <2>1. Len(g) + 1 \in DOMAIN services' /\ services'[Len(g) + 1].user = orders[o].user
        /\ services'[Len(g) + 1].name = r.name
    BY <1>7, <1>8, <1>10
  <2> QED
    BY <1>1, <1>5, <2>1 DEF Delivered
<1>13. PICK t : t = Fulfil("complete", o)
  OBVIOUS
<1>14. t \in Task /\ t.pc = "complete" /\ t.order = o
  BY <1>6, <1>13, FulfilRow
<1>15. Stands(t)'
  BY <1>1, <1>5, <1>12, <1>14 DEF Stands, Holding, Delivering
<1>16. task' = [task EXCEPT ![w] = t] /\ UNCHANGED <<grants, process>>
  BY <1>1, <1>2, <1>4, <1>13 DEF RecordService, Goto
<1>17. Calm(o) /\ DOMAIN orders' = DOMAIN orders
  BY <1>1, StillCalm
<1>18. \A v \in Workers \ {w} : task[v].pc \in Delivering => task[v].order # o
  BY <1>2, <1>3, <1>4, HeldAlone
<1>19. orders'[o].status = "processing"
  BY <1>1, <1>5
<1> QED
  BY <1>1, <1>11, <1>14, <1>15, <1>16, <1>17, <1>18, <1>19, HandlerMoves

-----------------------------------------------------------------------------
(* Starting an order: the number of orders, and of those being created.    *)

\* A purchase begins: the customer's open orders are cancelled first.
LEMMA BeginningStep ==
  ASSUME ShopInv, NEW w \in Workers, NEW u \in Users, NEW kind \in Kinds,
         NEW service \in Services \cup {0}, NEW base \in Amounts,
         Begin(w, u, kind, service, base)
  PROVE  ShopInv' /\ [Next]_vars
<1> USE OrdersAssumption, ShopAssumption
<1>1. /\ mode = "up" /\ task[w].pc = "idle" /\ UNCHANGED <<services, grants, process>>
      /\ CancelOpenOrders(u)
  BY DEF Begin, At, world
<1>2. Next
  BY <1>1 DEF Next
<1>3. Calm(0) /\ DOMAIN orders' = DOMAIN orders /\ Grows(0)
  BY <1>1, CancelCalm, StillGrows DEF ShopInv
<1>4. 0 \notin DOMAIN orders /\ \A v \in Workers : task[v].pc \in Delivering => task[v].order # 0
  BY NotAnOrder
<1>5. PICK t : t = [pc |-> "create", user |-> u, kind |-> kind, service |-> service, base |-> base]
  OBVIOUS
<1>6. /\ t \in Task /\ t.pc = "create" /\ t.user = u /\ t.kind = kind
      /\ t.service = service /\ t.base = base
  <2>1. base \in Nat
    BY DEF OrdersAssumption
  <2> QED
    BY <1>5, <2>1 DEF Task
<1>7. Stands(t)'
  <2>1. IF kind = "renew" THEN service \in DOMAIN services /\ services[service].user = u
        ELSE service = 0
    BY DEF Begin
  <2>2. kind = "renew" => Owns(u, service)'
    BY <1>1, <2>1 DEF Owns
  <2>3. (kind = "renew") <=> (service > 0)
    <3>1. DOMAIN services = 1..Len(services) /\ Len(services) \in Nat
      BY LenProperties DEF ShopInv
    <3> QED
      BY <2>1, <3>1
  <2> QED
    BY <1>6, <2>2, <2>3 DEF Stands, Holding, Delivering
<1>8. /\ task \in [Workers -> Task] /\ task' \in [Workers -> Task] /\ task'[w] = t
      /\ \A v \in Workers \ {w} : task'[v] = task[v]
  BY <1>5, <1>6 DEF ShopInv, Begin, Goto
<1>9. Len(orders') + Cardinality(Creating') <= MaxOrders
  <2>1. Creating' = Creating \cup {w} /\ w \notin Creating
    BY <1>1, <1>6, <1>8 DEF Creating
  <2>2. Cardinality(Creating') = Cardinality(Creating) + 1 /\ Cardinality(Creating) \in Nat
    BY <2>1, CreatingFacts, FS_AddElement
  <2>3. Len(orders') = Len(orders) /\ Len(orders) \in Nat
    BY <1>2, <1>3, SameLength, StepKeepsTypes, LenProperties DEF ShopInv, TypeOK
  <2>4. Len(orders) + Cardinality(Creating) < MaxOrders
    BY DEF Begin
  <2> QED
    BY <2>2, <2>3, <2>4 DEF ShopAssumption
<1>10. ProcessOK' /\ (crashes' = 0 => crashes = 0)
  BY <1>1, <1>3 DEF ShopInv, ProcessOK, process
<1>11. RenewalsOwned'
  BY <1>3, RenewalsStay
<1>12. \A v \in {w} : Stands(task[v])'
  BY <1>7, <1>8 DEF Stands
<1>13. \A v \in {w} : task'[v].pc \notin Delivering
  BY <1>6, <1>8 DEF Delivering
<1>14. {w} \in SUBSET Workers /\ UNCHANGED grants
  BY <1>1
<1>15. /\ Calm(0) /\ Grows(0) /\ [Next]_vars
       /\ \A v \in Workers \ {w} : task[v].pc \in Delivering => task[v].order # 0
  BY <1>2, <1>3, <1>4
<1>16. ShopInv'
  BY <1>4, <1>8, <1>9, <1>10, <1>11, <1>12, <1>13, <1>14, <1>15, Moves
<1> QED
  BY <1>2, <1>16

\* The order is inserted; there is room, as the handlers that were about to
\* insert were counted.
LEMMA CreatingStep ==
  ASSUME ShopInv, NEW w \in Workers, Create(w)
  PROVE  ShopInv' /\ [Next]_vars
<1> USE OrdersAssumption, ShopAssumption
<1>1. mode = "up" /\ UNCHANGED <<services, grants, process>>
  BY DEF Create, At, world
<1>2. PICK r : r = task[w]
  OBVIOUS
<1>3. /\ r \in Task /\ Stands(r) /\ r.pc = "create"
      /\ r.user \in Users /\ r.kind \in Kinds /\ r.service \in Services \cup {0}
      /\ r.base \in Amounts /\ ((r.kind = "renew") <=> (r.service > 0))
      /\ r.kind = "renew" => Owns(r.user, r.service)
  <2>1. r \in Task /\ Stands(r) /\ r.pc = "create"
    BY <1>2, RowOf DEF Create, At
  <2> QED
    BY <2>1, TaskFields DEF Stands
<1>4. /\ CreateOrder(r.user, r.kind, r.service, r.base)
      /\ Goto(w, IF r.kind = "topup" THEN Fulfil("card", Len(orders) + 1) ELSE Idle)
  BY <1>2 DEF Create
<1>c. w \in Creating /\ IsFiniteSet(Creating) /\ Cardinality(Creating) \in Nat
  BY <1>2, <1>3, CreatingFacts DEF Creating
<1>d. /\ Cardinality(Creating \ {w}) = Cardinality(Creating) - 1
      /\ Cardinality(Creating \ {w}) \in Nat
  BY <1>c, FS_RemoveElement, FS_CardinalityType
<1>5. Start(r.user, r.kind, r.service, r.base)
  <2>1. Len(orders) + Cardinality(Creating) <= MaxOrders /\ Len(orders) \in Nat
    BY LenProperties DEF ShopInv, TypeOK
  <2>2. Len(orders) < MaxOrders
    BY <1>c, <1>d, <2>1 DEF ShopAssumption
  <2> QED
    BY <1>3, <1>4, <2>2 DEF Start
<1>6. Next
  BY <1>3, <1>5 DEF Next
<1>7. PICK x : x = [user |-> r.user, kind |-> r.kind, service |-> r.service,
                    base |-> r.base, discount |-> 0, amount |-> r.base, code |-> NoCode,
                    pay |-> "none", status |-> "draft", receipt |-> FALSE, decided |-> Nobody]
  OBVIOUS
<1>8. /\ x \in Order /\ x.user = r.user /\ x.kind = r.kind /\ x.service = r.service
      /\ x.status = "draft"
  <2>1. r.base \in Nat
    BY <1>3 DEF OrdersAssumption
  <2> QED
    BY <1>3, <1>7, <2>1 DEF Order, Statuses
<1>9. PICK g, h : g = orders /\ h = orders'
  OBVIOUS
<1>10. g \in Seq(Order) /\ h = Append(g, x)
  BY <1>4, <1>7, <1>9 DEF CreateOrder, ShopInv, TypeOK
<1>11. /\ h \in Seq(Order) /\ Len(g) \in Nat /\ DOMAIN g = 1..Len(g)
       /\ DOMAIN h = 1..(Len(g) + 1) /\ h[Len(g) + 1] = x
       /\ \A i \in DOMAIN g : i \in DOMAIN h /\ h[i] = g[i]
       /\ \A i \in DOMAIN h : i \in DOMAIN g \/ i = Len(g) + 1
  BY <1>8, <1>10, AppendFacts
<1>12. Calm(0)
  <2>1. \A o \in DOMAIN orders : o \in DOMAIN orders' /\ orders'[o] = orders[o]
    BY <1>9, <1>11
  <2>2. \A o \in DOMAIN orders' \ DOMAIN orders : orders'[o].status = "draft"
    BY <1>8, <1>9, <1>11
  <2> QED
    BY <2>1, <2>2 DEF Calm
<1>13. Grows(0) /\ UNCHANGED grants
  BY <1>1, StillGrows
<1>14. 0 \notin DOMAIN orders /\ \A v \in Workers : task[v].pc \in Delivering => task[v].order # 0
  BY NotAnOrder
<1>15. PICK t : t = IF r.kind = "topup" THEN Fulfil("card", Len(orders) + 1) ELSE Idle
  OBVIOUS
<1>16. /\ t \in Task /\ t.pc \in {"card", "idle"}
       /\ t.pc = "card" => t.order = Len(orders) + 1
  <2>1. CASE r.kind = "topup"
    <3>1. t = [pc |-> "card", order |-> Len(orders) + 1] /\ Len(orders) + 1 \in Nat
      BY <1>9, <1>11, <1>15, <2>1 DEF Fulfil
    <3> QED
      BY <3>1 DEF Task
  <2>2. CASE r.kind # "topup"
    BY <1>15, <2>2 DEF Task, Idle
  <2> QED
    BY <2>1, <2>2
<1>17. Stands(t)'
  <2>1. Len(orders) + 1 \in DOMAIN orders'
    BY <1>9, <1>11
  <2> QED
    BY <1>16, <2>1 DEF Stands, Holding, Delivering
<1>18. /\ task \in [Workers -> Task] /\ task' \in [Workers -> Task] /\ task'[w] = t
       /\ \A v \in Workers \ {w} : task'[v] = task[v]
  BY <1>4, <1>15, <1>16 DEF ShopInv, Goto
<1>19. Len(orders') + Cardinality(Creating') <= MaxOrders
  <2>1. Creating' = Creating \ {w}
    BY <1>16, <1>18 DEF Creating
  <2>2. Len(orders') = Len(orders) + 1
    BY <1>9, <1>11, LenProperties
  <2>3. Len(orders) + Cardinality(Creating) <= MaxOrders /\ Len(orders) \in Nat
    BY LenProperties DEF ShopInv, TypeOK
  <2> QED
    BY <1>c, <1>d, <2>1, <2>2, <2>3 DEF ShopAssumption
<1>20. ProcessOK' /\ (crashes' = 0 => crashes = 0)
  <2>1. \A o \in DOMAIN orders : o \in DOMAIN orders'
    BY <1>12 DEF Calm
  <2> QED
    BY <1>1, <2>1 DEF ShopInv, ProcessOK, process
<1>21. RenewalsOwned'
  <2>1. ASSUME NEW o \in DOMAIN orders', orders'[o].kind = "renew"
        PROVE  Owns(orders[o].user, orders[o].service)'
    <3>1. CASE o \in DOMAIN orders
      BY <1>1, <1>9, <1>11, <2>1, <3>1 DEF ShopInv, RenewalsOwned, Owns
    <3>2. CASE o \notin DOMAIN orders
      <4>1. orders'[o] = x
        BY <1>9, <1>11, <3>2
      <4> QED
        BY <1>1, <1>3, <1>8, <2>1, <4>1 DEF Owns
    <3> QED
      BY <3>1, <3>2
  <2> QED
    BY <2>1 DEF RenewalsOwned, Owns
<1>22. \A v \in {w} : Stands(task[v])'
  BY <1>17, <1>18 DEF Stands
<1>23. \A v \in {w} : task'[v].pc \notin Delivering
  BY <1>16, <1>18 DEF Delivering
<1>24. {w} \in SUBSET Workers
  OBVIOUS
<1>25. ShopInv'
  BY <1>6, <1>12, <1>13, <1>14, <1>18, <1>19, <1>20, <1>21, <1>22, <1>23, <1>24, Moves
<1> QED
  BY <1>6, <1>25

-----------------------------------------------------------------------------
(* Crash, start-up, recovery.                                              *)

\* Every handler is gone, and the tables are as they were.
LEMMA CrashStep == ASSUME ShopInv, Crash PROVE ShopInv' /\ [Next]_vars
<1> USE ShopAssumption
<1>1. UNCHANGED <<vars, services, grants, orders>> /\ [Next]_vars
  BY DEF Crash, world, vars
<1>2. Calm(0) /\ Grows(0)
  BY <1>1, StillCalm, StillGrows
<1>3. 0 \notin DOMAIN orders
  BY NotAnOrder
<1>4. task' \in [Workers -> Task] /\ \A v \in Workers : task'[v] = Idle
  BY DEF Crash, Task
<1>5. \A v \in Workers : Stands(task[v])'
  BY <1>4, IdleStands DEF Stands
<1>6. \A v \in Workers : task'[v].pc \notin Delivering
  BY <1>4, IdleNow DEF Delivering
<1>7. ProcessOK' /\ crashes' # 0
  BY <1>4 DEF ShopInv, ProcessOK, Crash, ShopAssumption
<1>8. Len(orders') + Cardinality(Creating') <= MaxOrders
  <2>1. Creating' = {}
    BY <1>4, IdleNow DEF Creating
  <2>2. Cardinality(Creating') = 0
    BY <2>1, FS_EmptySet
  <2>3. Len(orders) + Cardinality(Creating) <= MaxOrders /\ Len(orders) \in Nat
    BY LenProperties DEF ShopInv, TypeOK
  <2> QED
    BY <1>1, <2>2, <2>3, CreatingFacts DEF ShopAssumption
<1>9. RenewalsOwned'
  BY <1>1, <1>2, RenewalsStay
<1>10. ShopInv'
  BY <1>1, <1>2, <1>3, <1>4, <1>5, <1>6, <1>7, <1>8, <1>9, Moves
<1> QED
  BY <1>1, <1>10

\* While no handler runs, the start-up may fail what is left in processing.
LEMMA RestartStep == ASSUME ShopInv, Restart PROVE ShopInv' /\ [Next]_vars
<1>1. mode # "up" /\ UNCHANGED <<services, grants, task, crashes>>
  BY DEF Restart, StartUp, RecoverOne, Serve, world
<1>2. (\A w \in Workers : task[w] = Idle) /\ crashes > 0
  BY <1>1 DEF ShopInv, ProcessOK
<1>3. PICK x : /\ UNCHANGED vars \/ (x \in DOMAIN orders /\ FailOrder(x))
               /\ StartUp \/ RecoverOne(x) \/ Serve
  <2>1. ASSUME NEW o \in stuck, RecoverOne(o)
        PROVE  UNCHANGED vars \/ (o \in DOMAIN orders /\ FailOrder(o))
    BY <2>1 DEF RecoverOne, ShopInv, ProcessOK
  <2>2. StartUp \/ Serve => UNCHANGED vars
    BY DEF StartUp, Serve
  <2> QED
    BY <2>1, <2>2 DEF Restart
<1>4. [Next]_vars
  BY <1>3 DEF Next
<1>5. /\ Calm(x) /\ DOMAIN orders' = DOMAIN orders
      /\ x \in DOMAIN orders /\ orders'[x].status = "completed" => orders[x].status = "completed"
  <2>1. CASE UNCHANGED vars
    BY <2>1, StillCalm DEF vars
  <2>2. CASE x \in DOMAIN orders /\ FailOrder(x)
    BY <2>2, CloseFacts DEF FailOrder
  <2> QED
    BY <1>3, <2>1, <2>2
<1>6. Grows(x)
  BY <1>1, StillGrows
<1>7. stuck' \in SUBSET DOMAIN orders /\ mode' \in {"starting", "up"}
  BY <1>3 DEF StartUp, RecoverOne, Serve, Interrupted, InProcessing, ShopInv, ProcessOK
<1>8. ProcessOK' /\ crashes' # 0
  BY <1>1, <1>2, <1>5, <1>7 DEF ShopInv, ProcessOK
<1>9. task' \in [Workers -> Task] /\ \A v \in Workers : task'[v] = task[v] /\ task[v].pc \notin Delivering
  BY <1>1, <1>2, IdleNow DEF ShopInv, Delivering
<1>10. Len(orders') + Cardinality(Creating') <= MaxOrders
  <2>1. Creating' = Creating
    BY <1>1 DEF Creating
  <2>2. Len(orders') = Len(orders)
    BY <1>4, <1>5, SameLength, StepKeepsTypes DEF ShopInv
  <2> QED
    BY <2>1, <2>2 DEF ShopInv
<1>11. RenewalsOwned'
  BY <1>5, <1>6, RenewalsStay
<1>12. {} \in SUBSET Workers /\ UNCHANGED grants
  BY <1>1
<1>13. ShopInv'
  BY <1>4, <1>5, <1>6, <1>8, <1>9, <1>10, <1>11, <1>12, Moves
<1> QED
  BY <1>4, <1>13

-----------------------------------------------------------------------------
(* The theorems.                                                           *)

\* The shop opens with empty tables.
LEMMA ShopStarts == ShopInit => ShopInv /\ Init
<1> SUFFICES ASSUME ShopInit PROVE ShopInv /\ Init
  OBVIOUS
<1> USE ShopAssumption
<1>1. Init /\ TypeOK
  BY EmptySeq DEF ShopInit, Init, TypeOK
<1>2. /\ orders = << >> /\ services = << >> /\ grants = << >>
      /\ Len(orders) = 0 /\ DOMAIN orders = {} /\ DOMAIN grants = {} /\ DOMAIN services = {}
      /\ services \in Seq(Service) /\ grants \in Seq(Account)
  BY EmptySeq DEF ShopInit, Init
<1>3. task \in [Workers -> Task] /\ \A w \in Workers : task[w] = Idle /\ task[w].pc = "idle"
  BY IdleNow DEF ShopInit, Task
<1>4. Creating = {} /\ Cardinality(Creating) = 0
  BY <1>3, FS_EmptySet DEF Creating
<1>5. ProcessOK
  BY <1>3 DEF ShopInit, ProcessOK, ShopAssumption
<1>6. \A w \in Workers : Stands(task[w]) /\ task[w].pc \notin Delivering
  BY <1>3, IdleNow DEF Delivering
<1> QED
  BY <1>1, <1>2, <1>3, <1>4, <1>5, <1>6
     DEF ShopInv, RenewalsOwned, SingleWorker, GrantsOK, DeliveredOnce,
         CompletedIsDelivered, FailedUndelivered, ShopAssumption

\* Every step of the shop keeps the invariant, and is one of Orders or none.
LEMMA ShopStep == ShopInv /\ [ShopNext]_shopVars => ShopInv' /\ [Next]_vars
<1> SUFFICES ASSUME ShopInv, [ShopNext]_shopVars PROVE ShopInv' /\ [Next]_vars
  OBVIOUS
<1>1. ASSUME NEW w \in Workers, Request(w) PROVE ShopInv' /\ [Next]_vars
  BY <1>1, BeginningStep, CodeSteps, WinningSteps DEF Request
<1>2. ASSUME NEW w \in Workers, Step(w) PROVE ShopInv' /\ [Next]_vars
  BY <1>2, CreatingStep, SmallSteps, CodeSteps, DecidingSteps, ClosingSteps, GrantingSteps,
     RecordingStep DEF Step
<1>3. CASE UNCHANGED shopVars
  <2>1. UNCHANGED vars /\ UNCHANGED <<services, grants, task, mode, stuck, crashes>>
    BY <1>3 DEF shopVars
  <2>2. \A w \in Workers : Stands(task[w])'
    BY <2>1 DEF ShopInv, Stands, Owns, Granted, Delivered, MaybeCutShort, vars
  <2> QED
    BY <2>1, <2>2 DEF vars, ShopInv, TypeOK, ProcessOK, RenewalsOwned, Owns, SingleWorker,
      GrantsOK, DeliveredOnce, CompletedIsDelivered, FailedUndelivered, Creating
<1> QED
  BY <1>1, <1>2, <1>3, TapSteps, CrashStep, RestartStep DEF ShopNext

\* Whatever is interleaved, fails or crashes, the inductive invariant holds.
LEMMA ShopKeepsInvariant == ShopSpec => []ShopInv
<1>1. ShopInit => ShopInv
  BY ShopStarts
<1>2. ShopInv /\ [ShopNext]_shopVars => ShopInv'
  BY ShopStep
<1> QED
  BY <1>1, <1>2, PTL DEF ShopSpec

(* The tables, the handlers' locals and the process stay well formed, for  *)
(* any number of handlers and crashes (shop.go).                           *)
THEOREM ShopTypeCorrect == ShopSpec => []ShopTypeOK
<1>1. ShopInv => ShopTypeOK
  BY DEF ShopInv, ShopTypeOK, ProcessOK, Service, Account
<1> QED
  BY <1>1, ShopKeepsInvariant, PTL

(* "Only one worker ever wins the move into this state": whoever taps what *)
(* and when, an order is delivered by one handler, while it is processing  *)
(* (PayWithWallet, Approve, fulfil, RecoverInterrupted).                   *)
THEOREM OneWorkerWins == ShopSpec => []SingleWorker
<1>1. ShopInv => SingleWorker
  BY DEF ShopInv
<1> QED
  BY <1>1, ShopKeepsInvariant, PTL

(* The panel honours an order at most once, whatever is refused, lost,     *)
(* retried, crashed or recovered (createAccount, fulfil).                  *)
THEOREM NothingIsDeliveredTwice == ShopSpec => []DeliveredOnce
<1>1. ShopInv => DeliveredOnce
  BY DEF ShopInv, GrantsOK
<1> QED
  BY <1>1, ShopKeepsInvariant, PTL

(* A completed order has its account on the panel and in the customer's    *)
(* list (fulfil completes last).                                           *)
THEOREM CompletionMeansDelivery == ShopSpec => []CompletedIsDelivered
<1>1. ShopInv => CompletedIsDelivered
  BY DEF ShopInv
<1> QED
  BY <1>1, ShopKeepsInvariant, PTL

(* Without a lost answer, a store error or a crash no order is both failed *)
(* and delivered, but for a renewal whose usage reset or read-back was     *)
(* refused after the expiry was written (fulfil's error path, Renew).      *)
THEOREM OnlyRenewalsFailDelivered == ShopSpec => []FailedUndelivered
<1>1. ShopInv => FailedUndelivered
  BY DEF ShopInv
<1> QED
  BY <1>1, ShopKeepsInvariant, PTL

(* Every call of the shop's handlers, however they interleave, crash and   *)
(* recover, is one Orders allows: shop.go implements the caller orders.go  *)
(* expects, and what is proved of Orders holds of the running shop.        *)
THEOREM ShopImplementsOrders == ShopSpec => ImplementsOrders
<1>1. ShopInit => Init
  BY ShopStarts
<1>2. ShopInv /\ [ShopNext]_shopVars => [Next]_vars
  BY ShopStep
<1> QED
  BY <1>1, <1>2, ShopKeepsInvariant, PTL DEF ShopSpec, ImplementsOrders, Spec

(* So the wallets of the running shop are right: nothing is delivered      *)
(* unpaid, the ledger holds what the orders are owed, each once, and every *)
(* balance is its customer's movements, none of which overdrew it.         *)
THEOREM ShopMoneyIsRight == ShopSpec => [](NothingUnpaid /\ LedgerMatchesOrders /\ BalanceExplained)
BY ShopImplementsOrders, NothingIsDeliveredUnpaid, LedgerIsTrue, BalancesAreExplained, PTL
   DEF ImplementsOrders

(* And so are its rewards, its codes and its closed orders, whichever      *)
(* handler crashes or is recovered: one reward for an invited customer,    *)
(* uses of a code counted for completed orders only, no closed order       *)
(* changed; each order's money is an escrow that is paid out once.         *)
THEOREM ShopKeepsItsBooks ==
  ShopSpec => [](RewardedOnce /\ CodesSpentOnCompletion) /\ SealedOrders /\ ImplementsEscrow
BY ShopImplementsOrders, InvitersAreRewardedOnce, CodesAreSpentOnCompletion, OrdersAreSealed,
   OrdersImplementEscrow, PTL DEF ImplementsOrders
-----------------------------------------------------------------------------
(* Deliveries and rewards come to an end.  What can be proved of it is     *)
(* that nobody lets go of an order in processing or of a reward that is    *)
(* due, and that no handler has more than a few calls left to make.        *)

\* How many calls a handler has left at most.
Rank(t) ==
  CASE t.pc = "idle" -> 0
    [] t.pc \in {"card", "apply", "reward", "fail"} -> 1
    [] t.pc \in {"create", "once", "topup", "complete"} -> 2
    [] t.pc \in {"limit", "record", "extend"} -> 3
    [] t.pc = "account" -> 4 + MaxTries - t.tries
    [] t.pc = "load" -> 5 + MaxTries

\* A handler that runs has a call left to make, and at most MaxTries + 5.
LEMMA RanksAreCounts ==
  ASSUME NEW t \in Task
  PROVE  Rank(t) \in 0..(5 + MaxTries) /\ (t.pc # "idle" => Rank(t) > 0)
<1> USE ShopAssumption DEF ShopAssumption
<1>1. \/ t.pc \in {"idle", "card", "apply", "reward", "fail", "create", "once", "topup",
                    "complete", "limit", "record", "extend", "load"}
      \/ t.pc = "account" /\ t.tries \in 0..MaxTries
  BY TaskFields DEF Task, Idle
<1> QED
  BY <1>1 DEF Rank

\* One call of handler w, which goes on with t; of the orders that were paid
\* it has changed x only, and it lets go of x when there is nothing left to do.
Turns(w, t, x) ==
  /\ mode = "up" /\ UNCHANGED process
  /\ task' = [task EXCEPT ![w] = t]
  /\ task[w].pc # "idle" => Rank(t) < Rank(task[w])
  /\ Calm(x) /\ rewarded \subseteq rewarded'
  /\ task[w].pc \in Delivering \cup {"reward"} => task[w].order = x
  /\ "store" \notin Faults /\ x \in DOMAIN orders =>
       /\ orders'[x].status = "processing" => t.pc \in Delivering /\ t.order = x
       /\ orders'[x].status = "completed" /\ orders'[x].kind # "topup" =>
            (t.pc = "reward" /\ t.order = x) \/ ~RewardDue(x)'

\* A call that changes no order, and that keeps hold of what is not finished.
LEMMA QuietTurn ==
  ASSUME ShopInv, NEW w \in Workers, NEW t, mode = "up", UNCHANGED <<vars, process>>,
         Goto(w, t), task[w].pc # "idle" => Rank(t) < Rank(task[w]),
         \/ task[w].pc \notin Delivering \cup {"reward"}
         \/ task[w].pc \in Delivering /\ t.pc \in Delivering /\ t.order = task[w].order
         \/ "store" \in Faults
  PROVE  \E x : Turns(w, t, x)
<1>1. /\ UNCHANGED orders /\ rewarded \subseteq rewarded'
      /\ task' = [task EXCEPT ![w] = t] /\ \A x : Calm(x)
  BY StillCalm DEF vars, Goto
<1>2. 0 \notin DOMAIN orders
  BY NotAnOrder
<1>3. task[w].pc \in Delivering => orders[task[w].order].status = "processing"
  BY DEF ShopInv, Stands
<1>4. CASE task[w].pc \notin Delivering \cup {"reward"}
  BY <1>1, <1>2, <1>4 DEF Turns
<1>5. CASE task[w].pc \in Delivering \cup {"reward"}
  BY <1>1, <1>3, <1>5 DEF Turns
<1> QED
  BY <1>4, <1>5

\* The small calls around an order that is not paid yet.
LEMMA OpenTurns ==
  ASSUME ShopInv, NEW w \in Workers,
         \/ \E u \in Users, kind \in Kinds, service \in Services \cup {0}, base \in Amounts :
              Begin(w, u, kind, service, base)
         \/ \E o \in DOMAIN orders, c \in Codes : EnterCode(w, o, c)
         \/ Create(w) \/ TopupToCard(w) \/ CheckLimit(w) \/ CheckOnce(w) \/ ApplyCode(w)
  PROVE  \E t, x : Turns(w, t, x)
<1>1. PICK r : r = task[w]
  OBVIOUS
<1>2. r \in Task /\ Stands(r) /\ 0 \notin DOMAIN orders /\ mode = "up" /\ UNCHANGED process
  BY <1>1, RowOf, NotAnOrder
     DEF Begin, EnterCode, Create, TopupToCard, CheckLimit, CheckOnce, ApplyCode, At
<1>3. ASSUME NEW t, Goto(w, t), r.pc # "idle" => Rank(t) < Rank(r),
             r.pc \notin Delivering \cup {"reward"}, Calm(0), rewarded' = rewarded
      PROVE  \E s, x : Turns(w, s, x)
  BY <1>1, <1>2, <1>3 DEF Turns, Goto
<1>4. ASSUME NEW u \in Users, NEW kind \in Kinds, NEW service \in Services \cup {0},
             NEW base \in Amounts, Begin(w, u, kind, service, base)
      PROVE  \E s, x : Turns(w, s, x)
  <2>1. CancelOpenOrders(u) /\ r.pc = "idle" /\ rewarded' = rewarded
    BY <1>1, <1>4 DEF Begin, At, CancelOpenOrders, wallets
  <2>2. Calm(0)
    BY <2>1, CancelCalm DEF ShopInv
  <2> QED
    BY <1>3, <1>4, <2>1, <2>2 DEF Begin, Delivering
<1>5. ASSUME NEW o \in DOMAIN orders, NEW c \in Codes, EnterCode(w, o, c)
      PROVE  \E s, x : Turns(w, s, x)
  <2>1. r.pc = "idle" /\ rewarded' = rewarded /\ Calm(0)
    BY <1>1, <1>5, StillCalm DEF EnterCode, At, vars
  <2> QED
    BY <1>3, <1>5, <2>1 DEF EnterCode, Delivering
<1>6. Idle.pc = "idle" /\ Rank(Idle) = 0
  BY DEF Idle, Rank
<1>7. CASE Create(w)
  <2>1. /\ CreateOrder(r.user, r.kind, r.service, r.base) /\ r.pc = "create" /\ Rank(r) = 2
        /\ Goto(w, IF r.kind = "topup" THEN Fulfil("card", Len(orders) + 1) ELSE Idle)
    BY <1>1, <1>7 DEF Create, At, Rank
  <2>2. Rank(IF r.kind = "topup" THEN Fulfil("card", Len(orders) + 1) ELSE Idle) < 2
    BY <1>6 DEF Fulfil, Rank
  <2>3. r.user \in Users /\ r.kind \in Kinds /\ r.service \in Services \cup {0} /\ r.base \in Nat
    BY <1>2, <2>1, TaskFields
  <2>4. Calm(0) /\ rewarded' = rewarded
    BY <2>1, <2>3, CreateCalm DEF CreateOrder, wallets, ShopInv
  <2> QED
    BY <1>3, <2>1, <2>2, <2>4 DEF Delivering
<1>8. CASE TopupToCard(w)
  <2>1. r.pc = "card" /\ Rank(r) = 1 /\ Finish(w)
    BY <1>1, <1>8 DEF TopupToCard, At, Rank
  <2>2. r.order \in DOMAIN orders
    BY <1>2, <2>1 DEF Stands, Holding
  <2>3. Calm(0) /\ rewarded' = rewarded
    BY <1>1, <1>8, <2>2, CardCalm, StillCalm DEF TopupToCard, ChooseCard, wallets, vars
  <2> QED
    BY <1>3, <1>6, <2>1, <2>3 DEF Delivering, Finish
<1>9. CASE ApplyCode(w)
  <2>1. r.pc = "apply" /\ Rank(r) = 1 /\ Finish(w)
    BY <1>1, <1>9 DEF ApplyCode, At, Rank
  <2>2. rewarded' = rewarded
    BY <1>9 DEF ApplyCode, ApplyDiscount, wallets, vars
  <2>3. Calm(0)
    BY <1>9, CodeCalm
  <2> QED
    BY <1>3, <1>6, <2>1, <2>2, <2>3 DEF Delivering, Finish
<1>10. CASE CheckLimit(w) \/ CheckOnce(w)
  <2>1. r.pc \in {"limit", "once"} /\ rewarded' = rewarded /\ Calm(0)
    BY <1>1, <1>10, StillCalm DEF CheckLimit, CheckOnce, At, vars
  <2>2. r \in [pc: {"limit", "once", "apply"}, order: Nat, code: Codes]
    BY <1>2, <2>1 DEF Task, Idle
  <2>3. PICK t : /\ Goto(w, t)
                 /\ \/ t = Idle
                    \/ r.pc = "limit" /\ t = [r EXCEPT !.pc = "once"]
                    \/ r.pc = "once" /\ t = [r EXCEPT !.pc = "apply"]
    BY <1>1, <1>10 DEF CheckLimit, CheckOnce, At, Finish
  <2>4. Rank(t) < Rank(r)
    BY <1>6, <2>1, <2>2, <2>3 DEF Rank
  <2> QED
    BY <1>3, <2>1, <2>3, <2>4 DEF Delivering
<1> QED
  BY <1>4, <1>5, <1>7, <1>8, <1>9, <1>10

\* The orders a delivering handler may turn to.
LEMMA SwitchRank ==
  ASSUME NEW o \in Nat, orders[o].kind \in Kinds
  PROVE  LET t == FulfilTask(o)
         IN  t.pc \in Delivering /\ t.order = o /\ Rank(t) \in Nat /\ Rank(t) < 5 + MaxTries
<1> USE ShopAssumption DEF ShopAssumption
<1>1. PICK t : t = FulfilTask(o)
  OBVIOUS
<1>2. /\ t \in Task /\ t.order = o /\ t.pc \in {"topup", "account", "extend"}
      /\ t.pc = "account" <=> orders[o].kind = "purchase"
  BY <1>1, SwitchFits
<1>3. CASE t.pc = "account"
  <2>1. t = [pc |-> "account", order |-> o, tries |-> 0]
    BY <1>1, <1>2, <1>3 DEF FulfilTask
  <2> QED
    BY <1>1, <1>2, <1>3, <2>1 DEF Rank, Delivering
<1>4. CASE t.pc \in {"topup", "extend"}
  BY <1>1, <1>2, <1>4 DEF Rank, Delivering
<1> QED
  BY <1>2, <1>3, <1>4

\* Winning an order: the handler that wins it has it in hand.
LEMMA WinningTurns ==
  ASSUME ShopInv, NEW w \in Workers, NEW o \in DOMAIN orders,
         PayWithWallet(w, o) \/ \E a \in Admins : ApproveReceipt(w, o, a)
  PROVE  \E t, x : Turns(w, t, x)
<1>1. /\ mode = "up" /\ UNCHANGED process /\ task[w].pc = "idle"
      /\ task[w].pc \notin Delivering \cup {"reward"}
  BY DEF PayWithWallet, ApproveReceipt, At, Delivering
<1>2. orders[o] \in Order /\ o \in Nat
  BY OrderFacts, LenProperties DEF ShopInv, TypeOK
<1>3. PICK y, t :
        /\ y \in Order /\ y.user = orders[o].user /\ y.kind = orders[o].kind
        /\ y.service = orders[o].service /\ y.status = "processing"
        /\ Update(o, y) /\ orders[o].status \in {"draft", "awaiting_review"}
        /\ Goto(w, t) /\ t.pc \in Delivering /\ t.order = o
        /\ rewarded' = rewarded
  <2>1. ASSUME PayWithWallet(w, o)
        PROVE  \E y, t :
                 /\ y \in Order /\ y.user = orders[o].user /\ y.kind = orders[o].kind
                 /\ y.service = orders[o].service /\ y.status = "processing"
                 /\ Update(o, y) /\ orders[o].status \in {"draft", "awaiting_review"}
                 /\ Goto(w, t) /\ t.pc \in Delivering /\ t.order = o
                 /\ rewarded' = rewarded
    <3>1. PICK y : y = [orders[o] EXCEPT !.pay = "wallet", !.status = "processing"]
      OBVIOUS
    <3>2. y \in Order
      BY <1>2, <3>1, RowChanges DEF Statuses
    <3>3. /\ y.user = orders[o].user /\ y.kind = orders[o].kind
          /\ y.service = orders[o].service /\ y.status = "processing"
      BY <1>2, <3>1 DEF Order
    <3>4. Update(o, y) /\ orders[o].status = "draft" /\ rewarded' = rewarded
      BY <2>1, <3>1 DEF PayWithWallet, PayFromWallet, Payable
    <3>5. PICK t : t = FulfilTask(o)
      OBVIOUS
    <3>6. t.pc \in Delivering /\ t.order = o
      <4>1. orders[o].kind \in Kinds
        BY <1>2 DEF Order
      <4> QED
        BY <1>2, <3>5, <4>1, SwitchRank
    <3>7. Goto(w, t)
      BY <2>1, <3>5 DEF PayWithWallet
    <3> QED
      BY <3>2, <3>3, <3>4, <3>6, <3>7
  <2>2. ASSUME NEW a \in Admins, ApproveReceipt(w, o, a)
        PROVE  \E y, t :
                 /\ y \in Order /\ y.user = orders[o].user /\ y.kind = orders[o].kind
                 /\ y.service = orders[o].service /\ y.status = "processing"
                 /\ Update(o, y) /\ orders[o].status \in {"draft", "awaiting_review"}
                 /\ Goto(w, t) /\ t.pc \in Delivering /\ t.order = o
                 /\ rewarded' = rewarded
    <3>1. PICK y : y = [orders[o] EXCEPT !.status = "processing", !.decided = a]
      OBVIOUS
    <3>2. y \in Order
      BY <1>2, <3>1, RowChanges DEF Statuses
    <3>3. /\ y.user = orders[o].user /\ y.kind = orders[o].kind
          /\ y.service = orders[o].service /\ y.status = "processing"
      BY <1>2, <3>1 DEF Order
    <3>4. Update(o, y) /\ orders[o].status = "awaiting_review" /\ rewarded' = rewarded
      BY <2>2, <3>1, OrdersAssumption
         DEF ApproveReceipt, Approve, Transition, OrdersAssumption, wallets
    <3>5. PICK t : t = Fulfil("load", o)
      OBVIOUS
    <3>6. t.pc \in Delivering /\ t.order = o
      BY <1>2, <3>5, FulfilRow DEF Delivering
    <3>7. Goto(w, t)
      BY <2>2, <3>5 DEF ApproveReceipt
    <3> QED
      BY <3>2, <3>3, <3>4, <3>6, <3>7
  <2> QED
    BY <2>1, <2>2
<1>4. Calm(o) /\ orders'[o] = y
  BY <1>3, UpdateCalm DEF ShopInv, Terminal
<1> QED
  BY <1>1, <1>3, <1>4 DEF Turns, Goto

\* Deciding what to do next, and the calls to the panel and the services table.
LEMMA DeliveringTurns ==
  ASSUME ShopInv, NEW w \in Workers,
         \/ Load(w) \/ MakeAccount(w) \/ NameClash(w) \/ RecordService(w) \/ RenewAccount(w)
         \/ PanelRefuses(w) \/ RenewalCutShort(w) \/ AnswerLost(w) \/ StoreError(w)
  PROVE  \E t, x : Turns(w, t, x)
<1> USE ShopAssumption DEF ShopAssumption
<1>1. mode = "up" /\ UNCHANGED <<vars, process>>
  BY DEF Load, MakeAccount, NameClash, RecordService, RenewAccount, PanelRefuses, RenewalCutShort,
         AnswerLost, StoreError, At
<1>2. PICK r : r = task[w]
  OBVIOUS
<1>3. r \in Task /\ Stands(r) /\ r.pc # "idle"
  BY <1>2, RowOf DEF Load, MakeAccount, NameClash, RecordService, RenewAccount, PanelRefuses,
     RenewalCutShort, AnswerLost, StoreError, At
<1>4. /\ r.pc = "account" => r.tries \in 0..MaxTries
      /\ r.pc \in Delivering => r.order \in Nat /\ r.order \in DOMAIN orders
                                /\ orders[r.order].kind \in Kinds
  <2>1. r.pc \in Delivering => r.order \in DOMAIN orders
    BY <1>3 DEF Stands, Holding
  <2>2. orders \in Seq(Order) /\ DOMAIN orders = 1..Len(orders) /\ Len(orders) \in Nat
    BY LenProperties DEF ShopInv, TypeOK
  <2>3. \A o \in DOMAIN orders : o \in Nat /\ orders[o] \in Order
    BY <2>2, OrderFacts
  <2>4. \A o \in DOMAIN orders : o \in Nat /\ orders[o].kind \in Kinds
    BY <2>3 DEF Order
  <2> QED
    BY <1>3, <2>1, <2>4, TaskFields
<1>5. ASSUME NEW t, Goto(w, t), Rank(t) < Rank(r),
             \/ r.pc \in Delivering /\ t.pc \in Delivering /\ t.order = r.order
             \/ "store" \in Faults
      PROVE  \E s, x : Turns(w, s, x)
  BY <1>1, <1>2, <1>5, QuietTurn
<1>6. \A o : /\ Fulfil("fail", o).pc = "fail" /\ Fulfil("fail", o).order = o
             /\ Fulfil("complete", o).pc = "complete" /\ Fulfil("complete", o).order = o
             /\ Rank(Fulfil("fail", o)) = 1 /\ Rank(Fulfil("complete", o)) = 2
  BY DEF Fulfil, Rank
<1>7. /\ r.pc = "load" => Rank(r) = 5 + MaxTries
      /\ r.pc = "account" => Rank(r) = 4 + MaxTries - r.tries
      /\ r.pc \in {"record", "extend"} => Rank(r) = 3
  BY DEF Rank
<1>8. CASE Load(w)
  <2>1. r.pc = "load" /\ Goto(w, FulfilTask(r.order)) /\ r.pc \in Delivering
    BY <1>2, <1>8 DEF Load, At, Delivering
  <2>2. PICK t : t = FulfilTask(r.order)
    OBVIOUS
  <2>3. t.pc \in Delivering /\ t.order = r.order /\ Rank(t) < 5 + MaxTries
    BY <1>4, <2>1, <2>2, SwitchRank
  <2> QED
    BY <1>5, <1>7, <2>1, <2>2, <2>3
<1>9. CASE MakeAccount(w)
  <2>1. PICK n \in Names : Goto(w, [pc |-> "record", order |-> r.order, name |-> n])
    BY <1>2, <1>9 DEF MakeAccount
  <2>2. PICK t : t = [pc |-> "record", order |-> r.order, name |-> n]
    OBVIOUS
  <2>3. t.pc = "record" /\ t.order = r.order /\ Rank(t) = 3 /\ r.pc = "account"
    BY <1>2, <1>9, <2>2 DEF Rank, MakeAccount, At
  <2> QED
    BY <1>4, <1>5, <1>7, <2>1, <2>2, <2>3 DEF Delivering
<1>10. CASE NameClash(w)
  <2>1. /\ r.pc = "account"
        /\ Goto(w, IF r.tries + 1 < MaxTries THEN [r EXCEPT !.tries = r.tries + 1]
                   ELSE Fulfil("fail", r.order))
    BY <1>2, <1>10 DEF NameClash, At
  <2>2. r \in [pc: {"account"}, order: Nat, tries: 0..MaxTries]
    BY <1>3, <2>1 DEF Task, Idle
  <2>3. PICK t : t = [r EXCEPT !.tries = r.tries + 1]
    OBVIOUS
  <2>4. t.pc = "account" /\ t.order = r.order /\ t.tries = r.tries + 1
    BY <2>2, <2>3
  <2>5. Rank(t) = 4 + MaxTries - t.tries
    BY <2>4 DEF Rank
  <2>6. r.pc \in Delivering /\ t.pc \in Delivering /\ Fulfil("fail", r.order).pc \in Delivering
    BY <1>6, <2>1, <2>4 DEF Delivering
  <2>7. Rank(t) < Rank(r) /\ Rank(Fulfil("fail", r.order)) < Rank(r)
    BY <1>4, <1>6, <1>7, <2>1, <2>4, <2>5
  <2>8. CASE r.tries + 1 < MaxTries
    BY <1>5, <2>1, <2>3, <2>4, <2>6, <2>7, <2>8
  <2>9. CASE ~(r.tries + 1 < MaxTries)
    BY <1>5, <1>6, <2>1, <2>6, <2>7, <2>9
  <2> QED
    BY <2>8, <2>9
<1>11. CASE RecordService(w) \/ RenewAccount(w)
  BY <1>2, <1>5, <1>6, <1>7, <1>11 DEF RecordService, RenewAccount, At, Delivering
<1>12. CASE PanelRefuses(w) \/ RenewalCutShort(w) \/ AnswerLost(w)
  <2>1. Goto(w, Fulfil("fail", r.order)) /\ r.pc \in {"account", "extend"}
    BY <1>2, <1>12 DEF PanelRefuses, RenewalCutShort, AnswerLost, At
  <2> QED
    BY <1>4, <1>5, <1>6, <1>7, <2>1 DEF Delivering
<1>13. CASE StoreError(w)
  <2>1. /\ "store" \in Faults
        /\ Goto(w, IF r.pc \in {"topup", "account", "record", "extend"}
                   THEN Fulfil("fail", r.order) ELSE Idle)
    BY <1>2, <1>13 DEF StoreError
  <2>2. Rank(Idle) = 0
    BY DEF Idle, Rank
  <2>3. r.pc \in {"topup", "account", "record", "extend"} => Rank(r) > 1
    BY <1>4 DEF Rank
  <2>4. Rank(r) > 0
    BY <1>3, RanksAreCounts
  <2> QED
    BY <1>5, <1>6, <2>1, <2>2, <2>3, <2>4
<1> QED
  BY <1>8, <1>9, <1>10, <1>11, <1>12, <1>13
\* Closing an order, and the reward that goes with it.
LEMMA ClosingTurns ==
  ASSUME ShopInv, NEW w \in Workers, CreditTopup(w) \/ Complete(w) \/ GiveUp(w) \/ PayReward(w)
  PROVE  \E t, x : Turns(w, t, x)
<1>1. mode = "up" /\ UNCHANGED process
  BY DEF CreditTopup, Complete, GiveUp, PayReward, At
<1>2. PICK r : r = task[w]
  OBVIOUS
<1>3. PICK o : o = r.order
  OBVIOUS
<1>4. /\ r \in Task /\ Stands(r) /\ o \in DOMAIN orders
      /\ r.pc \in {"topup", "complete", "fail"} => Processing(o)
  <2>1. r \in Task /\ Stands(r) /\ r.pc \in {"topup", "complete", "fail", "reward"}
    BY <1>2, RowOf DEF CreditTopup, Complete, GiveUp, PayReward, At
  <2> QED
    BY <1>3, <2>1 DEF Stands, Holding, Delivering, Processing
<1>5. Rank(Idle) = 0 /\ \A p : /\ Rank(Fulfil("reward", p)) = 1
                               /\ Fulfil("reward", p).pc = "reward"
                               /\ Fulfil("reward", p).order = p
  BY DEF Rank, Idle, Fulfil
<1>6. Rank(r) > 0 /\ (r.pc = "complete" => Rank(r) = 2)
  BY <1>2, <1>4, RanksAreCounts DEF CreditTopup, Complete, GiveUp, PayReward, At, Rank
<1>7. ASSUME NEW status \in {"completed", "failed"}, SetStatus(o, status), Processing(o),
             NEW t, Goto(w, t), Rank(t) < Rank(r), rewarded' = rewarded,
             status = "completed" /\ orders[o].kind # "topup" => t.pc = "reward" /\ t.order = o
      PROVE  \E s, x : Turns(w, s, x)
  <2>1. Calm(o) /\ orders'[o].status = status /\ orders'[o].kind = orders[o].kind
    BY <1>4, <1>7, CloseFacts
  <2> QED
    BY <1>1, <1>2, <1>3, <1>7, <2>1 DEF Turns, Goto
<1>8. CASE CreditTopup(w)
  <2>1. r.pc = "topup" /\ Processing(o) /\ orders[o].kind = "topup"
    BY <1>2, <1>3, <1>4, <1>8 DEF CreditTopup, At, Stands
  <2>2. CompleteTopup(o) /\ Goto(w, Idle)
    BY <1>2, <1>3, <1>8, <2>1 DEF CreditTopup, Finish
  <2>3. SetStatus(o, "completed") /\ rewarded' = rewarded
    BY <2>2 DEF CompleteTopup
  <2> QED
    BY <1>5, <1>6, <1>7, <2>1, <2>2, <2>3
<1>9. CASE Complete(w)
  <2>1. r.pc = "complete" /\ Processing(o)
    BY <1>2, <1>4, <1>9 DEF Complete, At
  <2>2. CompleteOrder(o) /\ Goto(w, Fulfil("reward", o))
    BY <1>2, <1>3, <1>9, <2>1 DEF Complete
  <2>3. SetStatus(o, "completed") /\ rewarded' = rewarded
    BY <2>2 DEF CompleteOrder, wallets
  <2> QED
    BY <1>5, <1>6, <1>7, <2>1, <2>2, <2>3
<1>10. CASE GiveUp(w)
  <2>1. r.pc = "fail" /\ Processing(o)
    BY <1>2, <1>4, <1>10 DEF GiveUp, At
  <2>2. FailOrder(o) /\ Goto(w, Idle)
    BY <1>2, <1>3, <1>10, <2>1 DEF GiveUp, Finish
  <2>3. SetStatus(o, "failed") /\ rewarded' = rewarded
    BY <2>2 DEF FailOrder
  <2> QED
    BY <1>5, <1>6, <1>7, <2>1, <2>2, <2>3
<1>11. CASE PayReward(w)
  <2>1. r.pc = "reward" /\ RewardReferrer(o) /\ Goto(w, Idle)
    BY <1>2, <1>3, <1>11 DEF PayReward, At, Finish
  <2>2. UNCHANGED orders /\ rewarded \subseteq rewarded' /\ ~RewardDue(o)'
    BY <2>1 DEF RewardReferrer, RewardDue, vars
  <2>3. orders'[o].status # "processing"
    BY <1>3, <1>4, <2>1, <2>2 DEF Stands
  <2> QED
    BY <1>1, <1>2, <1>3, <1>5, <1>6, <2>1, <2>2, <2>3, StillCalm DEF Turns, Goto
<1> QED
  BY <1>8, <1>9, <1>10, <1>11

\* Every call of a handler is a turn.
LEMMA HandlersTurn ==
  ASSUME ShopInv, NEW w \in Workers, Request(w) \/ Step(w)
  PROVE  \E t, x : Turns(w, t, x)
<1>1. CASE Request(w)
  BY <1>1, OpenTurns, WinningTurns DEF Request
<1>2. CASE Step(w)
  BY <1>2, OpenTurns, DeliveringTurns, ClosingTurns DEF Step
<1> QED
  BY <1>1, <1>2

\* A step leaves the handlers alone, lets one of them turn, or stops them all.
LEMMA StepIsTurn ==
  ASSUME ShopInv, [ShopNext]_shopVars
  PROVE  \/ \E w \in Workers : \E t, x : Turns(w, t, x)
         \/ UNCHANGED <<task, process>> /\ Calm(0) /\ rewarded \subseteq rewarded'
         \/ Crash
         \/ Restart
<1>1. ASSUME NEW w \in Workers, Request(w) \/ Step(w)
      PROVE  \E v \in Workers : \E t, x : Turns(v, t, x)
  BY <1>1, HandlersTurn
<1>2. CASE Tap
  <2>1. UNCHANGED <<task, process>> /\ rewarded' = rewarded
    BY <1>2 DEF Tap, SubmitReceipt, AdjustWallet, PayByCard, RejectReceipt, AttachReceipt,
       AdminAdjust, AdjustBalance, ChooseCard, Reject, Transition, wallets
  <2>2. Calm(0)
    BY <1>2, TapCalm
  <2> QED
    BY <2>1, <2>2
<1>3. CASE UNCHANGED shopVars
  BY <1>3, StillCalm DEF shopVars, vars, process
<1> QED
  BY <1>1, <1>2, <1>3 DEF ShopNext

Holds(w, o) == task[w].pc \in Delivering /\ task[w].order = o

\* The store works, and no more handlers run than a start can recover from.
Careful == "store" \notin Faults /\ Cardinality(Workers) <= RecoverLimit

\* Who sees to an order in processing: the next start, this start, a handler.
SeenTo(o) ==
  \/ mode = "down"
  \/ mode = "starting" /\ o \in stuck
  \/ \E w \in Workers : Holds(w, o)

AllSeenTo ==
  /\ Cardinality(InProcessing) <= Cardinality(Workers)
  /\ \A o \in InProcessing : SeenTo(o)

\* Orders are finitely many, and so are those in processing.
LEMMA InProcessingFinite ==
  ASSUME TypeOK PROVE IsFiniteSet(InProcessing) /\ Cardinality(InProcessing) \in Nat
<1>1. DOMAIN orders = 1..Len(orders) /\ Len(orders) \in Nat
  BY LenProperties DEF TypeOK
<1>2. IsFiniteSet(DOMAIN orders)
  BY <1>1, FS_Interval
<1> QED
  BY <1>2, FS_Subset, FS_CardinalityType DEF InProcessing

\* Things that are each in the hands of a handler are as few as those.
LEMMA FewInHands ==
  ASSUME NEW S, NEW f, \A o \in S : \E w \in Workers : f[w].order = o
  PROVE  Cardinality(S) <= Cardinality(Workers)
<1> DEFINE held == {f[w].order : w \in Workers}
<1>1. IsFiniteSet(Workers)
  BY ShopAssumption DEF ShopAssumption
<1>2. IsFiniteSet(held) /\ Cardinality(held) <= Cardinality(Workers)
  <2>1. PICK g : g = [w \in Workers |-> f[w].order]
    OBVIOUS
  <2>2. g \in Surjection(Workers, held)
    BY <2>1 DEF Surjection
  <2> QED
    BY <1>1, <2>2, FS_Surjection
<1>3. S \subseteq held
  OBVIOUS
<1>4. Cardinality(S) <= Cardinality(held) /\ IsFiniteSet(S)
  BY <1>2, <1>3, FS_Subset
<1> QED
  BY <1>1, <1>2, <1>4, FS_CardinalityType

\* A start that may recover as many orders as there are lists them all.
LEMMA AllAreListed ==
  ASSUME TypeOK, Cardinality(InProcessing) <= RecoverLimit
  PROVE  Interrupted = InProcessing
<1>1. SUFFICES ASSUME NEW o \in InProcessing
               PROVE  Cardinality({p \in InProcessing : p < o}) < RecoverLimit
  BY DEF Interrupted
<1> DEFINE older == {p \in InProcessing : p < o}
<1>2. IsFiniteSet(InProcessing) /\ Cardinality(InProcessing) \in Nat
  BY InProcessingFinite
<1>3. o \in Nat
  BY LenProperties DEF InProcessing, TypeOK
<1>4. older \subseteq InProcessing \ {o}
  BY <1>3
<1>5. /\ IsFiniteSet(InProcessing \ {o})
      /\ Cardinality(InProcessing \ {o}) = Cardinality(InProcessing) - 1
  BY <1>2, FS_RemoveElement
<1>6. Cardinality(older) <= Cardinality(InProcessing) - 1 /\ Cardinality(older) \in Nat
  BY <1>4, <1>5, FS_Subset, FS_CardinalityType
<1> QED
  BY <1>2, <1>6, ShopAssumption DEF ShopAssumption

\* What is in processing after a step that is calm but for x.
LEMMA CalmProcessing ==
  ASSUME NEW x, Calm(x), NEW o \in InProcessing', o # x
  PROVE  o \in InProcessing
BY DEF Calm, InProcessing, Processing, Won

\* A turn leaves every order in processing in somebody's hands.
LEMMA TurnSeesTo ==
  ASSUME ShopInv, "store" \notin Faults, \A o \in InProcessing : \E v \in Workers : Holds(v, o),
         NEW w \in Workers, NEW t, NEW x, Turns(w, t, x), NEW o \in InProcessing'
  PROVE  \E v \in Workers : Holds(v, o)'
<1>1. task' = [task EXCEPT ![w] = t] /\ task \in [Workers -> Task] /\ Calm(x)
  BY DEF Turns, ShopInv
<1>2. task'[w] = t /\ \A v \in Workers \ {w} : task'[v] = task[v]
  BY <1>1
<1>3. CASE o = x
  <2>1. x \in DOMAIN orders
    BY <1>1, <1>3 DEF Calm, InProcessing, Processing
  <2>2. t.pc \in Delivering /\ t.order = x
    BY <1>3, <2>1 DEF Turns, InProcessing, Processing
  <2> QED
    BY <1>2, <1>3, <2>2 DEF Holds
<1>4. CASE o # x
  <2>1. PICK v \in Workers : Holds(v, o)
    BY <1>1, <1>4, CalmProcessing
  <2>2. v # w
    BY <1>4, <2>1 DEF Turns, Holds
  <2> QED
    BY <1>2, <2>1, <2>2 DEF Holds
<1> QED
  BY <1>3, <1>4

\* Start-up: every order in processing is failed before the first request.
LEMMA RestartSeesTo ==
  ASSUME ShopInv, Careful, AllSeenTo, Restart
  PROVE  /\ InProcessing' \subseteq InProcessing
         /\ \A o \in InProcessing' : SeenTo(o)'
<1>1. CASE StartUp
  <2>1. stuck' = Interrupted /\ mode' = "starting" /\ UNCHANGED orders
    BY <1>1 DEF StartUp, Careful, vars
  <2>2. Interrupted = InProcessing
    <3>1. Cardinality(InProcessing) <= RecoverLimit
      BY InProcessingFinite, ShopAssumption, FS_CardinalityType
         DEF Careful, AllSeenTo, ShopAssumption, ShopInv
    <3> QED
      BY <3>1, AllAreListed DEF ShopInv
  <2> QED
    BY <2>1, <2>2 DEF SeenTo, InProcessing, Processing
<1>2. ASSUME NEW p \in stuck, RecoverOne(p)
      PROVE  /\ InProcessing' \subseteq InProcessing
             /\ \A o \in InProcessing' : SeenTo(o)'
  <2>1. FailOrder(p) /\ mode = "starting" /\ mode' = "starting" /\ stuck' = stuck \ {p}
        /\ UNCHANGED task
    BY <1>2 DEF RecoverOne, Careful
  <2>2. p \in DOMAIN orders /\ Processing(p)
    BY <2>1 DEF FailOrder, ShopInv, ProcessOK
  <2>3. Calm(p) /\ orders'[p].status = "failed"
    BY <2>1, <2>2, CloseFacts DEF FailOrder
  <2>4. \A o \in InProcessing' : o # p /\ o \in InProcessing
    BY <2>3, CalmProcessing DEF InProcessing, Processing
  <2>5. \A o \in InProcessing : o \in stuck
    <3>1. \A v \in Workers : task[v].pc \notin Delivering
      BY <2>1, IdleNow DEF ShopInv, ProcessOK, Delivering
    <3> QED
      BY <2>1, <3>1 DEF AllSeenTo, SeenTo, Holds
  <2> QED
    BY <2>1, <2>4, <2>5 DEF SeenTo
<1>3. CASE Serve
  <2>1. mode = "starting" /\ stuck = {} /\ UNCHANGED orders
    BY <1>3 DEF Serve, vars
  <2>2. \A v \in Workers : task[v].pc \notin Delivering
    BY <2>1, IdleNow DEF ShopInv, ProcessOK, Delivering
  <2>3. InProcessing = {}
    BY <2>1, <2>2 DEF AllSeenTo, SeenTo, Holds
  <2> QED
    BY <2>1, <2>3 DEF InProcessing, Processing
<1> QED
  BY <1>1, <1>2, <1>3 DEF Restart

\* No step leaves an order in processing behind.
LEMMA StepSeesTo ==
  ShopInv /\ ShopInv' /\ Careful /\ AllSeenTo /\ [ShopNext]_shopVars => AllSeenTo'
<1> SUFFICES ASSUME ShopInv, ShopInv', Careful, AllSeenTo, [ShopNext]_shopVars
             PROVE  AllSeenTo'
  OBVIOUS
<1>1. /\ TypeOK /\ TypeOK' /\ IsFiniteSet(InProcessing)
      /\ Cardinality(InProcessing) \in Nat /\ Cardinality(Workers) \in Nat
  BY InProcessingFinite, ShopAssumption, FS_CardinalityType DEF ShopInv, ShopAssumption
<1>2. ASSUME InProcessing' \subseteq InProcessing
      PROVE  Cardinality(InProcessing') <= Cardinality(Workers)
  <2>1. Cardinality(InProcessing') <= Cardinality(InProcessing) /\ IsFiniteSet(InProcessing')
    BY <1>1, <1>2, FS_Subset
  <2> QED
    BY <1>1, <2>1, FS_CardinalityType DEF AllSeenTo
<1>3. ASSUME NEW w \in Workers, NEW t, NEW x, Turns(w, t, x) PROVE AllSeenTo'
  <2>1. mode = "up" /\ mode' = "up"
    BY <1>3 DEF Turns, process
  <2>2. \A o \in InProcessing : \E v \in Workers : Holds(v, o)
    BY <2>1 DEF AllSeenTo, SeenTo
  <2>3. \A o \in InProcessing' : \E v \in Workers : Holds(v, o)'
    BY <1>3, <2>2, TurnSeesTo DEF Careful
  <2>4. Cardinality(InProcessing') <= Cardinality(Workers)
    BY <2>3, FewInHands DEF Holds
  <2> QED
    BY <2>3, <2>4 DEF AllSeenTo, SeenTo
<1>4. CASE UNCHANGED <<task, process>> /\ Calm(0)
  <2>1. \A o \in InProcessing' : o \in InProcessing
    <3>1. \A o \in DOMAIN orders' : o # 0
      BY <1>1, LenProperties DEF TypeOK
    <3> QED
      BY <1>4, <3>1, CalmProcessing DEF InProcessing
  <2>2. \A o \in InProcessing' : SeenTo(o)'
    BY <1>4, <2>1 DEF AllSeenTo, SeenTo, Holds, process
  <2> QED
    BY <1>2, <2>1, <2>2 DEF AllSeenTo
<1>5. CASE Crash
  <2>1. mode' = "down" /\ UNCHANGED orders
    BY <1>5 DEF Crash, vars
  <2>2. InProcessing' = InProcessing
    BY <2>1 DEF InProcessing, Processing
  <2> QED
    BY <1>2, <2>1, <2>2 DEF AllSeenTo, SeenTo
<1>6. CASE Restart
  BY <1>2, <1>6, RestartSeesTo DEF AllSeenTo
<1> QED
  BY <1>3, <1>4, <1>5, <1>6, StepIsTurn

(* A paid order is never left hanging: while it is in processing a handler *)
(* has it in hand or the next start finds it, across any crash, as long as *)
(* the store works and at most RecoverLimit handlers run at a time         *)
(* (fulfil, RecoverInterrupted).                                           *)
THEOREM PaidOrdersAreSeenTo == ShopSpec => [](Careful => AllSeenTo)
<1>1. ShopInit => AllSeenTo
  <2> SUFFICES ASSUME ShopInit PROVE AllSeenTo
    OBVIOUS
  <2>1. InProcessing = {}
    BY DEF ShopInit, Init, InProcessing
  <2>2. Cardinality(InProcessing) = 0 /\ Cardinality(Workers) \in Nat
    BY <2>1, FS_EmptySet, ShopAssumption, FS_CardinalityType DEF ShopAssumption
  <2> QED
    BY <2>1, <2>2 DEF AllSeenTo
<1>2. ShopInv /\ ShopInv' /\ (Careful => AllSeenTo) /\ [ShopNext]_shopVars => (Careful => AllSeenTo)'
  BY StepSeesTo DEF Careful
<1> QED
  BY <1>1, <1>2, ShopKeepsInvariant, PTL DEF ShopSpec

\* Every call of its own brings a handler closer to its end, and nothing that
\* others do takes it further away.
HandlersEnd ==
  [][\A w \in Workers :
       /\ Step(w) => Rank(task'[w]) < Rank(task[w])
       /\ task[w].pc # "idle" => task'[w] = task[w] \/ Rank(task'[w]) < Rank(task[w])]_shopVars

\* A handler lets go of an order when it is closed.
NothingIsDropped ==
  [][\A w \in Workers, o \in DOMAIN orders : Holds(w, o) /\ mode' = "up" =>
       Holds(w, o)' \/ orders'[o].status \in {"completed", "failed"}]_shopVars

(* A request is handled in a few calls: after at most MaxTries + 5 calls   *)
(* of its own, whatever they return and whoever runs in between, a handler *)
(* has ended (createAccount draws at most MaxTries names; no other loop).  *)
THEOREM HandlersComeToAnEnd ==
  ShopSpec => HandlersEnd /\ [](\A w \in Workers : Rank(task[w]) \in 0..(5 + MaxTries))
<1>1. ShopInv => \A w \in Workers : Rank(task[w]) \in 0..(5 + MaxTries)
  BY RowOf, RanksAreCounts
<1>2. ASSUME ShopInv, [ShopNext]_shopVars, NEW w \in Workers
      PROVE  /\ Step(w) => Rank(task'[w]) < Rank(task[w])
             /\ task[w].pc # "idle" => task'[w] = task[w] \/ Rank(task'[w]) < Rank(task[w])
  <2>0. task \in [Workers -> Task] /\ \A v \in Workers : task[v].pc # "idle" => Rank(task[v]) > 0
    BY <1>2, RanksAreCounts DEF ShopInv
  <2>1. ASSUME NEW v \in Workers, NEW t, NEW x, Turns(v, t, x)
        PROVE  task'[v] = t /\ \A u \in Workers \ {v} : task'[u] = task[u]
    BY <2>0, <2>1 DEF Turns
  <2>2. ASSUME Step(w) PROVE Rank(task'[w]) < Rank(task[w])
    <3>1. task[w].pc # "idle"
      BY <2>2 DEF Step, Create, TopupToCard, CheckLimit, CheckOnce, ApplyCode, Load, CreditTopup,
         MakeAccount, NameClash, RecordService, RenewAccount, PanelRefuses, RenewalCutShort,
         AnswerLost, StoreError, Complete, PayReward, GiveUp, At
    <3>2. PICK t, x : Turns(w, t, x)
      BY <1>2, <2>2, HandlersTurn
    <3>3. task'[w] = t
      BY <2>1, <3>2
    <3> QED
      BY <3>1, <3>2, <3>3 DEF Turns
  <2>3. ASSUME task[w].pc # "idle"
        PROVE  task'[w] = task[w] \/ Rank(task'[w]) < Rank(task[w])
    <3>1. ASSUME NEW v \in Workers, NEW t, NEW x, Turns(v, t, x)
          PROVE  task'[w] = task[w] \/ Rank(task'[w]) < Rank(task[w])
      <4>1. CASE v = w
        <5>1. Rank(t) < Rank(task[w]) /\ task'[w] = t
          BY <2>1, <2>3, <3>1, <4>1 DEF Turns
        <5> QED
          BY <5>1
      <4>2. CASE v # w
        BY <2>1, <3>1, <4>2
      <4> QED
        BY <4>1, <4>2
    <3>2. CASE Crash
      <4>1. task'[w] = Idle /\ Rank(Idle) = 0
        BY <3>2 DEF Crash, Rank, Idle
      <4> QED
        BY <2>0, <2>3, <4>1
    <3>3. CASE Restart \/ UNCHANGED <<task, process>>
      BY <3>3 DEF Restart, StartUp, RecoverOne, Serve
    <3> QED
      BY <1>2, <3>1, <3>2, <3>3, StepIsTurn
  <2> QED
    BY <2>2, <2>3
<1>3. ShopInv /\ [ShopNext]_shopVars => [\A w \in Workers :
        /\ Step(w) => Rank(task'[w]) < Rank(task[w])
        /\ task[w].pc # "idle" => task'[w] = task[w] \/ Rank(task'[w]) < Rank(task[w])]_shopVars
  BY <1>2
<1> QED
  BY <1>1, <1>3, ShopKeepsInvariant, PTL DEF ShopSpec, HandlersEnd

(* A delivery ends with the order completed or failed: while the process   *)
(* runs and the store works, the handler that won an order lets go of it   *)
(* when it has closed it, and not before (fulfil).                         *)
THEOREM DeliveriesAreClosed == ShopSpec => ("store" \notin Faults => NothingIsDropped)
<1>1. ASSUME ShopInv, [ShopNext]_shopVars, "store" \notin Faults, NEW w \in Workers,
             NEW o \in DOMAIN orders, Holds(w, o), mode' = "up"
      PROVE  Holds(w, o)' \/ orders'[o].status \in {"completed", "failed"}
  <2>0. /\ mode = "up" /\ orders[o].status = "processing"
        /\ task \in [Workers -> Task]
    BY <1>1, IdleNow DEF ShopInv, ProcessOK, SingleWorker, Holds, Delivering
  <2>1. ASSUME NEW v \in Workers, NEW t, NEW x, Turns(v, t, x)
        PROVE  Holds(w, o)' \/ orders'[o].status \in {"completed", "failed"}
    <3>1. task' = [task EXCEPT ![v] = t] /\ Calm(x)
      BY <2>1 DEF Turns
    <3>2. CASE v # w
      BY <1>1, <2>0, <3>1, <3>2 DEF Holds
    <3>3. CASE v = w
      <4>1. o = x /\ orders'[o].status \in Won
        BY <1>1, <2>0, <2>1, <3>1, <3>3 DEF Turns, Holds, Calm, Won
      <4>2. orders'[o].status = "processing" => t.pc \in Delivering /\ t.order = o
        BY <1>1, <2>1, <4>1 DEF Turns
      <4> QED
        BY <2>0, <3>1, <3>3, <4>1, <4>2 DEF Holds, Won
    <3> QED
      BY <3>2, <3>3
  <2>2. CASE UNCHANGED <<task, process>>
    BY <1>1, <2>2 DEF Holds
  <2>3. ~Crash /\ ~Restart
    BY <1>1, <2>0 DEF Crash, Restart, StartUp, RecoverOne, Serve
  <2> QED
    BY <1>1, <2>1, <2>2, <2>3, StepIsTurn
<1>2. ShopInv /\ [ShopNext]_shopVars /\ "store" \notin Faults =>
        [\A w \in Workers, o \in DOMAIN orders : Holds(w, o) /\ mode' = "up" =>
           Holds(w, o)' \/ orders'[o].status \in {"completed", "failed"}]_shopVars
  BY <1>1
<1>3. CASE "store" \notin Faults
  BY <1>2, <1>3, ShopKeepsInvariant, PTL DEF ShopSpec, NothingIsDropped
<1> QED
  BY <1>3

\* A completed sale whose reward is still due has the handler that pays it.
RewardsUnderWay ==
  \A o \in DOMAIN orders :
    orders[o].status = "completed" /\ orders[o].kind # "topup" /\ RewardDue(o) =>
      \E w \in Workers : task[w].pc = "reward" /\ task[w].order = o

\* Nothing has stopped a handler before its last call.
Undisturbed == "store" \notin Faults /\ crashes = 0

(* An inviter waits for nothing but the handler: as long as the store      *)
(* works and the process has not crashed, a completed sale whose reward is *)
(* due has a handler about to pay it (fulfil's call of RewardReferrer).    *)
THEOREM RewardsAreUnderWay == ShopSpec => [](Undisturbed => RewardsUnderWay)
<1>1. ShopInit => RewardsUnderWay
  BY DEF ShopInit, Init, RewardsUnderWay
<1>2. ASSUME ShopInv, [ShopNext]_shopVars, Undisturbed => RewardsUnderWay, Undisturbed',
             NEW o \in DOMAIN orders', orders'[o].status = "completed",
             orders'[o].kind # "topup", RewardDue(o)'
      PROVE  \E w \in Workers : task'[w].pc = "reward" /\ task'[w].order = o
  <2>0. task \in [Workers -> Task]
    BY <1>2 DEF ShopInv
  <2>1. ASSUME NEW x, Calm(x), o # x, rewarded \subseteq rewarded', crashes' = crashes
        PROVE  \E w \in Workers : task[w].pc = "reward" /\ task[w].order = o
    <3>1. /\ o \in DOMAIN orders /\ orders[o].status = "completed"
          /\ orders[o].user = orders'[o].user /\ orders[o].kind = orders'[o].kind
      BY <1>2, <2>1 DEF Calm, Won
    <3>2. RewardDue(o)
      BY <1>2, <2>1, <3>1 DEF RewardDue
    <3> QED
      BY <1>2, <2>1, <3>1, <3>2 DEF RewardsUnderWay, Undisturbed
  <2>2. ASSUME NEW v \in Workers, NEW t, NEW x, Turns(v, t, x)
        PROVE  \E w \in Workers : task'[w].pc = "reward" /\ task'[w].order = o
    <3>1. /\ task' = [task EXCEPT ![v] = t] /\ Calm(x)
          /\ rewarded \subseteq rewarded' /\ crashes' = crashes
      BY <2>2 DEF Turns, process
    <3>2. task'[v] = t /\ \A w \in Workers \ {v} : task'[w] = task[w]
      BY <2>0, <3>1
    <3>3. CASE o = x
      <4>1. o \in DOMAIN orders
        BY <1>2, <3>1 DEF Calm
      <4>2. t.pc = "reward" /\ t.order = o
        BY <1>2, <2>2, <3>3, <4>1 DEF Turns, Undisturbed
      <4> QED
        BY <3>2, <4>2
    <3>4. CASE o # x
      <4>1. PICK w \in Workers : task[w].pc = "reward" /\ task[w].order = o
        BY <2>1, <3>1, <3>4
      <4>2. w # v
        BY <2>2, <3>4, <4>1 DEF Turns
      <4> QED
        BY <3>2, <4>1, <4>2
    <3> QED
      BY <3>3, <3>4
  <2>3. CASE UNCHANGED <<task, process>> /\ Calm(0) /\ rewarded \subseteq rewarded'
    <3>1. o # 0 \/ o \in DOMAIN orders
      <4>1. 0 \notin DOMAIN orders'
        BY <1>2, ShopStep, LenProperties DEF ShopInv, TypeOK
      <4> QED
        BY <4>1
    <3>2. o # 0
      BY <1>2, <3>1, NotAnOrder
    <3> QED
      BY <2>1, <2>3, <3>2 DEF process
  <2>4. ~Crash /\ ~Restart
    <3>1. ASSUME Crash PROVE FALSE
      BY <1>2, <3>1 DEF Crash, Undisturbed, ShopInv, ProcessOK
    <3>2. ASSUME Restart PROVE FALSE
      <4>1. mode # "up" /\ crashes' = crashes
        BY <3>2 DEF Restart, StartUp, RecoverOne, Serve
      <4> QED
        BY <1>2, <4>1 DEF Undisturbed, ShopInv, ProcessOK
    <3> QED
      BY <3>1, <3>2
  <2> QED
    BY <1>2, <2>2, <2>3, <2>4, StepIsTurn
<1>3. ShopInv /\ [ShopNext]_shopVars /\ (Undisturbed => RewardsUnderWay)
      => (Undisturbed => RewardsUnderWay)'
  BY <1>2 DEF RewardsUnderWay
<1> QED
  BY <1>1, <1>3, ShopKeepsInvariant, PTL DEF ShopSpec

-----------------------------------------------------------------------------
(* What it takes to have two open orders.                                  *)

\* A start of customer u has cancelled what was open and not created its order.
Starting(w, u) == task[w].pc = "create" /\ task[w].user = u

\* No two starts of customer u are between their cancel and their create at once.
OneStart(u) == \A v, w \in Workers : Starting(v, u) /\ Starting(w, u) => v = w

OpenOf(u) == {o \in DOMAIN orders : orders[o].user = u /\ orders[o].status \in Open}

\* Of customer u one order is open at most, and none while a start is about to
\* create one.
OneAtMost(u) ==
  /\ \A o, p \in OpenOf(u) : o = p
  /\ \A w \in Workers : Starting(w, u) => OpenOf(u) = {}

\* No order is opened again, and none changes hands.
LEMMA NeverReopened ==
  ASSUME TypeOK, [Next]_vars
  PROVE  \A o \in DOMAIN orders :
           /\ o \in DOMAIN orders' /\ orders'[o].user = orders[o].user
           /\ orders'[o].status \in Open => orders[o].status \in Open
<1> SUFFICES ASSUME NEW o \in DOMAIN orders
             PROVE  /\ o \in DOMAIN orders' /\ orders'[o].user = orders[o].user
                    /\ orders'[o].status \in Open => orders[o].status \in Open
  OBVIOUS
<1>1. PICK x, y : x = orders[o] /\ y = orders'[o]
  OBVIOUS
<1>2. o \in DOMAIN orders' /\ Moved(x, y) /\ x \in Order
  BY <1>1, RowsMove, OrderFacts DEF TypeOK
<1>3. y.user = x.user /\ (y.status \in Open => x.status \in Open)
  BY <1>2 DEF Moved, Order, Open
<1> QED
  BY <1>1, <1>2, <1>3

\* Only Create inserts an order.
LEMMA OnlyCreateInserts ==
  ASSUME ShopNext, \A w \in Workers : ~Create(w)
  PROVE  DOMAIN orders' = DOMAIN orders
<1>1. \A o, y : Update(o, y) => DOMAIN orders' = DOMAIN orders
  BY DEF Update
<1>2. UNCHANGED orders => DOMAIN orders' = DOMAIN orders
  OBVIOUS
<1>3. ASSUME NEW w \in Workers, Request(w) PROVE DOMAIN orders' = DOMAIN orders
  BY <1>1, <1>2, <1>3 DEF Request, Begin, CancelOpenOrders, EnterCode, vars, PayWithWallet,
     PayFromWallet, ApproveReceipt, Approve, Transition
<1>4. ASSUME NEW w \in Workers, Step(w) PROVE DOMAIN orders' = DOMAIN orders
  <2>1. CASE \/ TopupToCard(w) \/ ApplyCode(w) \/ CreditTopup(w) \/ Complete(w)
             \/ PayReward(w) \/ GiveUp(w)
    BY <1>1, <1>2, <2>1 DEF TopupToCard, ChooseCard, ApplyCode, ApplyDiscount, CreditTopup,
       CompleteTopup, Complete, CompleteOrder, PayReward, RewardReferrer, GiveUp, FailOrder,
       SetStatus, vars
  <2>2. CASE \/ CheckLimit(w) \/ CheckOnce(w) \/ Load(w) \/ MakeAccount(w) \/ NameClash(w)
             \/ RecordService(w) \/ RenewAccount(w) \/ PanelRefuses(w) \/ RenewalCutShort(w)
             \/ AnswerLost(w) \/ StoreError(w)
    BY <1>2, <2>2 DEF CheckLimit, CheckOnce, Load, MakeAccount, NameClash, RecordService,
       RenewAccount, PanelRefuses, RenewalCutShort, AnswerLost, StoreError, vars
  <2> QED
    BY <1>4, <2>1, <2>2 DEF Step
<1>5. CASE Tap
  BY <1>1, <1>2, <1>5 DEF Tap, SubmitReceipt, AttachReceipt, AdjustWallet, AdminAdjust,
     AdjustBalance, PayByCard, ChooseCard, RejectReceipt, Reject, Transition
<1>6. CASE Crash \/ Restart
  BY <1>1, <1>2, <1>6 DEF Crash, Restart, StartUp, RecoverOne, FailOrder, SetStatus, Serve, vars
<1> QED
  BY <1>3, <1>4, <1>5, <1>6 DEF ShopNext

\* Only Begin brings a handler to its create.
LEMMA OnlyBeginStarts ==
  ASSUME ShopInv, ShopNext,
         \A w \in Workers, u \in Users, kind \in Kinds, service \in Services \cup {0},
            base \in Amounts : ~Begin(w, u, kind, service, base),
         NEW v \in Workers, task'[v].pc = "create"
  PROVE  task'[v] = task[v]
<1>0. task \in [Workers -> Task]
  BY DEF ShopInv
<1>1. ASSUME NEW w \in Workers, NEW t, Goto(w, t), t.pc # "create" PROVE task'[v] = task[v]
  BY <1>0, <1>1 DEF Goto
<1>2. Idle.pc # "create"
  BY DEF Idle
<1>3. \A pc, o : Fulfil(pc, o).pc = pc
  BY DEF Fulfil
<1>4. \A w : Finish(w) <=> Goto(w, Idle)
  BY DEF Finish
<1>5. ASSUME NEW w \in Workers, Request(w) PROVE task'[v] = task[v]
  <2>1. ASSUME NEW o \in DOMAIN orders, NEW c \in Codes, EnterCode(w, o, c) PROVE task'[v] = task[v]
    BY <1>1, <2>1 DEF EnterCode
  <2>2. ASSUME NEW o \in DOMAIN orders, PayWithWallet(w, o) PROVE task'[v] = task[v]
    <3>1. orders[o].kind \in Kinds /\ o \in Nat
      BY OrderFacts, LenProperties DEF ShopInv, TypeOK, Order
    <3>2. FulfilTask(o).pc # "create"
      BY <3>1, SwitchFits, ShopAssumption
    <3> QED
      BY <1>1, <2>2, <3>2 DEF PayWithWallet
  <2>3. ASSUME NEW o \in DOMAIN orders, NEW a \in Admins, ApproveReceipt(w, o, a)
        PROVE  task'[v] = task[v]
    BY <1>1, <1>3, <2>3 DEF ApproveReceipt
  <2> QED
    BY <1>5, <2>1, <2>2, <2>3 DEF Request
<1>6. ASSUME NEW w \in Workers, Step(w) PROVE task'[v] = task[v]
  <2>0. PICK r : r = task[w]
    OBVIOUS
  <2>00. r \in Task /\ Stands(r)
    BY <2>0, RowOf
  <2>1. CASE Create(w)
    BY <1>1, <1>2, <1>3, <2>1 DEF Create
  <2>2. CASE TopupToCard(w) \/ ApplyCode(w) \/ PayReward(w) \/ GiveUp(w)
    BY <1>1, <1>2, <1>4, <2>2 DEF TopupToCard, ApplyCode, PayReward, GiveUp
  <2>3. CASE CheckLimit(w) \/ CheckOnce(w)
    <3>1. r.pc \in {"limit", "once"}
      BY <2>0, <2>3 DEF CheckLimit, CheckOnce, At
    <3>2. PICK s, u : s = [r EXCEPT !.pc = "once"] /\ u = [r EXCEPT !.pc = "apply"]
      OBVIOUS
    <3>3. s.pc = "once" /\ u.pc = "apply"
      BY <2>00, <3>1, <3>2 DEF Task, Idle
    <3>4. Goto(w, s) \/ Goto(w, u) \/ Goto(w, Idle)
      BY <2>0, <2>3, <3>2 DEF CheckLimit, CheckOnce, Finish
    <3> QED
      BY <1>1, <1>2, <3>3, <3>4
  <2>4. CASE Load(w)
    <3>1. r.pc = "load" /\ Goto(w, FulfilTask(r.order))
      BY <2>0, <2>4 DEF Load, At
    <3>2. r.order \in DOMAIN orders
      BY <2>00, <3>1 DEF Stands, Holding, Delivering
    <3>3. orders[r.order].kind \in Kinds /\ r.order \in Nat
      BY <3>2, OrderFacts, LenProperties DEF ShopInv, TypeOK, Order
    <3>4. FulfilTask(r.order).pc # "create"
      BY <3>3, SwitchFits, ShopAssumption
    <3> QED
      BY <1>1, <3>1, <3>4
  <2>5. CASE CreditTopup(w) \/ Complete(w)
    BY <1>1, <1>2, <1>3, <1>4, <2>5 DEF CreditTopup, Complete
  <2>6. CASE MakeAccount(w)
    <3>1. PICK n \in Names : Goto(w, [pc |-> "record", order |-> task[w].order, name |-> n])
      BY <2>6 DEF MakeAccount
    <3> QED
      BY <1>1, <3>1
  <2>7. CASE NameClash(w)
    <3>1. r.pc = "account"
      BY <2>0, <2>7 DEF NameClash, At
    <3>2. PICK s : s = [r EXCEPT !.tries = r.tries + 1]
      OBVIOUS
    <3>3. s.pc = "account"
      BY <2>00, <3>1, <3>2 DEF Task, Idle
    <3>4. Goto(w, s) \/ Goto(w, Fulfil("fail", r.order))
      BY <2>0, <2>7, <3>2 DEF NameClash
    <3> QED
      BY <1>1, <1>3, <3>3, <3>4
  <2>8. CASE \/ RecordService(w) \/ RenewAccount(w) \/ PanelRefuses(w) \/ RenewalCutShort(w)
             \/ AnswerLost(w) \/ StoreError(w)
    BY <1>1, <1>2, <1>3, <2>8 DEF RecordService, RenewAccount, PanelRefuses, RenewalCutShort,
       AnswerLost, StoreError
  <2> QED
    BY <1>6, <2>1, <2>2, <2>3, <2>4, <2>5, <2>6, <2>7, <2>8 DEF Step
<1>7. CASE Tap
  BY <1>7 DEF Tap, SubmitReceipt, AdjustWallet, PayByCard, RejectReceipt
<1>8. CASE Crash
  BY <1>2, <1>8 DEF Crash
<1>9. CASE Restart
  BY <1>9 DEF Restart, StartUp, RecoverOne, Serve
<1> QED
  BY <1>5, <1>6, <1>7, <1>8, <1>9 DEF ShopNext

\* A start that has its customer to itself leaves one open order at most.
LEMMA StillOneAtMost ==
  ASSUME NEW u \in Users, ShopInv, OneAtMost(u), OneStart(u), [ShopNext]_shopVars
  PROVE  OneAtMost(u)'
<1>1. TypeOK /\ task \in [Workers -> Task] /\ [Next]_vars
  BY ShopStep DEF ShopInv
<1>2. \A o \in DOMAIN orders :
        /\ o \in DOMAIN orders' /\ orders'[o].user = orders[o].user
        /\ orders'[o].status \in Open => orders[o].status \in Open
  BY <1>1, NeverReopened
<1>3. CASE UNCHANGED shopVars
  BY <1>3 DEF OneAtMost, OpenOf, Starting, shopVars, vars
<1>4. ASSUME NEW w \in Workers, Create(w) PROVE OneAtMost(u)'
  <2>1. PICK t : t = task[w]
    OBVIOUS
  <2>2. /\ t.pc = "create" /\ t.user \in Users /\ t.kind \in Kinds
        /\ t.service \in Services \cup {0} /\ t.base \in Nat
        /\ CreateOrder(t.user, t.kind, t.service, t.base)
    BY <1>1, <1>4, <2>1, TaskFields DEF Create, At
  <2>3. /\ DOMAIN orders = 1..Len(orders) /\ DOMAIN orders' = 1..(Len(orders) + 1)
        /\ Len(orders) \in Nat /\ orders'[Len(orders) + 1].user = t.user
    BY <1>1, <2>2, CreateCalm
  <2>4. \A o \in DOMAIN orders' : o \in DOMAIN orders \/ o = Len(orders) + 1
    BY <2>3
  <2>5. \A v \in Workers : task'[v].pc = "create" => v # w /\ task'[v] = task[v]
    BY <1>1, <1>4 DEF Create, Goto, Fulfil, Idle
  <2>6. CASE t.user = u
    <3>1. Starting(w, u) /\ OpenOf(u) = {}
      BY <2>1, <2>2, <2>6 DEF Starting, OneAtMost
    <3>2. \A v \in Workers : ~Starting(v, u)'
      BY <2>5, <3>1 DEF Starting, OneStart
    <3>3. \A o \in OpenOf(u)' : o = Len(orders) + 1
      BY <1>2, <2>4, <3>1 DEF OpenOf
    <3> QED
      BY <3>2, <3>3 DEF OneAtMost
  <2>7. CASE t.user # u
    <3>1. \A o \in OpenOf(u)' : o \in OpenOf(u)
      BY <1>2, <2>3, <2>4, <2>7 DEF OpenOf
    <3> QED
      BY <2>5, <3>1 DEF OneAtMost, Starting
  <2> QED
    BY <2>6, <2>7
<1>5. ASSUME NEW w \in Workers, NEW z \in Users, NEW kind \in Kinds,
             NEW service \in Services \cup {0}, NEW base \in Amounts,
             Begin(w, z, kind, service, base)
      PROVE  OneAtMost(u)'
  <2>1. /\ DOMAIN orders' = DOMAIN orders
        /\ \A o \in DOMAIN orders : orders'[o] =
             IF orders[o].user = z /\ orders[o].status \in Open
             THEN [orders[o] EXCEPT !.status = "cancelled"] ELSE orders[o]
    BY <1>5 DEF Begin, CancelOpenOrders
  <2>2. \A o \in OpenOf(u)' : o \in OpenOf(u)
    BY <1>2, <2>1 DEF OpenOf
  <2>3. PICK t : t = [pc |-> "create", user |-> z, kind |-> kind, service |-> service, base |-> base]
    OBVIOUS
  <2>4. /\ task'[w] = t /\ t.user = z
        /\ \A v \in Workers : v # w => task'[v] = task[v]
    BY <1>1, <1>5, <2>3 DEF Begin, Goto
  <2>5. CASE z = u
    <3>1. \A o \in DOMAIN orders : orders[o] \in Order
      BY <1>1, OrderFacts DEF TypeOK
    <3>2. \A o \in DOMAIN orders :
            orders[o].user = u => orders'[o].status \notin Open
      BY <2>1, <2>5, <3>1 DEF Order, Open
    <3>3. OpenOf(u)' = {}
      BY <1>2, <2>1, <3>2 DEF OpenOf
    <3> QED
      BY <3>3 DEF OneAtMost
  <2>6. CASE z # u
    <3>1. \A v \in Workers : Starting(v, u)' => Starting(v, u)
      BY <2>4, <2>6 DEF Starting
    <3> QED
      BY <2>2, <3>1 DEF OneAtMost
  <2> QED
    BY <2>5, <2>6
<1>6. ASSUME ShopNext, \A w \in Workers : ~Create(w),
             \A w \in Workers, z \in Users, kind \in Kinds, service \in Services \cup {0},
                base \in Amounts : ~Begin(w, z, kind, service, base)
      PROVE  OneAtMost(u)'
  <2>1. DOMAIN orders' = DOMAIN orders
    BY <1>6, OnlyCreateInserts
  <2>2. \A v \in Workers : Starting(v, u)' => Starting(v, u)
    BY <1>6, OnlyBeginStarts DEF Starting
  <2>3. \A o \in OpenOf(u)' : o \in OpenOf(u)
    BY <1>2, <2>1 DEF OpenOf
  <2> QED
    BY <2>2, <2>3 DEF OneAtMost
<1> QED
  BY <1>3, <1>4, <1>5, <1>6

(* "a receipt can only ever attach to the order the customer is looking at *)
(* now" (shop.go:88-89) is true of a customer as long as no two starts of  *)
(* theirs are between their cancel and their create at the same time: only *)
(* that overlap leaves two open orders, and no top-up sent to the card, no *)
(* code, payment, fault or recovery does.                                  *)
THEOREM OnlyOverlapOpensTwo ==
  ASSUME NEW u \in Users
  PROVE  ShopSpec /\ []OneStart(u) => [](\A o, p \in OpenOf(u) : o = p)
<1>1. ShopInit => OneAtMost(u)
  <2> SUFFICES ASSUME ShopInit PROVE OneAtMost(u)
    OBVIOUS
  <2>1. orders = << >> /\ \A w \in Workers : task[w] = Idle
    BY DEF ShopInit, Init
  <2>2. OpenOf(u) = {}
    BY <2>1 DEF OpenOf
  <2> QED
    BY <2>1, <2>2 DEF OneAtMost
<1>2. ShopInv /\ OneAtMost(u) /\ OneStart(u) /\ [ShopNext]_shopVars
      => OneAtMost(u)'
  BY StillOneAtMost
<1>3. OneAtMost(u) => \A o, p \in OpenOf(u) : o = p
  BY DEF OneAtMost
<1> QED
  BY <1>1, <1>2, <1>3, ShopKeepsInvariant, PTL DEF ShopSpec
=============================================================================

-------------------------------- MODULE Shop --------------------------------
(***************************************************************************)
(* The selling logic, internal/shop/shop.go, as it runs: every update from *)
(* Telegram is handled by a goroutine of its own (here a worker), which    *)
(* makes one store or panel call after another and may be overtaken by any *)
(* other worker between two calls.  The panel is the Panel interface of    *)
(* shop.go:23-27: it may refuse a call, or honour it and lose the answer.  *)
(* A crash stops every worker where it is; the next start first fails what *)
(* the crash left in processing (RecoverInterrupted), then serves again.   *)
(*                                                                         *)
(* The tables are those of Orders.tla, whose operations the steps below    *)
(* are made of; ImplementsOrders says the shop never asks the store for    *)
(* anything else.                                                          *)
(***************************************************************************)
EXTENDS Orders, Pricing

CONSTANTS
  Workers,      \* handler goroutines that may run at the same time
  Names,        \* panel usernames rb<id>_<tail> the shop may draw
  Foreign,      \* the names that exist on the panel but not by this shop
  Terms,        \* Terms[c]: [percent, amount, max] of code c
  Faults,       \* which of "refused", "lost", "store" can happen
  MaxTries,     \* names tried per account (5 in createAccount)
  RecoverLimit, \* orders one start recovers (1000 in RecoverInterrupted)
  MaxCrashes    \* bound: crashes

ASSUME ShopAssumption ==
  /\ IsFiniteSet(Workers) /\ MaxOrders \in Nat
  /\ Foreign \subseteq Names
  /\ Faults \subseteq {"refused", "lost", "store"}
  /\ Terms \in [Codes -> [percent: 0..100, amount: Nat, max: Nat]]
  /\ MaxTries \in Nat \ {0}
  /\ RecoverLimit \in Nat \ {0}
  /\ MaxCrashes \in Nat

VARIABLES
  services,     \* the services table: services[id], ids from 1
  grants,       \* what the panel has honoured: [order, name], oldest first
  task,         \* task[w]: what worker w does next, and its locals
  mode,         \* "down", "starting" or "up"
  stuck,        \* orders the running start-up has still to fail
  crashes       \* how often the process has crashed

shopVars == <<vars, services, grants, task, mode, stuck, crashes>>

process == <<mode, stuck, crashes>>
world == <<services, grants>>

-----------------------------------------------------------------------------
(* Workers.  A worker that delivers an order holds the copy of it that was *)
(* read when it was won; of that copy only columns that never change after *)
(* draft are used (SealedOrders), so the id stands for it.                 *)

Idle == [pc |-> "idle"]
Fulfil(pc, o) == [pc |-> pc, order |-> o]

\* The pcs at which a worker has an order to deliver in its hands.
Delivering == {"load", "topup", "account", "record", "extend", "complete", "fail"}

Task ==
  {Idle}
  \cup [pc: {"create"}, user: Users, kind: Kinds, service: Services \cup {0}, base: Nat]
  \cup [pc: {"card"}, order: Nat]
  \cup [pc: {"limit", "once", "apply"}, order: Nat, code: Codes]
  \cup [pc: {"load", "topup", "extend", "complete", "fail", "reward"}, order: Nat]
  \cup [pc: {"account"}, order: Nat, tries: 0..MaxTries]
  \cup [pc: {"record"}, order: Nat, name: Names]

Goto(w, t) == task' = [task EXCEPT ![w] = t]
Finish(w) == Goto(w, Idle)

\* Mutant: a top-up is closed like any other order.
FulfilTaskAlike(o) ==
  CASE orders[o].kind = "topup"    -> Fulfil("complete", o)
    [] orders[o].kind = "purchase" -> [pc |-> "account", order |-> o, tries |-> 0]
    [] orders[o].kind = "renew"    -> Fulfil("extend", o)

\* fulfil's switch on the kind of the order.
FulfilTask(o) ==
  CASE orders[o].kind = "topup"    -> Fulfil("topup", o)
    [] orders[o].kind = "purchase" -> [pc |-> "account", order |-> o, tries |-> 0]
    [] orders[o].kind = "renew"    -> Fulfil("extend", o)

At(w, pc) == mode = "up" /\ task[w].pc = pc

ShopInit ==
  /\ Init
  /\ services = << >>
  /\ grants = << >>
  /\ task = [w \in Workers |-> Idle]
  /\ mode = "up" /\ stuck = {} /\ crashes = 0

-----------------------------------------------------------------------------
(* Starting an order: cancel what is open, then create, then (top-up only) *)
(* go to the card.  Three calls, so other handlers run in between.         *)

Creating == {w \in Workers : task[w].pc = "create"}

\* StartRenew refuses a service that is not the customer's own.  The plan was
\* read just before; base, its price for this customer, is the copy taken then.
Begin(w, u, kind, service, base) ==
  /\ At(w, "idle")
  /\ Len(orders) + Cardinality(Creating) < MaxOrders
  /\ IF kind = "renew"
     THEN service \in DOMAIN services /\ services[service].user = u
     ELSE service = 0
  /\ CancelOpenOrders(u)
  /\ Goto(w, [pc |-> "create", user |-> u, kind |-> kind, service |-> service, base |-> base])
  /\ UNCHANGED <<world, process>>

Create(w) ==
  /\ At(w, "create")
  /\ LET t == task[w]
     IN  /\ CreateOrder(t.user, t.kind, t.service, t.base)
         /\ Goto(w, IF t.kind = "topup" THEN Fulfil("card", Len(orders) + 1) ELSE Idle)
  /\ UNCHANGED <<world, process>>

\* The order may have been cancelled by another start since: ErrConflict.
TopupToCard(w) ==
  /\ At(w, "card")
  /\ LET o == task[w].order
     IN  IF orders[o].status \in Open
         THEN ChooseCard(o, orders[o].user)
         ELSE UNCHANGED vars
  /\ Finish(w)
  /\ UNCHANGED <<world, process>>

-----------------------------------------------------------------------------
(* ApplyCode: the order, the code's terms and the customer's earlier use   *)
(* are read one after another, and the discount is written after all that. *)

EnterCode(w, o, c) ==
  /\ At(w, "idle")
  /\ orders[o].kind # "topup" /\ orders[o].status = "draft"
  /\ Goto(w, [pc |-> "limit", order |-> o, code |-> c])
  /\ UNCHANGED <<vars, world, process>>

UsedUp(c) == Terms[c].max > 0 /\ used[c] >= Terms[c].max

\* GetDiscount and its checks; is_active and expires_at may refuse any code.
CheckLimit(w) ==
  /\ At(w, "limit")
  /\ \/ ~UsedUp(task[w].code) /\ Goto(w, [task[w] EXCEPT !.pc = "once"])
     \/ Finish(w)
  /\ UNCHANGED <<vars, world, process>>

CheckOnce(w) ==
  /\ At(w, "once")
  /\ LET u == orders[task[w].order].user
     IN  Goto(w, IF \E s \in spent : s.code = task[w].code /\ s.user = u
                 THEN Idle ELSE [task[w] EXCEPT !.pc = "apply"])
  /\ UNCHANGED <<vars, world, process>>

ApplyCode(w) ==
  /\ At(w, "apply")
  /\ LET o == task[w].order
         c == task[w].code
     IN  IF Discountable(o)
         THEN ApplyDiscount(o, orders[o].user, c, Apply(Terms[c], orders[o].base))
         ELSE UNCHANGED vars
  /\ Finish(w)
  /\ UNCHANGED <<world, process>>

-----------------------------------------------------------------------------
(* Single calls of a customer or an admin: no worker outlives them.        *)

PayByCard(o) ==
  /\ mode = "up"
  /\ ChooseCard(o, orders[o].user)
  /\ UNCHANGED <<world, task, process>>

SubmitReceipt(u) ==
  /\ mode = "up"
  /\ AttachReceipt(u)
  /\ UNCHANGED <<world, task, process>>

RejectReceipt(o, a) ==
  /\ mode = "up"
  /\ Reject(o, a)
  /\ UNCHANGED <<world, task, process>>

AdjustWallet(u, delta) ==
  /\ mode = "up"
  /\ AdminAdjust(u, delta)
  /\ UNCHANGED <<world, task, process>>

-----------------------------------------------------------------------------
(* Winning an order: the wallet payment or the first approval.             *)

PayWithWallet(w, o) ==
  /\ At(w, "idle")
  /\ PayFromWallet(o, orders[o].user)
  /\ Goto(w, FulfilTask(o))
  /\ UNCHANGED <<world, process>>

ApproveReceipt(w, o, a) ==
  /\ At(w, "idle")
  /\ Approve(o, a)
  /\ Goto(w, Fulfil("load", o))
  /\ UNCHANGED <<world, process>>

Load(w) ==
  /\ At(w, "load")
  /\ Goto(w, FulfilTask(task[w].order))
  /\ UNCHANGED <<vars, world, process>>

-----------------------------------------------------------------------------
(* fulfil.                                                                 *)

CreditTopup(w) ==
  /\ At(w, "topup")
  /\ LET o == task[w].order
     IN  IF Processing(o)
         THEN CompleteTopup(o) /\ Finish(w)
         ELSE UNCHANGED vars /\ Goto(w, Fulfil("fail", o))
  /\ UNCHANGED <<world, process>>

Taken == Foreign \cup {grants[i].name : i \in DOMAIN grants}

Grant(o, n) == grants' = Append(grants, [order |-> o, name |-> n])

\* One attempt of createAccount that the panel accepts.
MakeAccount(w) ==
  /\ At(w, "account")
  /\ \E n \in Names \ Taken :
       /\ Grant(task[w].order, n)
       /\ Goto(w, [pc |-> "record", order |-> task[w].order, name |-> n])
  /\ UNCHANGED <<vars, services, process>>

\* Mutant: names are drawn for ever.
NameClashForever(w) ==
  /\ At(w, "account")
  /\ Taken # {}
  /\ Goto(w, [task[w] EXCEPT !.tries = @ + 1])
  /\ UNCHANGED <<vars, world, process>>

\* ErrExists: the name drawn is taken.  Only this answer is tried again.
NameClash(w) ==
  /\ At(w, "account")
  /\ Taken # {}
  /\ LET tries == task[w].tries + 1
     IN  Goto(w, IF tries < MaxTries THEN [task[w] EXCEPT !.tries = tries]
                 ELSE Fulfil("fail", task[w].order))
  /\ UNCHANGED <<vars, world, process>>

RecordService(w) ==
  /\ At(w, "record")
  /\ LET t == task[w]
     IN  services' = Append(services, [user |-> orders[t.order].user, name |-> t.name])
  /\ Goto(w, Fulfil("complete", task[w].order))
  /\ UNCHANGED <<vars, grants, process>>

Extended(o) == services[orders[o].service].name

RenewAccount(w) ==
  /\ At(w, "extend")
  /\ Grant(task[w].order, Extended(task[w].order))
  /\ Goto(w, Fulfil("complete", task[w].order))
  /\ UNCHANGED <<vars, services, process>>

\* Mutant: the error of the panel is dropped.
PanelRefusalDropped(w) ==
  /\ "refused" \in Faults
  /\ mode = "up" /\ task[w].pc \in {"account", "extend"}
  /\ Goto(w, Fulfil("complete", task[w].order))
  /\ UNCHANGED <<vars, world, process>>

\* Mutant: a refusal after the account was made fails the delivery.
PanelRefusesLate(w) ==
  /\ "refused" \in Faults
  /\ mode = "up" /\ task[w].pc \in {"account", "extend", "record"}
  /\ Goto(w, Fulfil("fail", task[w].order))
  /\ UNCHANGED <<vars, world, process>>

\* Any other answer of the panel is an error, and the delivery has failed: an
\* account not made, or a renewal refused before its expiry was written.
PanelRefuses(w) ==
  /\ "refused" \in Faults
  /\ mode = "up" /\ task[w].pc \in {"account", "extend"}
  /\ Goto(w, Fulfil("fail", task[w].order))
  /\ UNCHANGED <<vars, world, process>>

\* Mutant: an account whose creation timed out is tried again.
AnswerLostRetried(w) ==
  /\ "lost" \in Faults
  /\ At(w, "account") /\ task[w].tries + 1 < MaxTries
  /\ \E n \in Names \ Taken : Grant(task[w].order, n)
  /\ Goto(w, [task[w] EXCEPT !.tries = @ + 1])
  /\ UNCHANGED <<vars, services, process>>

\* A renewal whose expiry was written, and whose usage reset or read-back was
\* then refused: extended on the panel, and an error here.
RenewalCutShort(w) ==
  /\ "refused" \in Faults
  /\ At(w, "extend")
  /\ Grant(task[w].order, Extended(task[w].order))
  /\ Goto(w, Fulfil("fail", task[w].order))
  /\ UNCHANGED <<vars, services, process>>

\* A timeout: done, but an error here.
AnswerLost(w) ==
  /\ "lost" \in Faults
  /\ mode = "up" /\ task[w].pc \in {"account", "extend"}
  /\ LET o == task[w].order
     IN  /\ \E n \in IF task[w].pc = "account" THEN Names \ Taken ELSE {Extended(o)} :
              Grant(o, n)
         /\ Goto(w, Fulfil("fail", o))
  /\ UNCHANGED <<vars, services, process>>

\* Mutant: the handler ends with the order's completion.
CompleteOnly(w) ==
  /\ At(w, "complete")
  /\ LET o == task[w].order
     IN  IF Processing(o) THEN CompleteOrder(o) ELSE UNCHANGED vars
  /\ Finish(w)
  /\ UNCHANGED <<world, process>>

\* If closing the order is refused the handler just reports it.
Complete(w) ==
  /\ At(w, "complete")
  /\ LET o == task[w].order
     IN  IF Processing(o)
         THEN CompleteOrder(o) /\ Goto(w, Fulfil("reward", o))
         ELSE UNCHANGED vars /\ Finish(w)
  /\ UNCHANGED <<world, process>>

PayReward(w) ==
  /\ At(w, "reward")
  /\ RewardReferrer(task[w].order)
  /\ Finish(w)
  /\ UNCHANGED <<world, process>>

\* Mutant: a failed delivery is only reported.
GiveUpSilently(w) ==
  /\ At(w, "fail")
  /\ Finish(w)
  /\ UNCHANGED <<vars, world, process>>

GiveUp(w) ==
  /\ At(w, "fail")
  /\ LET o == task[w].order
     IN  IF Processing(o) THEN FailOrder(o) ELSE UNCHANGED vars
  /\ Finish(w)
  /\ UNCHANGED <<world, process>>

\* A store call fails.  In fulfil, before the order is completed, that fails
\* the delivery; anywhere else the handler returns and leaves things as they are.
StoreError(w) ==
  /\ "store" \in Faults
  /\ mode = "up" /\ task[w].pc # "idle"
  /\ task[w].pc = "account" => task[w].tries = 0    \* GetPlan, then the names
  /\ Goto(w, IF task[w].pc \in {"topup", "account", "record", "extend"}
             THEN Fulfil("fail", task[w].order) ELSE Idle)
  /\ UNCHANGED <<vars, world, process>>

-----------------------------------------------------------------------------
(* Crash, start-up and recovery.                                           *)

Crash ==
  /\ mode # "down" /\ crashes < MaxCrashes
  /\ mode' = "down" /\ stuck' = {} /\ crashes' = crashes + 1
  /\ task' = [w \in Workers |-> Idle]
  /\ UNCHANGED <<vars, world>>

InProcessing == {o \in DOMAIN orders : Processing(o)}

\* ListOrdersByStatus: the oldest RecoverLimit orders left in processing.
Interrupted ==
  {o \in InProcessing : Cardinality({p \in InProcessing : p < o}) < RecoverLimit}

\* main.run logs an error of the listing and goes on without recovering.
StartUp ==
  /\ mode = "down"
  /\ mode' = "starting"
  /\ \/ stuck' = Interrupted
     \/ "store" \in Faults /\ stuck' = {}
  /\ UNCHANGED <<vars, world, task, crashes>>

\* An order whose FailOrder fails is skipped.
RecoverOne(o) ==
  /\ mode = "starting"
  /\ o \in stuck /\ \A p \in stuck : o <= p
  /\ stuck' = stuck \ {o}
  /\ \/ FailOrder(o)
     \/ "store" \in Faults /\ UNCHANGED vars
  /\ UNCHANGED <<world, task, mode, crashes>>

Serve ==
  /\ mode = "starting" /\ stuck = {}
  /\ mode' = "up"
  /\ UNCHANGED <<vars, world, task, stuck, crashes>>

-----------------------------------------------------------------------------
Step(w) ==
  \/ Create(w) \/ TopupToCard(w)
  \/ CheckLimit(w) \/ CheckOnce(w) \/ ApplyCode(w)
  \/ Load(w) \/ CreditTopup(w)
  \/ MakeAccount(w) \/ NameClash(w) \/ RecordService(w) \/ RenewAccount(w)
  \/ PanelRefuses(w) \/ RenewalCutShort(w) \/ AnswerLost(w) \/ StoreError(w)
  \/ Complete(w) \/ PayReward(w) \/ GiveUp(w)

Restart == StartUp \/ (\E o \in stuck : RecoverOne(o)) \/ Serve

Request(w) ==
  \/ \E u \in Users, kind \in Kinds, service \in Services \cup {0}, base \in Amounts :
       Begin(w, u, kind, service, base)
  \/ \E o \in DOMAIN orders :
       \/ \E c \in Codes : EnterCode(w, o, c)
       \/ PayWithWallet(w, o)
       \/ \E a \in Admins : ApproveReceipt(w, o, a)

Tap ==
  \/ \E u \in Users :
       \/ SubmitReceipt(u)
       \/ \E n \in Amounts : AdjustWallet(u, n) \/ AdjustWallet(u, -n)
  \/ \E o \in DOMAIN orders :
       \/ PayByCard(o)
       \/ \E a \in Admins : RejectReceipt(o, a)

ShopNext ==
  \/ \E w \in Workers : Request(w) \/ Step(w)
  \/ Tap
  \/ Crash
  \/ Restart

ShopSpec == ShopInit /\ [][ShopNext]_shopVars

\* The Go scheduler runs every goroutine, every store and panel call returns
\* (busy_timeout, the 20s client timeout), and the service manager restarts.
FairShopSpec ==
  /\ ShopSpec
  /\ \A w \in Workers : WF_shopVars(Step(w))
  /\ WF_shopVars(Restart)
-----------------------------------------------------------------------------
(* Properties.                                                             *)

(* The tables, the workers' locals and the process state are well formed.  *)
ShopTypeOK ==
  /\ TypeOK
  /\ services \in Seq([user: Users, name: Names])
  /\ grants \in Seq([order: Nat, name: Names])
  /\ task \in [Workers -> Task]
  /\ mode \in {"down", "starting", "up"}
  /\ stuck \in SUBSET DOMAIN orders
  /\ crashes \in 0..MaxCrashes

(* "only one worker ever wins the move into this state" (0001_init.sql:57):*)
(* an order is in the hands of at most one worker, which holds it exactly  *)
(* while it is processing, whoever taps approve, reject or pay, and when.  *)
SingleWorker ==
  \A v \in Workers : task[v].pc \in Delivering =>
    /\ orders[task[v].order].status = "processing"
    /\ \A w \in Workers :
         task[w].pc \in Delivering /\ task[w].order = task[v].order => w = v

(* The panel honours an order at most once, and only one that was paid and *)
(* is not a top-up: not for two admins, a double tap, a retried name, a    *)
(* crash in the middle of a delivery or the recovery after it.             *)
DeliveredOnce ==
  /\ \A i, j \in DOMAIN grants : grants[i].order = grants[j].order => i = j
  /\ \A i \in DOMAIN grants :
       LET x == orders[grants[i].order]
       IN  x.kind # "topup" /\ x.status \in {"processing", "completed", "failed"}

(* A completed order is a delivered one: a bought account is on the panel  *)
(* and listed under the customer who bought it, a renewal has extended an  *)
(* account of the customer's own.                                          *)
CompletedIsDelivered ==
  \A o \in DOMAIN orders : orders[o].status = "completed" /\ orders[o].kind # "topup" =>
    \E i \in DOMAIN grants, s \in DOMAIN services :
      /\ grants[i] = [order |-> o, name |-> services[s].name]
      /\ services[s].user = orders[o].user
      /\ orders[o].kind = "renew" => s = orders[o].service

(* While no answer is lost, the store works and nothing has crashed, an    *)
(* order that failed - and whose money went back - was not delivered, but  *)
(* for a renewal that the panel refused after its expiry was written       *)
(* (client.go:185, 188): a purchase never is both.                         *)
FailedUndelivered ==
  /\ "lost" \notin Faults /\ "store" \notin Faults /\ crashes = 0
  => \A i \in DOMAIN grants :
       LET x == orders[grants[i].order]
       IN  x.status = "failed" => x.kind = "renew" /\ "refused" \in Faults

(* The shop asks nothing of the store that Orders.tla does not allow, so   *)
(* every property of Orders holds of the running shop.                     *)
ImplementsOrders == Spec

(* A paid order is never left hanging: it is completed or failed in the    *)
(* end, across a crash too, as long as the store does not fail.            *)
EverySaleSettles ==
  \A o \in 1..MaxOrders :
    (o \in DOMAIN orders /\ Processing(o))
      ~> (o \in DOMAIN orders /\ orders[o].status \in {"completed", "failed"})

Bought(u) ==
  \E o \in DOMAIN orders :
    orders[o].user = u /\ orders[o].kind # "topup" /\ orders[o].status = "completed"

(* The reward follows the purchase: once an invited customer's purchase is *)
(* complete the inviter is paid, whatever other handlers do meanwhile, and *)
(* while the store works only a crash between the two calls (shop.go:313,  *)
(* 321) can lose it.  An error of the second call loses it too, as it is   *)
(* neither reported nor tried again: this is said of Faults without        *)
(* "store" alone.                                                          *)
InviterIsPaid ==
  \A u \in Users :
    (Bought(u) /\ Reward > 0 /\ Referrer[u] # Nobody /\ crashes = 0)
      ~> (u \in rewarded \/ crashes > 0)

(* "a receipt can only ever attach to the order the customer is looking at *)
(* now" (shop.go:88-89): a customer never has two open orders.             *)
OneOpenOrder ==
  \A o, p \in DOMAIN orders :
    /\ orders[o].user = orders[p].user
    /\ orders[o].status \in Open /\ orders[p].status \in Open
    => o = p

=============================================================================

# rapidobot: specification and proofs

rapidobot sells VPN accounts of a RapidoVpn panel through a Telegram bot. This
directory holds TLA+ modules that model the parts of it where things can go
wrong, TLC configurations that check them on small instances, and TLAPS proofs
of all their safety properties for instances of every size.

## 1. The system

One Go process: a Telegram long-poll loop starts **one goroutine per update**,
the goroutine calls the shop, the shop calls the store (SQLite, one file) and
the panel (HTTP). Nothing else is shared but the in-memory sessions and the
panel token.

```
 Telegram ──update──▶ bot (a goroutine each) ──▶ shop ──▶ store (SQLite, 1 connection)
                        │ sessions, 30 min          └───▶ panel client ──HTTP──▶ panel
                        └────────────────────────────▶ store (settings, admins, plans)
```

| component | source | state | operations | called by |
|---|---|---|---|---|
| store: orders and wallet | `internal/store/orders.go`, `users.go` | `orders`, `users.balance`, `users.referral_rewarded`, `wallet_ledger`, `discount_uses`, `discount_codes.used` | CreateOrder, ApplyDiscount, Transition, ChooseCard, AttachReceipt, PayFromWallet, CompleteOrder, CompleteTopup, FailOrder, CancelOpenOrders, AdjustBalance, RewardReferrer | shop, bot |
| store: customers | `users.go` | `users` (name, agent, blocked, referral code, referrer, trial flag) | UpsertUser, SetAgent, SetBlocked, ClaimTrial, ReleaseTrial | bot, shop |
| store: catalog | `catalog.go` | `plans`, `services`, `discount_codes`, `settings` | CreatePlan, SetPlanActive, DeletePlan, CreateService, CreateDiscount, SetDiscountActive, SetSetting | bot, shop |
| store: admins | `admins.go` | `admins` | AddAdmin, RemoveAdmin, IsAdmin | bot |
| store: opening | `store.go`, `migrations/*.sql` | schema, `schema_migrations`, the connection | Open, migrate, splitStatements, inTx, BackupTo | main |
| shop | `internal/shop/shop.go` | none of its own; the locals of the running handlers | StartPurchase/Renew/Topup, ApplyCode, ChooseCard, SubmitReceipt, PayWithWallet, Approve, Reject, fulfil, createAccount, ClaimTrial, RecoverInterrupted | bot, main |
| panel client | `internal/panel/client.go` | the access token | login, do (401: log in again, once), CreateAccount, GetAccount, Renew (GET, PUT, reset) | shop |
| bot | `internal/bot/*.go` | sessions (step, fields, time), configured admins | callbacks, wizards, receipts, broadcasts | Telegram |
| entry point | `cmd/rapidobot/main.go` | process up or down | run: open, recover, serve; backup: open, copy | docker, `rapidobot.sh` |
| installer | `rapidobot.sh` | the container, the backups | backup, restore; install, update, uninstall | the operator |

### Hard behaviours

* **Interleaving.** Every store method is one atomic step: `Open` sets
  `SetMaxOpenConns(1)` (store.go:52) and a method is one statement or one
  `inTx` body. A shop function is *several* such steps with panel calls between
  them, and any number of shop functions run at once: two admins on one
  receipt, a double tap on "pay", a start while a top-up is being created.
* **Failure in the middle.** A panel call can be refused, or honoured with its
  answer lost (20 s client timeout). A store call can fail. `fulfil` has already
  taken the money when this happens.
* **Crash and recovery.** A crash leaves orders in `processing`;
  `RecoverInterrupted` fails and refunds them at the next start, before serving.
* **More than one process.** `rapidobot backup` opens the bot's own file as a
  second process, and migrates it first if need be; an older backup may be restored.
* **Values read and used later.** `ApplyCode` reads the order, the code and the
  earlier uses in three calls and writes in a fourth; `Renew` reads the expiry,
  adds to it, writes it; the step of a session is read, a code is looked up, and
  the session is written, without a lock.

### What has to be right

* *Orders and wallet:* nothing is delivered unpaid; money moves once per order,
  and in the same step as the order; the balance is what the ledger adds up to;
  a reward is paid once; a code is spent only by a completed order; a price does
  not change after the customer was told it.
* *Shop:* one worker per paid order; the panel honours an order at most once;
  completed means delivered; a failed purchase was not delivered (while answers
  are not lost; a failed renewal may have been, see `OnlyRenewalsFailDelivered`);
  every paid order settles, also across a crash.
* *Panel client, renewal:* days bought are days got, as far as a `time.Duration`
  goes; one retry after a 401 and never a second creation.
* *Opening:* never half a migration, whoever dies; the bot gets to serve from the
  database of any earlier release; a backup is of a whole schema.
* *Trial:* at most one account per customer, and an outage does not cost it.
* *Customers:* nobody is re-attributed to another inviter; no cycles.
* *Catalog, settings:* a plan with orders or services stays, also when it is deleted
  under a running sale; an old button sells what it shows; a discount comes from
  a code that was good, and is between nothing and the price whatever overflows; a
  cleared setting does not become a different rule.
* *Bot:* an input is taken by one step of one wizard; only admins reach admin steps.

The hazards, each at its line, are in `PROJECT.json` ("hazards").

## 2. Modules

| module | models | state |
|---|---|---|
| `Escrow` | what the shop promises about money, abstractly: a sale is open, its payment is held, and then settled once | `purse`, `sales` |
| `Orders` | the store methods of `orders.go` and the wallet half of `users.go` | `balance`, `rewarded`, `ledger`, `orders`, `used`, `spent` |
| `GoInt` | Go's integers: a width after which they wrap around, and division toward zero | pure operators |
| `Pricing` | `DiscountCode.Apply`, in these integers | pure operators |
| `Shop` | `shop.go` as concurrent handlers over `Orders` and the panel, with faults, crash, start-up and recovery | `Orders` and `services`, `grants`, `task`, `mode`, `stuck`, `crashes` |
| `Catalog` | `catalog.go`, the admin's plan and code buttons and forms, and the sale that reads plans and codes while they change | `plans`, `lastPlan`, `codes`, `used`, `spent`, `orders`, `services`, `buttons`, `task` |
| `PanelClient` | one call of the panel's API: token, login, 401, one retry | `token`, the panel's tokens, `work`, `honoured`, `result` |
| `Renewal` | `Client.Renew` and `Grant.duration`, request by request, with a clock | `now`, `expiry`, `task` and histories of the days bought |
| `Customers` | `UpsertUser` and `ClaimTrial` | `joined`, `code`, `referrer`, `trialUsed`, `services`, `accounts`, `task` |
| `Conversation` | the gate, the admin checks, sessions and forms of the bot | `admins`, `blocked`, `heap`, `current`, `task` |
| `Migrations` | `Open`, `migrate`, `splitStatements`, `inTx`, the backup command and the restore of a backup | `schema`, `log`, `task`, `copy`, `faults` |
| `OrdersProofs`, `ShopProofs`, `CatalogProofs`, `PanelClientProofs`, `RenewalProofs`, `CustomersProofs`, `ConversationProofs`, `MigrationsProofs` | TLAPS proofs about the modules they are named for (`OrdersProofs` also the refinement of `Escrow`) | |
| `MCOrders`, `MCShop`, `MCCatalog`, `MCRenewal`, `MCCustomers`, `MCConversation`, `MCMigrations` | instances for TLC | |

How they fit: `Shop` is built on `Orders` and `Pricing`, and `Pricing` and `Renewal` on `GoInt`; `Shop` treats the panel as
an interface whose calls are done, refused, or done with the answer lost;
`PanelClient` shows that a call has exactly these outcomes, and `Renewal` and
`Customers` take up, with the same outcomes, what `Shop` has in one step (a
renewal) or not at all (the trial). `Customers` justifies the assumption of
`Orders` that nobody is their own inviter. `Catalog` takes up what `Shop` holds
fixed (plans, prices and the terms of codes) and leaves out what `Shop` has in
detail (wallets, receipts, the panel). `Conversation` says who may cause the
steps of the others at all, and `Migrations` that the tables they all speak of are
there.

**Orders.** A variable is a table or a column; an order is a record of the
columns that matter (times, the error text and the file id are left out: `receipt`
says whether there is a file). A method is an action; an error return is the
action disabled, because a method that returns an error changes nothing. `Next`
is the most general caller that keeps to what the shop asks: `Start`,
`Discount`, `Deliver`, `RewardFor`, `Approve`, `Reject` and `AdminAdjust` carry
the checks the shop or the bot makes before its call.

**Shop.** A *worker* is a handler goroutine. `task[w]` says which call it makes
next (`pc`) and its locals. One action is one store or panel call:

| code | actions |
|---|---|
| `StartPurchase`, `StartRenew`, `StartTopup` | `Begin` (cancel), `Create`, `TopupToCard` |
| `ApplyCode` | `EnterCode`, `CheckLimit`, `CheckOnce`, `ApplyCode` |
| `ChooseCard`, `SubmitReceipt`, `Reject`, admin's adjustment | `PayByCard`, `SubmitReceipt`, `RejectReceipt`, `AdjustWallet` |
| `PayWithWallet` / `Approve` | `PayWithWallet` / `ApproveReceipt`, `Load` |
| `fulfil`, `createAccount` | `CreditTopup`; `MakeAccount`, `NameClash`, `RecordService`; `RenewAccount`, `RenewalCutShort`; `PanelRefuses`, `AnswerLost`, `StoreError`; `Complete`, `PayReward`; `GiveUp` |
| process | `Crash`, `StartUp`, `RecoverOne`, `Serve` |

`grants` is the panel's side: what it has really done, whether or not its
answer arrived. A renewal is four requests: refused before the expiry is written it
did nothing (`PanelRefuses`), refused after it (the reset, client.go:185, or the
read-back, 188) it is done and an error all the same (`RenewalCutShort`), and
`fulfil` gives the money back. An account is created by one request. `Shop` writes to the tables only through the operators of
`Orders`, but calls the raw store methods, so that `ImplementsOrders` (every
shop behaviour is an `Orders` behaviour) is a statement about the shop: for
instance that it never completes a top-up by `CompleteOrder`, or rewards an
inviter for an order that is not completed.

A code's terms are fixed here and its price is computed by `Pricing`; whether
it is switched off, over or deleted while a handler looks at it is `Catalog`'s matter.

**Catalog.** A worker is a handler, as in `Shop`; most admin buttons are one store
call and have no row.

| code | actions |
|---|---|
| admin: plans | `CreatePlan`, `SetPlanActive`, `DeletePlan` |
| admin: codes | `TypeNewCode` (the word is looked up), `CreateDiscount` (the form's end), `SetDiscountActive` |
| `StartPurchase` | `StartPurchase` (read the plan, cancel), `CreateOrder` |
| `ApplyCode` | `GetDiscount`, `DiscountUsedBy`, `ApplyDiscount` |
| payment and `fulfil` | `Win`, `LoadPlan`, `CreateService` or `FailOrder`, `CompleteOrder` |

`buttons` is what stands in the chats: pairs of a plan's id and what was shown for
it, which outlive the plan. `shown` and `earned` of an order are histories: the offer on
the button that was tapped, and whether the code was good, by all four conditions
at once, when the handler read it. What is abstracted: a sale is a purchase (a
renewal reads its plan at the same places); `draft` stands for both open states;
whether a customer is an agent is either at every reading; a switch that reads a
flag and writes its opposite is a flip; the end of a code is a flag `past` that
time sets (`TimePasses`), and that a new code may have at once, because a number
of days too large for a `time.Duration` wraps around. A plan's price and a code's
terms are never edited: the store has no method for it.

**Migrations.** A file is the sequence of its lines, of which only this matters:
code, code that ends in a semicolon, a comment that ends in a semicolon.
`Cleaned`, `Cuts` and `Runs` are `splitStatements`: a file is cut after each semicolon
and at its end. A process - the bot or a
backup - goes through the names (`Check`), and runs a file that has no row in
`schema_migrations` in one transaction (`Exec`, `Commit`); `Fails` is a statement
SQLite refuses, because another process ran the file after the check, and `Dies` a
kill, a full disk, or five seconds without the lock. SQLite has one writer
(`MayWrite`). `BackupTo` is `VACUUM INTO`; `Restore` is the script's: everything is
stopped, and the file replaced by the backup. The database and the backup
there are at the start are those of any earlier release.

**PanelClient.** `call` is `HaveToken`, `Login`/`LoginFails`, `SaveToken`, `Send`,
then one of the panel's answers; between any two of these the shared token may
be replaced by another handler, or expire (`Expire`, external). `NetworkFails`
is a transport error or the timeout, and leaves open whether the panel acted.

**Renewal.** `Get`, `Put` (or `PutLost`), `Reset`, `ReadBack` are the four
requests of `Renew`, `Refused` any of them failing without effect. Of an account
only the expiry is kept: the limit and the status are set to fixed values
whatever they were. `Span(d)` is the time that `d` days are, and `Duration(d)` what
`Grant.duration` makes of them: a `time.Duration`, which wraps around after 106751
days (below zero: an account that never expires; above: a short time). The form asks
for any number of days. `floor` and `bought` add up the spans written and the spans
asked for; `raced` has the accounts written from an expiry that was no longer true,
`wrapped` those written for days that do not fit, `unending` those sold without an
end. These are histories, read by the
properties alone. `CreateAccount` uses `duration` too, and so wraps as well: there is
nothing to stack on, and it is not repeated here.

**Customers.** `Upsert` is the whole transaction of `UpsertUser`; `Tap`, `Claim`,
`MakeAccount`/`AnswerLost`/`PanelRefuses`, `RecordService`/`ReleaseTrial` are the
calls of `ClaimTrial`. The five attempts at a name are one call here (`Shop` has
the loop).

**Conversation.** A session is an object in `heap` and `current[u]` the map's
pointer to it; a handler keeps its own pointer, so that it may work on an object
that has been replaced or cleared meanwhile, or that another handler works on
too. `Form` lists the conversations and what each asks for; `Start`, `Keep`, `Advance`,
`LastStep` and `Make` do for all of them what the code repeats for each. An input is
three steps: `ReadStep` reads the step (`switch s.step`, admin.go:415), whatever is
done at `answer` is done for the step that was read, however far the session has got
since (`GetDiscount` is called in between, admin.go:463), and `Advance` writes
the step after it. So two handlers may answer one step, and a slow one may take
the session back. Nothing locks the session, and a string is two words: who reads or
writes the step while another writes it may find a step that does not exist, `at = 0`,
which is answered like any unknown one. The two words of a code's value, percent and
amount, are one answer here. `Commit` is the
store or shop call in the end: only its effects on `admins` and `blocked` are
kept, the others are the other modules' matter. A lapsed session is removed at
once (`Lapse`), while the code removes it when it is asked for next: nothing can
tell the difference. `entitled` and `welcome` are histories: the handlers whose
user was an admin, or was welcome, at some moment since the update came in.

## 3. Runs

| run | instance | checks | states |
|---|---|---|---|
| `orders` | 2 customers (one invited by the other), 1 admin, 1 code, 2 orders, 1 adjustment, price 2, reward 1 | `TypeOK`, `NothingUnpaid`, `LedgerMatchesOrders`, `BalanceExplained`, `RewardedOnce`, `CodesSpentOnCompletion`, `SealedOrders`, `ImplementsEscrow` | 148 k |
| `shop_faults` | the same with 2 workers, 3 names (one taken on the panel), all faults, 1 crash | `ShopTypeOK`, `SingleWorker`, `DeliveredOnce`, `CompletedIsDelivered`, `ImplementsOrders` | 835 k |
| `shop_live` | 2 customers (one invited by the other), 2 orders, 2 workers, refusals, 1 crash | `FailedUndelivered`, `EverySaleSettles`, `InviterIsPaid` | 109 k |
| `catalog` | 1 customer, 2 workers, 2 plans (one with an agent price), 1 code of either of two terms, 2 orders, 8-bit integers | `CatalogTypeOK`, `NoOrphans`, `SoldAsShown`, `CodesWereGood`, `CodesStay` | 1.05 M |
| `panel` | 2 handlers, 3 calls, tokens that expire at any time | `ClientTypeOK`, `HonouredOnce`, `StaleTokenHeals`, `CallsReturn` | 164 k |
| `renewal` | 2 accounts (2 units left; never expires), grants of 0, 1, 4, 9 days of 2 units, the largest integer 7 (so that 4 and 9 days wrap: to endless, and to one day), 2 workers, 3 renewals, time 0..3 | `DaysStack`, `NoFreeDays` | 781 k |
| `customers` | 3 people, 3 codes, 2 workers, 3 taps, all faults, 1 crash | `CustomersTypeOK`, `InvitersCameFirst`, `OneFreeAccount` | 40 k |
| `conversation` | an owner and a customer who may be made an admin, 2 workers, 14 kinds of update; the form of four answers on one shared session | `ConversationTypeOK`, `RemovedAdminsAreOut`, `OwnersDecide`, `BlockedAreOut`, `NothingIsMadeOfHalfAForm` | 870 k |
| `migrations` | 3 files with comments in every place, the bot and 2 backups, 3 faults, any release to start from | `MigrationsTypeOK`, `WholeMigrations`, `OpenMeansMigrated`, `BackupsAreMigrated`, `BotServes` | 26 k |
| `two_open_orders` | 1 customer, 2 workers, no faults | `OneOpenOrder` is **violated** | |
| `renewal_race` | 1 account, 2 renewals at once | `DaysAlwaysStack` is **violated** | |
| `code_limit` | 2 customers, 1 worker, a code for one of them | `LimitsHold` is **violated** | |

`BalanceExplained` says that a wallet is the sum of its ledger rows, and that the
sum was never negative after any of them: `Totals` are the running totals of a
customer's rows, and the balance is the last of them.

*Why these bounds are enough to be interesting.* Every property relates at most
two orders, or an order and the ledger; two orders give two of one customer
(code twice, reward twice, cancel while the other is in review) and one of each
(inviter and invited). One adjustment of 2 lets a wallet pay exactly one order
at full price or two at a discount; one crash may come at any step, the recovery
included, and a fault may come at every call. Two workers are what every race
here needs. Deadlock is not checked in these: with the bounded counters used up,
the system really has nothing left to do (an admin can always do something in
`catalog`, and a process in `migrations`: there it is checked). Workers are
interchangeable (symmetry, but not where liveness is checked), and so are the two names the panel does not know, the people and the codes of
`customers`.

`panel`: three calls on two handlers, so that a token can be replaced under a
call, expire again during its retry, and be found stale by a third. `renewal`:
an account with time left, so that a renewal is early, on time (the clock
reaches its expiry) or late; three renewals, two of them at once; days that fit, that
wrap to nothing and that wrap to less. `customers`:
three people are a circle's worth, three taps are two at once and a retry.
`catalog`: each plan is made once, in order, so that the first can be deleted
before or after the second exists; two orders are two sales at once, or one
after the other on the code's only use. `MaxInt` is 127: half of 3 is computed as
`3 * 50` div 100, which does not fit, so the wrapped product is among what is
checked; half of 2 does fit, for the exact case. `migrations`: two backups
and the bot are three that may set out for one file; three faults let each die once.
`conversation` has no counter at all: updates come for ever, and the state space is
finite as it is. The owner's updates are those about people and the form of a code, the
other's those about the shop. Both at their full would be ten times the states, so
`CodesAlone` (a state constraint of this run) lets the owner make a code only while
nobody else is there and nobody is an added admin or blocked: that part is for two
handlers on one session, and two users share none. All five properties are of safety,
which a constraint can only leave states out of.
The form of four answers stands for that of five. In `migrations` a file ends in a
statement without a semicolon.

*Fairness* (`FairShopSpec`): weak fairness of every worker's step and of the
restart. Goroutines are scheduled; every store call returns (one connection,
`busy_timeout`), every panel call returns (20 s timeout of the HTTP client); the
service manager (`restart: unless-stopped`) starts the process again. No
fairness on customers and admins: an order may stay unpaid or unreviewed for ever.
`InviterIsPaid` needs the same, and promises nothing once the process has crashed: a
crash between completion and reward loses the reward until the next purchase, and so
does a store error there (shop.go:321), which this run is without. `FairSpec` of `PanelClient` has the same for its handlers: scheduled, and every
request ends, by its timeout if need be; the panel need never be up. `Spec` of
`Migrations` has weak fairness of the bot's way to being open (docker's
`restart: unless-stopped`) and of a backup's once it is started: a transaction
that was begun goes on or is rolled back. Nothing says that backups are started.

### Findings

* **Two open orders** (`two_open_orders`). shop.go:88 says that an earlier
  unpaid checkout is cancelled first, so that a receipt can only attach to the
  order the customer is looking at. Cancel and create are two calls: two starts
  at once cancel first and create after, and both orders stay open; the receipt
  goes to the younger one.
* **Days lost to a race** (`renewal_race`). README.md:18 of the repository:
  renewals stack on top of the time left, so renewing early never wastes days. The
  expiry is read in one request and written in another: of two renewals of one
  account that overlap, the later write drops the days of the earlier. Without
  such a race days that fit do stack, whatever fails (`DaysStack`).
* **A code over its limit** (`code_limit`). README.md:21 of the repository: codes have a
  use limit. It is compared when the code is typed (shop.go:165) and not when it is
  spent: two customers may put the last use on an order each, and both are served.
  The same holds of a customer's two orders, though that use is counted once
  (`CodesSpentOnCompletion`).

Three more are one branch of one function each; the models have them, and no run is
made of them alone.

* **Time without an end.** client.go:156-158 says that renewing never throws away what
  was paid for. An account that never expires ("0 = never expires", client.go:79) and is
  renewed by a plan with an end gets this end, counted from now (client.go:169-174). `DaysStack`
  counts from then on.
* **More days than fit.** The form takes any number of days (admin.go:427), and
  `Grant.duration` (client.go:84) wraps around: against README.md:18, a renewal
  of very many days may *shorten* the account, without any race. `DaysStack` and
  `NoFreeDays` except the accounts in `wrapped`.
* **Blank numbers.** admin.go:382 says that numeric settings are whole numbers and
  anything else is refused rather than read as 0 later. A `-`, or any message without
  text, stores an empty string (admin.go:553-556), which is read as 0; `OnlyBlanksSlipThrough` proves
  that nothing else does.

## 4. Proofs

Every theorem holds for every value of the constants: any sets of people,
handlers, plans, codes, names, any prices, any faults and bounds. Each rests only
on the named `ASSUME` of its module, which TLC evaluates in every run of it: that
amounts are natural numbers, that handlers are finitely many, that nobody is their
own inviter, that `None`, `Nobody` and `NoCode` are not members of the sets they complete.

| module | theorem | statement |
|---|---|---|
| `OrdersProofs` | `TypeCorrect` | `Spec => []TypeOK`, hence no balance below zero |
| | `NothingIsDeliveredUnpaid` | `Spec => []NothingUnpaid` |
| | `LedgerIsTrue` | `Spec => []LedgerMatchesOrders` |
| | `BalancesAreExplained` | `Spec => []BalanceExplained` |
| | `InvitersAreRewardedOnce`, `CodesAreSpentOnCompletion` | `Spec => []RewardedOnce`, `Spec => []CodesSpentOnCompletion` |
| | `OrdersAreSealed` | `Spec => SealedOrders`, an action property |
| | `OrdersImplementEscrow` | `Spec => ImplementsEscrow`, a refinement |
| `ShopProofs` | `ShopImplementsOrders` | `ShopSpec => ImplementsOrders`, a refinement |
| | `ShopTypeCorrect`, `OneWorkerWins`, `NothingIsDeliveredTwice`, `CompletionMeansDelivery`, `OnlyRenewalsFailDelivered` | `ShopSpec => []` of `ShopTypeOK`, `SingleWorker`, `DeliveredOnce`, `CompletedIsDelivered`, `FailedUndelivered` |
| | `ShopMoneyIsRight`, `ShopKeepsItsBooks` | what is proved of `Orders` holds of the running shop: `ShopSpec =>` `[]` of `NothingUnpaid`, `LedgerMatchesOrders`, `BalanceExplained`, `RewardedOnce`, `CodesSpentOnCompletion`, and `SealedOrders`, `ImplementsEscrow` |
| | `PaidOrdersAreSeenTo` | `ShopSpec => [](Careful => AllSeenTo)`: no order in processing is forgotten |
| | `HandlersComeToAnEnd` | every call of a handler lowers its `Rank`, which is at most `MaxTries + 5` |
| | `DeliveriesAreClosed`, `RewardsAreUnderWay` | a handler lets go of an order when it is closed; a reward that is due has a handler about to pay it |
| | `OnlyOverlapOpensTwo` | `ShopSpec /\ []OneStart(u) =>` at most one open order of `u`, for each customer |
| `CatalogProofs` | `CatalogTypeCorrect`, `PlansOutliveTheirSales`, `ButtonsSellWhatTheyShow`, `DiscountsAreEarned` | `Spec => []` of `CatalogTypeOK`, `NoOrphans`, `SoldAsShown`, `CodesWereGood` |
| | `CodesAreKept` | `Spec => CodesStay`, an action property |
| | `DiscountInRange`, `PercentIsExact` | `Apply` is between 0 and the price whatever overflows, and exact where nothing does |
| `PanelClientProofs` | `ClientTypeCorrect`, `CallsAreHonouredOnce` | `Spec => []ClientTypeOK`, `Spec => []HonouredOnce` |
| | `StaleTokensHeal` | `Spec => StaleTokenHeals`, an action property |
| | `AnswersAreFinal` | `Spec => AnswersFinal`: to its caller a call is one step |
| | `CallsComeToAnEnd` | every step of a handler lowers `Left`, at most nine, and nobody else's raises it |
| `RenewalProofs` | `DaysBoughtAreKept`, `DaysAreNotFree` | `Spec => []DaysStack`, `Spec => []NoFreeDays` |
| | `OnlyOverlapLosesDays` | for each account: `Spec /\ []OneAtATime(a) =>` every day bought for `a` is kept, if the days of all plans fit |
| `CustomersProofs` | `CustomersTypeCorrect`, `InvitationsFormNoCircle`, `TheTrialIsGivenOnce` | `Spec => []` of `CustomersTypeOK`, `InvitersCameFirst`, `OneFreeAccount` |
| | `NobodyFarmsRewards` | `Spec => []NoCircle`: in every group somebody was not invited by the group |
| | `FirstRowsAreFinal` | `Spec => RowsStay`, an action property |
| `ConversationProofs` | `ConversationTypeCorrect`, `RemovedAdminsStayOut`, `BlockedStayOut`, `AllIsAnswered` | `Spec => []` of `ConversationTypeOK`, `RemovedAdminsAreOut`, `BlockedAreOut`, `NothingIsMadeOfHalfAForm` |
| | `OnlyOwnersDecide` | `Spec => OwnersDecide`, an action property |
| | `OnlyBlanksSlipThrough` | `Spec => []WordsAreRefused`: a numeric setting is given a number or a blank |
| `MigrationsProofs` | `MigrationsTypeCorrect`, `NoHalfMigration`, `OpenedIsMigrated` | `Spec => []` of `MigrationsTypeOK`, `WholeMigrations`, `OpenMeansMigrated` |
| | `BackupsAreComplete` | `Spec => BackupsAreMigrated`, an action property |
| | `StartsGetFurther` | `Spec => FailuresAreOvertaken`: an opening goes forward, or fails where the next one will pass |

**Orders.** `TypeOK` is inductive by itself. `NothingUnpaid` is inductive given
`TypeOK`: a step changes an order only through `Update`, so the lemma `UpdateFits`
reduces each action to "the new row fits". `LedgerMatchesOrders` is inductive given
both: the movements an order is owed are a function of the order
(`Movements`), so an action either leaves them as they are
(`UpdateWithoutMovement`: `NothingUnpaid` is what says that an order which is
only now cancelled or approved owed nothing before), or adds exactly one
movement and the ledger row for it in the same step (`OneMovement`), or writes
a row that belongs to no order (`ForeignRow`). The later theorems go by rows:
`Moved` lists what a method may make of an order, and a reward or a use of a code
stays right while its order stays completed. The escrow's sale is a function of the
order too, so that a step of `Orders` is a step of `Escrow` on one sale, or none.
`BalancesAreExplained` needs the running totals of a ledger that grows. They are a
recursive function of the ledger and the prover has no induction over it; instead,
if two ledgers that agree on their first rows had different totals there, there
would be a least row at which they differ (`WFMin` on the natural numbers), and at
that row the defining equation says they do not. So an appended row leaves the
earlier totals alone and adds its own amount to the last (`Change`), which is what
each method adds to the balance in the same transaction.

**Shop.** None of its invariants is inductive alone. `ShopInv` adds what stands
behind a handler at each place (`Stands`: who delivers holds an order in
processing that was not granted before the call to the panel, and has the account
behind it after), that a renewal is of the customer's own service, that the
orders that exist and those about to be inserted fit the bound, and that nothing
runs while the process is down. A step is shown to keep `ShopInv` and to be an
`Orders` step in one go. A failed renewal may stand behind a grant, a failed
purchase may not, so `Stands` lets `fail` have a grant only where the panel may have
cut a renewal short (`MaybeCutShort`). The two things that make a row of another
handler survive a step are `Calm` (an order in another's hands is not touched) and
`Grows` (what was granted stays granted). `Turns` sums a step up for the theorems
about progress: one handler takes its turn, with at most one order in hand,
`Rank` drops, and what the turn leaves of the order is the next place in the same
handler, or an order closed. `AllSeenTo` says who is to end an order in processing:
a handler, this start's list, or the next start. It carries the count along (no more
orders in processing than handlers), because `RecoverInterrupted` asks for at most
`RecoverLimit` of them; `Careful` is that the handlers are no more than that. The
limit is 1000 in the code (shop.go:416), and nothing there bounds the goroutines: with more
at work when the process dies, some orders wait for a later start.

**Catalog.** `CatalogInv` adds that a plan's id is never given again, so that a
button's offer is its plan's while there is one; that every order's plan exists and
is what its button showed; and what a handler in the middle of `ApplyCode` knows: the
code it read was good, or the customer had used it and the next call will say so.

**PanelClient.** `IInv` adds that a running call has returned nothing and nothing
was done for it (`Pending`), that no two handlers run the same call (`Apart`), and
where a handler stands with respect to the shared token (`Standing`: who sends has a
token, the token about to be saved is one the panel accepts, and after the retry's
login the token is good unless one expired). `AnswersAreFinal` is what the other
modules rely on when they make a call of the panel one step with three outcomes.

**Renewal.** What was asked for in `bought` is partly written and partly still in the
hands of handlers: the invariant behind `NoFreeDays` is that the expiry and
what is `Pending` together stay below the bound, where the sum over the handlers is
stated as the existence of a partial sum (`Adds`), because a fold would need
induction. `DaysStack` needs that who is about to write has read the expiry that is
still there, or the account is in `raced`. Without two renewals of the account between
their read and their write nothing gets into `raced` (`UpToDate`), and nothing gets into
`wrapped` while days fit. Wrapping around enters by one lemma only: a duration is at most the days
it is of, and as long if they fit (`DurationFacts`).

**Customers.** `PeopleOK` orders people by when they joined. `TrialOf(u)` says of a
customer, given the handler that holds their claim, whether the account and its
service are there; a handler is the only one to hold it, because the claim is a
compare-and-set. Of any group one joined first, and was invited by nobody in it.

**Conversation.** A session `Fits` when it has the answers to all the questions
before the one it is at, whichever that is: it may be taken back. What holds it
together is that answers are only added: writing to a shared object never changes
what it is for and never takes an answer out (`Same`). So who has read a step knows that
the questions before it are answered (`Asked`), and who has kept the answer to it that
this one is too (`Kept`), however the session moves meanwhile; the step after it
may be written at any time. A step made of two, `at = 0`, asks for nothing. `Stands`
says what each place in a handler has behind it.
That there is a free object for a new session (`FreeSession`) is a counting argument.

**Migrations.** What is committed is a whole prefix of the files, and a process has
the files it passed behind it: a restore, which could take that away, finds
every process down. That a start gets further than a failed one is that a statement
is refused only when its file is applied already, and the log only grows while a
process is up.

**The findings, bounded.** A violated property has a theorem beside it that says how
much of it is left: `OnlyOverlapOpensTwo` and `OnlyOverlapLosesDays`; so has the blank
number, `OnlyBlanksSlipThrough`. The first two assume of a behaviour what the code does not
ensure, that two starts of one customer (two renewals of one account) do not overlap,
and TLC shows that this cannot be left out.

*Model-checked only:* liveness (`EverySaleSettles`, `InviterIsPaid`, `CallsReturn`,
`BotServes`). It rests on fairness, hence on `ENABLED`, which is out of this prover's
reach. What is proved of each is the part that needs no fairness, so that all it takes
besides is that who can take a step does: somebody has the obligation at every moment
(`PaidOrdersAreSeenTo`, `RewardsAreUnderWay`), does not drop it (`DeliveriesAreClosed`)
and has only so many steps to go (`HandlersComeToAnEnd`, `CallsComeToAnEnd`,
`StartsGetFurther`). TLC found no counterexample to `AllSeenTo`, `RewardsUnderWay` and
`WordsAreRefused` on the instances of `shop_live`, `shop_faults` (without `store`) and
an owner who types two settings before they were proved.

## 5. Not modelled, and why

* Wording, keyboards, Persian digits, QR codes, listings: pure functions of what the
  other components keep; no property is about them.
* Configuration from the environment, logging, and of the installer all but
  backup and restore: input handling and operations outside the program.
* The broadcast's loop over customers: what it sends is fixed when it begins
  (`Send`); a double tap sends it twice, which nothing in the repository excludes.
* The display names of customers, and of a service its traffic and status, which
  the panel keeps.
* SQLite itself: atomic, durable statements and transactions, and one writer at a
  time, are assumed.
* Times (`created_at`, `updated_at`) and statistics: read-only reports.

## 6. What could follow

* `AnswersFinal` as a refinement: an abstract module of a call with its three outcomes,
  which `PanelClient` implements and which `Shop`, `Renewal` and `Customers` instantiate.
* Of `Catalog`, which earlier reading each sale rests on, as an action property; of
  `Conversation`, that a broadcast of one confirmed text is sent once unless two taps overlap.
* Editions of `Catalog` in which renewals share the plans with purchases.
* Of `Shop.Begin` and `Catalog.StartPurchase`, the reading of the plan and the cancelling as
  the two calls they are; no property of today tells the difference.

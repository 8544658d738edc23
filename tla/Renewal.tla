------------------------------ MODULE Renewal -------------------------------
(***************************************************************************)
(* Renewing a panel account, Client.Renew of internal/panel/client.go: the *)
(* expiry is read (GET), a new one is computed from it and written (PUT),  *)
(* the usage is reset (POST .../reset) and the account is read back, in    *)
(* four requests.  Other renewals run in between, of the same account too. *)
(* The data limit and the status are set to fixed values whatever they     *)
(* were and the usage to zero, so of the account only the expiry is kept.  *)
(*                                                                         *)
(* A request is one atomic step with three outcomes - done, refused, or    *)
(* done with its answer lost - which is what PanelClient.tla shows of a    *)
(* call.  Time is counted in the clock's own unit, Day of which make a     *)
(* day, and 0 is the panel's "no expiry", as in the code.                  *)
(***************************************************************************)
EXTENDS GoInt, FiniteSets

CONSTANTS
  Accounts,     \* panel accounts the bot has created
  Workers,      \* deliveries that may run at the same time
  Durations,    \* the days a plan may grant; 0 is a plan that never expires
  Day,          \* how long a day is: 24h in nanoseconds
  FirstExpiry,  \* FirstExpiry[a]: the expiry of a at the start, 0 for none
  MaxTime,      \* bound: how far the clock runs
  MaxRenewals   \* bound: renewals ever started

ASSUME RenewalAssumption ==
  /\ Durations \subseteq Nat
  /\ Day \in Nat \ {0} /\ MaxInt \in Nat
  /\ FirstExpiry \in [Accounts -> Nat]
  /\ MaxTime \in Nat /\ MaxRenewals \in Nat

VARIABLES
  now,          \* the clock
  expiry,       \* expiry[a], as the panel has it
  task,         \* task[w]: what delivery w does next, and its locals
  bought,       \* history: bought[a], the time of a's renewals, summed
  floor,        \* history: floor[a], the first expiry plus the time written
  unending,     \* history: accounts that were sold without an end
  wrapped,      \* history: accounts written with a time that did not fit
  raced,        \* history: accounts written from an expiry no longer true
  started       \* renewals started

renewalVars == <<now, expiry, task, bought, floor, unending, wrapped, raced, started>>

history == <<bought, floor, unending, wrapped, raced>>

NoExpiry(e) == e = 0

Later(s, t) == IF s < t THEN t ELSE s

\* The time that d days are, and what Grant.duration makes of it: a
\* time.Duration, which wraps around.
Span(d) == d * Day
Duration(d) == Wrap(Span(d))

Fits(d) == Span(d) <= MaxInt

\* Mutant: the days are always counted from now.
FromNow(cur, at, d) == IF Duration(d) <= 0 THEN 0 ELSE at + Duration(d)

\* The expiry that is written: cur is what was read, at the time of the call's
\* start, d the days of the grant.
NewExpiry(cur, at, d) ==
  IF Duration(d) <= 0 THEN 0
  ELSE IF NoExpiry(cur) THEN at + Duration(d)
  ELSE Later(at, cur) + Duration(d)

Idle == [pc |-> "idle"]

Busy == [pc: {"get", "put", "reset", "read"}, account: Accounts, d: Durations,
         at: 0..MaxTime, cur: Nat]

Init ==
  /\ now = 0
  /\ expiry = FirstExpiry
  /\ task = [w \in Workers |-> Idle]
  /\ bought = [a \in Accounts |-> 0]
  /\ floor = FirstExpiry
  /\ unending = {a \in Accounts : NoExpiry(FirstExpiry[a])}
  /\ wrapped = {} /\ raced = {}
  /\ started = 0

-----------------------------------------------------------------------------
At(w, pc) == task[w].pc = pc

Goto(w, pc) == task' = [task EXCEPT ![w].pc = pc]

\* Renew returns; the shop fails the order unless all of it went through.
Finish(w) == task' = [task EXCEPT ![w] = Idle]

Start(w, a, d) ==
  /\ At(w, "idle") /\ started < MaxRenewals
  /\ started' = started + 1
  /\ task' = [task EXCEPT ![w] = [pc |-> "get", account |-> a, d |-> d, at |-> now, cur |-> 0]]
  /\ bought' = [bought EXCEPT ![a] = @ + Span(d)]
  /\ unending' = IF d = 0 THEN unending \cup {a} ELSE unending
  /\ UNCHANGED <<now, expiry, floor, wrapped, raced>>

Get(w) ==
  /\ At(w, "get")
  /\ task' = [task EXCEPT ![w].pc = "put", ![w].cur = expiry[task[w].account]]
  /\ UNCHANGED <<now, expiry, history, started>>

\* What the panel does on a PUT, and its trace in the histories.  The time sold
\* of an account without an end starts over when it is given one.
Write(w) ==
  LET t == task[w]
      a == t.account
      e == NewExpiry(t.cur, t.at, t.d)
  IN  /\ expiry' = [expiry EXCEPT ![a] = e]
      /\ floor' = [floor EXCEPT ![a] =
                     IF t.d = 0 THEN 0
                     ELSE (IF NoExpiry(expiry[a]) THEN t.at ELSE @) + Span(t.d)]
      /\ wrapped' = IF Fits(t.d) THEN wrapped ELSE wrapped \cup {a}
      /\ raced' = IF expiry[a] = t.cur THEN raced ELSE raced \cup {a}
      /\ UNCHANGED <<bought, unending>>

Put(w) ==
  /\ At(w, "put")
  /\ Write(w)
  /\ Goto(w, "reset")
  /\ UNCHANGED <<now, started>>

\* Mutant: a renewal whose answer was lost is done once more, from the GET.
PutLostRetried(w) ==
  /\ At(w, "put")
  /\ Write(w)
  /\ Goto(w, "get")
  /\ UNCHANGED <<now, started>>

PutLost(w) ==
  /\ At(w, "put")
  /\ Write(w)
  /\ Finish(w)
  /\ UNCHANGED <<now, started>>

Reset(w) ==
  /\ At(w, "reset")
  /\ \/ Goto(w, "read")
     \/ Finish(w)         \* "renewed, but resetting usage failed": lost
  /\ UNCHANGED <<now, expiry, history, started>>

\* The last request: the account as it is now, for the customer.
ReadBack(w) ==
  /\ At(w, "read")
  /\ Finish(w)
  /\ UNCHANGED <<now, expiry, history, started>>

\* Refused, or never arrived; nothing is undone.
Refused(w) ==
  /\ task[w].pc \in {"get", "put", "reset"}
  /\ Finish(w)
  /\ UNCHANGED <<now, expiry, history, started>>

-----------------------------------------------------------------------------
Tick ==
  /\ now < MaxTime
  /\ now' = now + 1
  /\ UNCHANGED <<expiry, task, history, started>>

Step(w) == Get(w) \/ Put(w) \/ PutLost(w) \/ Reset(w) \/ ReadBack(w) \/ Refused(w)

Next ==
  \/ \E w \in Workers :
       \/ \E a \in Accounts, d \in Durations : Start(w, a, d)
       \/ Step(w)
  \/ Tick

Spec == Init /\ [][Next]_renewalVars
-----------------------------------------------------------------------------
(* Properties.                                                             *)

(* The clock, the expiries, the locals and the histories are well formed   *)
(* (checked as a part of NoFreeDays).                                      *)
RenewalTypeOK ==
  /\ now \in 0..MaxTime
  /\ expiry \in [Accounts -> Nat]
  /\ task \in [Workers -> {Idle} \cup Busy]
  /\ bought \in [Accounts -> Nat] /\ floor \in [Accounts -> Nat]
  /\ unending \subseteq Accounts /\ wrapped \subseteq Accounts /\ raced \subseteq Accounts
  /\ started \in 0..MaxRenewals

(* "renewing early never throws away days the customer already paid for"   *)
(* (client.go:157): every renewal written adds its days to what was left,  *)
(* however refused, lost and late answers mix.  Three things are excepted, *)
(* in which the code does not keep this promise: a renewal written from an *)
(* expiry that another had changed since it was read (raced), days that do *)
(* not fit an int64 of nanoseconds (wrapped), and the time without an end  *)
(* that an account loses when it is renewed with one: the days that count  *)
(* are those from then on.                                                 *)
DaysStack ==
  \A a \in Accounts \ (raced \cup wrapped) : NoExpiry(expiry[a]) \/ expiry[a] >= floor[a]

(* The variables have their types, and no account gets days nobody started *)
(* to buy, for renewals that overlap or fail half way too: an expiry is    *)
(* never later than all the renewals of the account laid end to end, from  *)
(* its first expiry or from now, and there is none only if the account was *)
(* sold without one, or for days that do not fit.  A renewal that failed   *)
(* and was refunded counts as bought: what it wrote is not taken back.     *)
NoFreeDays ==
  /\ RenewalTypeOK
  /\ \A a \in Accounts :
       /\ expiry[a] <= Later(FirstExpiry[a], now) + bought[a]
       /\ NoExpiry(expiry[a]) => a \in unending \cup wrapped

(* README.md:18, "stack on top of the time left, so renewing early never   *)
(* wastes days", of renewals that may overlap.                             *)
DaysAlwaysStack ==
  \A a \in Accounts \ wrapped : NoExpiry(expiry[a]) \/ expiry[a] >= floor[a]
=============================================================================

----------------------------- MODULE Customers ------------------------------
(***************************************************************************)
(* Who the customers are and their one free trial: Store.UpsertUser and the*)
(* trial flag of internal/store/users.go, and Shop.ClaimTrial, which claims*)
(* the flag, creates the panel account, and either records the service or  *)
(* gives the flag back - three or four calls, with other claims, faults and*)
(* a crash in between.                                                     *)
(*                                                                         *)
(* A referral code is a model value; the display names are left out.  The  *)
(* five attempts at a free name are one call here (Shop.tla has the loop). *)
(***************************************************************************)
EXTENDS Integers, Sequences, FiniteSets

CONSTANTS
  People,       \* Telegram users
  Codes,        \* the referral codes there are
  NoCode,       \* no code, or text that is nobody's code
  Nobody,       \* not invited
  Workers,      \* handlers that may run at the same time
  Faults,       \* what may go wrong: subset of {"refused", "lost", "store"}
  MaxClaims,    \* bound: taps on the trial button
  MaxCrashes    \* bound: crashes

ASSUME CustomersAssumption ==
  /\ NoCode \notin Codes /\ Nobody \notin People
  /\ Faults \subseteq {"refused", "lost", "store"}
  /\ MaxClaims \in Nat /\ MaxCrashes \in Nat

VARIABLES
  joined,       \* the users table, in the order of insertion
  code,         \* code[u]: u's referral code, NoCode before u has joined
  referrer,     \* referrer[u]: who invited u, or Nobody
  trialUsed,    \* the customers whose trial_used is 1
  services,     \* the trial services recorded, as <<customer, account>>
  accounts,     \* accounts[u]: trial accounts made on the panel for u
  task,         \* task[w]: what the handler does next, and for whom
  claims,       \* taps so far
  crashes,      \* crashes so far
  lost,         \* history: customers whose account was made, answer lost
  hurt          \* history: customers hit by a store error or a crash

people == <<joined, code, referrer>>
trial == <<trialUsed, services, accounts>>
history == <<lost, hurt>>
customersVars == <<people, trial, task, claims, crashes, history>>

Known == {joined[i] : i \in DOMAIN joined}

Idle == [pc |-> "idle"]

\* account is the panel's name for it, once made.
Busy == [pc: {"claim", "make", "record", "release"}, user: People, account: Nat]

Init ==
  /\ joined = << >>
  /\ code = [u \in People |-> NoCode]
  /\ referrer = [u \in People |-> Nobody]
  /\ trialUsed = {} /\ services = {}
  /\ accounts = [u \in People |-> 0]
  /\ task = [w \in Workers |-> Idle]
  /\ claims = 0 /\ crashes = 0
  /\ lost = {} /\ hurt = {}

-----------------------------------------------------------------------------
(* UpsertUser, at every update a customer sends; text is what follows      *)
(* /start, or NoCode.                                                      *)

\* Who owns the code, at this moment.
Owner(text) ==
  IF \E v \in Known : code[v] = text
  THEN CHOOSE v \in Known : code[v] = text
  ELSE Nobody

\* Mutant: the drawn code is not looked up.
InsertAnyCode(u, text) ==
  /\ u \notin Known
  /\ joined' = Append(joined, u)
  /\ referrer' = [referrer EXCEPT ![u] = Owner(text)]
  /\ \E c \in Codes : code' = [code EXCEPT ![u] = c]

\* uniqueReferralCode: some code nobody has.  u has none yet, so the owner is
\* somebody else.
Insert(u, text) ==
  /\ u \notin Known
  /\ joined' = Append(joined, u)
  /\ referrer' = [referrer EXCEPT ![u] = Owner(text)]
  /\ \E c \in Codes :
       /\ \A v \in Known : code[v] # c
       /\ code' = [code EXCEPT ![u] = c]

\* Mutant: whoever has no inviter yet gets one from a link.
UpsertAttributes(u, text) ==
  /\ \/ Insert(u, text)
     \/ /\ u \in Known /\ referrer[u] = Nobody /\ Owner(text) # u
        /\ referrer' = [referrer EXCEPT ![u] = Owner(text)]
        /\ UNCHANGED <<joined, code>>
  /\ UNCHANGED <<trial, task, claims, crashes, history>>

\* An existing row keeps its referrer: only the names are refreshed.
Upsert(u, text) ==
  /\ \/ Insert(u, text)
     \/ u \in Known /\ UNCHANGED people
  /\ UNCHANGED <<trial, task, claims, crashes, history>>

-----------------------------------------------------------------------------
(* ClaimTrial.                                                             *)

At(w, pc) == task[w].pc = pc

Goto(w, pc) == task' = [task EXCEPT ![w].pc = pc]

Finish(w) == task' = [task EXCEPT ![w] = Idle]

\* The button, while the trial is enabled.
Tap(w, u) ==
  /\ At(w, "idle") /\ u \in Known /\ claims < MaxClaims
  /\ claims' = claims + 1
  /\ task' = [task EXCEPT ![w] = [pc |-> "claim", user |-> u, account |-> 0]]
  /\ UNCHANGED <<people, trial, crashes, history>>

\* Mutant: the update has no "AND trial_used = 0".
ClaimUnguarded(w) ==
  /\ At(w, "claim")
  /\ trialUsed' = trialUsed \cup {task[w].user}
  /\ Goto(w, "make")
  /\ UNCHANGED <<people, services, accounts, claims, crashes, history>>

\* Claimed by this call, or used already.
Claim(w) ==
  /\ At(w, "claim")
  /\ IF task[w].user \in trialUsed
     THEN Finish(w)
     ELSE Goto(w, "make")
  /\ trialUsed' = trialUsed \cup {task[w].user}
  /\ UNCHANGED <<people, services, accounts, claims, crashes, history>>

MakeAccount(w) ==
  LET u == task[w].user
  IN  /\ At(w, "make")
      /\ accounts' = [accounts EXCEPT ![u] = @ + 1]
      /\ task' = [task EXCEPT ![w].pc = "record", ![w].account = accounts'[u]]
      /\ UNCHANGED <<people, trialUsed, services, claims, crashes, history>>

\* The panel made the account and the answer did not arrive.
AnswerLost(w) ==
  LET u == task[w].user
  IN  /\ At(w, "make") /\ "lost" \in Faults
      /\ accounts' = [accounts EXCEPT ![u] = @ + 1]
      /\ lost' = lost \cup {u}
      /\ Goto(w, "release")
      /\ UNCHANGED <<people, trialUsed, services, claims, crashes, hurt>>

\* The panel is down, refuses, or knows all five names.
PanelRefuses(w) ==
  /\ At(w, "make") /\ "refused" \in Faults
  /\ Goto(w, "release")
  /\ UNCHANGED <<people, trial, claims, crashes, history>>

ReleaseTrial(w) ==
  /\ At(w, "release")
  /\ trialUsed' = trialUsed \ {task[w].user}
  /\ Finish(w)
  /\ UNCHANGED <<people, services, accounts, claims, crashes, history>>

RecordService(w) ==
  /\ At(w, "record")
  /\ services' = services \cup {<<task[w].user, task[w].account>>}
  /\ Finish(w)
  /\ UNCHANGED <<people, trialUsed, accounts, claims, crashes, history>>

\* A store call fails: the claim is not made, the trial is not given back
\* (its error is dropped), or the account is not recorded.
StoreError(w) ==
  /\ task[w].pc \in {"claim", "release", "record"} /\ "store" \in Faults
  /\ hurt' = IF At(w, "claim") THEN hurt ELSE hurt \cup {task[w].user}
  /\ Finish(w)
  /\ UNCHANGED <<people, trial, claims, crashes, lost>>

\* Nothing looks after a trial that a crash interrupted.
Crash ==
  /\ crashes < MaxCrashes
  /\ crashes' = crashes + 1
  /\ hurt' = hurt \cup {task[w].user : w \in {v \in Workers : ~At(v, "idle")}}
  /\ task' = [w \in Workers |-> Idle]
  /\ UNCHANGED <<people, trial, claims, lost>>

-----------------------------------------------------------------------------
Step(w) ==
  \/ Claim(w) \/ MakeAccount(w) \/ AnswerLost(w) \/ PanelRefuses(w)
  \/ ReleaseTrial(w) \/ RecordService(w) \/ StoreError(w)

Next ==
  \/ \E u \in People, text \in Codes \cup {NoCode} : Upsert(u, text)
  \/ \E w \in Workers : Step(w) \/ \E u \in People : Tap(w, u)
  \/ Crash

Spec == Init /\ [][Next]_customersVars
-----------------------------------------------------------------------------
(* Properties.                                                             *)

Claiming(u) == \E w \in Workers : task[w].pc # "idle" /\ task[w].user = u

(* The tables are well formed: nobody joins twice, and no two customers    *)
(* have the same referral code.                                            *)
CustomersTypeOK ==
  /\ joined \in Seq(People) /\ Cardinality(Known) = Len(joined)
  /\ code \in [People -> Codes \cup {NoCode}]
  /\ \A u, v \in Known : code[u] # NoCode /\ (code[u] = code[v] => u = v)
  /\ referrer \in [People -> People \cup {Nobody}]
  /\ trialUsed \subseteq Known
  /\ services \subseteq Known \X (Nat \ {0})
  /\ accounts \in [People -> Nat]
  /\ task \in [Workers -> {Idle} \cup Busy]

(* "The referrer is only ever set on the very first insert", or "anyone    *)
(* could farm rewards by re-sharing links" (users.go:46): an inviter had   *)
(* joined before the customer, so invitations never form a circle, however *)
(* customers pass each other's links round after joining.                  *)
InvitersCameFirst ==
  \A i \in DOMAIN joined :
    referrer[joined[i]] \in {Nobody} \cup {joined[j] : j \in 1..(i - 1)}

(* "what stops a customer double-tapping the button into two free          *)
(* accounts" (users.go:127): one trial account at most, for any number of  *)
(* taps at once, refusals, crashes and store errors - as long as no answer *)
(* of the panel was lost.  And "a panel outage never costs a customer their*)
(* one free trial" (users.go:138): when no claim is running, the trial is  *)
(* used exactly if there is an account for it, and the customer has that   *)
(* account as a service - unless a crash or the store came between.        *)
OneFreeAccount ==
  \A u \in People \ lost :
    /\ accounts[u] <= 1
    /\ u \in Known \ hurt /\ ~Claiming(u) =>
         /\ u \in trialUsed <=> accounts[u] = 1
         /\ u \in trialUsed <=> <<u, 1>> \in services
=============================================================================

---------------------------- MODULE Conversation ----------------------------
(***************************************************************************)
(* What happens to an update before anything is done for it: the gate for  *)
(* blocked customers, the admin checks, and the conversations that collect *)
(* input message by message - internal/bot/bot.go, admin.go and the input  *)
(* half of customer.go, over store/admins.go.                              *)
(*                                                                         *)
(* Every update runs in a handler of its own.  A session is an object that *)
(* the map and any number of handlers point to; it may be replaced or      *)
(* cleared while handlers still use it.  sessions.mu covers the map only.  *)
(*                                                                         *)
(* What the updates do to orders, plans, codes and balances is the other   *)
(* modules' matter: here it is one step, Commit, and the question is who   *)
(* gets there and with which input.                                        *)
(***************************************************************************)
EXTENDS Integers, Sequences, FiniteSets

CONSTANTS
  People,       \* Telegram users
  Owners,       \* the admins of the configuration
  Workers,      \* handlers that may run at the same time
  Updates,      \* Updates[u]: the buttons and messages of u in this instance
  Keys,         \* the settings
  Numeric,      \* numericSettings: those that must be whole numbers
  NoKey         \* no setting chosen

ASSUME ConversationAssumption ==
  /\ IsFiniteSet(Workers)
  /\ Owners \subseteq People
  /\ Numeric \subseteq Keys /\ NoKey \notin Keys

VARIABLES
  admins,       \* the admins table
  blocked,      \* the users whose is_blocked is 1
  heap,         \* heap[u][i]: the session object i of u
  current,      \* current[u]: the one the map has for u, 0 for none
  task,         \* task[w]: what the handler does next, and its locals
  entitled,     \* history: handlers whose user was an admin since arrival
  welcome       \* history: those whose user was not blocked, or an admin

tables == <<admins, blocked>>
history == <<entitled, welcome>>
conversationVars == <<tables, heap, current, task, history>>

\* The conversations, by the button that starts them, and what each asks for.
Form ==
  [pladd  |-> <<"name", "gb", "days", "price", "agent">>,
   dcadd  |-> <<"code", "value", "max", "days">>,
   um     |-> <<"amount">>,
   u      |-> <<"id">>,
   se     |-> <<"value">>,
   admadd |-> <<"id">>,
   bc     |-> <<"text">>,
   dc     |-> <<"code">>,
   top    |-> <<"amount">>]

CustomerForms == {"dc", "top"}
AdminForms == DOMAIN Form \ CustomerForms

\* "order" stands for every other button of a customer that does something,
\* "act" for those of an admin: approve, reject, toggles, deletions.
CustomerTaps == {"m", "order"} \cup CustomerForms
OwnerTaps == {"admadd", "admdel"}
AdminTaps == {"a", "act", "ub", "bcgo"} \cup OwnerTaps \cup AdminForms

\* "clear" is /start, /menu or /cancel.
Messages == {"clear", "/admin", "photo", "text"}

ASSUME UpdatesAssumption == Updates \in [People -> SUBSET (CustomerTaps \cup AdminTaps \cup Messages)]

AdminEffects == {"act", "ub", "admdel", "pladd", "dcadd", "um", "se", "admadd", "bcgo"}

Values == {"number", "words", "blank"}

\* isAdmin, read from the table at every check.
Admins == Owners \cup admins

-----------------------------------------------------------------------------
(* Sessions.                                                               *)

\* One in the map, and one for each handler that still has an older one.
Sessions == 1..(Cardinality(Workers) + 1)

\* at is the step, by its number; 0 is a string made of two, which is none.
Session == [form: DOMAIN Form, at: 0..5, filled: SUBSET (1..5), key: Keys \cup {NoKey}]

Blank == [form |-> "pladd", at |-> 1, filled |-> {}, key |-> NoKey]

Idle == [pc |-> "idle"]

\* session is s, at the step that was read of it, target the user an admin
\* acts on, value the input or, for a block, what is_blocked is to be.
Busy == [pc: {"gate", "route", "admin", "choose", "exempt", "check", "input", "answer",
              "advance", "send", "commit"},
         user: People, what: CustomerTaps \cup AdminTaps \cup Messages, session: {0} \cup Sessions,
         at: 0..5, filled: SUBSET (1..5), key: Keys \cup {NoKey}, target: People, value: Values \cup {"block", "unblock"}]

At(w, pc) == task[w].pc = pc
What(w) == task[w].what
User(w) == task[w].user

Live(u) == {current[u]} \cup {task[w].session : w \in {v \in Workers : ~At(v, "idle") /\ User(v) = u}}

\* Objects nothing points to are collected.
Heap(h) ==
  heap' = [u \in People |-> [i \in Sessions |-> IF i \in Live(u)' THEN h[u][i] ELSE Blank]]

Goto(w, pc) == task' = [task EXCEPT ![w].pc = pc]

Finish(w) == task' = [task EXCEPT ![w] = Idle]

ClearSession(u) == current' = [current EXCEPT ![u] = 0]

Return(w) ==
  /\ Finish(w)
  /\ UNCHANGED <<tables, current>>
  /\ Heap(heap)

ClearAndReturn(w) ==
  /\ ClearSession(User(w))
  /\ Finish(w)
  /\ UNCHANGED tables
  /\ Heap(heap)

\* Only the program counter moves.
Pass(w, pc) ==
  /\ Goto(w, pc)
  /\ UNCHANGED <<tables, heap, current>>

Init ==
  /\ admins = {} /\ blocked = {}
  /\ heap = [u \in People |-> [i \in Sessions |-> Blank]]
  /\ current = [u \in People |-> 0]
  /\ task = [w \in Workers |-> Idle]
  /\ entitled = {} /\ welcome = {}

-----------------------------------------------------------------------------
(* The gate: customer().                                                   *)

Receive(w, u, what, pc) ==
  task' = [task EXCEPT ![w] =
    [pc |-> pc, user |-> u, what |-> what, session |-> 0, at |-> 0,
     filled |-> {}, key |-> NoKey, target |-> u, value |-> "blank"]]

\* Mutant: messages are not checked, only the buttons are.
ArriveUnchecked(w, u, what) ==
  /\ At(w, "idle")
  /\ Receive(w, u, what, IF u \in blocked /\ what \notin Messages THEN "gate" ELSE "route")
  /\ UNCHANGED <<tables, heap, current>>

Arrive(w, u, what) ==
  /\ At(w, "idle")
  /\ Receive(w, u, what, IF u \in blocked THEN "gate" ELSE "route")
  /\ UNCHANGED <<tables, heap, current>>

\* A blocked user passes only as an admin.
LetIn(w) ==
  /\ At(w, "gate")
  /\ IF User(w) \in Admins THEN Pass(w, "route") ELSE Return(w)

-----------------------------------------------------------------------------
(* Messages.                                                               *)

Clear(w) ==
  /\ At(w, "route") /\ What(w) \in {"clear", "m"}
  /\ ClearAndReturn(w)

\* From anyone else it is text like any other.
SlashAdmin(w) ==
  /\ At(w, "route") /\ What(w) = "/admin"
  /\ IF User(w) \in Admins
     THEN ClearAndReturn(w)
     ELSE /\ task' = [task EXCEPT ![w].what = "text"]
          /\ UNCHANGED <<tables, heap, current>>

\* sessions.get, and the prefix of the step.
OnText(w) ==
  LET i == current[User(w)]
  IN  /\ At(w, "route") /\ What(w) = "text"
      /\ IF i = 0
         THEN Return(w)
         ELSE /\ task' = [task EXCEPT
                   ![w].pc = IF heap[User(w)][i].form \in AdminForms THEN "check" ELSE "input",
                   ![w].session = i]
              /\ UNCHANGED <<tables, heap, current>>

\* Mutant: who has an admin's session is an admin.
OnInputTrusting(w) ==
  /\ At(w, "check")
  /\ Pass(w, "input")

\* onInput: the session of an admin who was removed is worth nothing.
OnInput(w) ==
  /\ At(w, "check")
  /\ IF User(w) \in Admins THEN Pass(w, "input") ELSE ClearAndReturn(w)

-----------------------------------------------------------------------------
(* Input: the step is read once, and the text is taken for it however far  *)
(* the session has got by then.  Nothing locks the session: between the    *)
(* step and what is written for it another handler may read the same step, *)
(* write the same answer, or move the session on - or back.                *)

Conversing(w) == heap[User(w)][task[w].session]

Confirming(s) == s.form = "bc" /\ s.at = 2

\* The handlers that are about to write a step to this handler's session.  A
\* string is two words: who reads or writes it at that moment may make one of
\* them out of two.
Advancing(w) ==
  {v \in Workers \ {w} :
     At(v, "advance") /\ User(v) = User(w) /\ task[v].session = task[w].session}

\* switch s.step.
ReadStep(w) ==
  /\ At(w, "input")
  /\ \E at \in {Conversing(w).at} \cup {0 : v \in Advancing(w)} :
       task' = [task EXCEPT ![w].pc = "answer", ![w].at = at]
  /\ UNCHANGED <<tables, heap, current>>

\* What the step that was read asks for is the last of its conversation.
AskedLast(w) == task[w].at = Len(Form[Conversing(w).form])

AskedToConfirm(w) == Conversing(w).form = "bc" /\ task[w].at = 2

\* A customer is looked up; a session that waits for a button takes no text,
\* and neither does one with a step nobody knows.
NothingToMake(w) ==
  /\ At(w, "answer")
  /\ Conversing(w).form = "u" \/ AskedToConfirm(w) \/ task[w].at = 0
  /\ ClearAndReturn(w)

\* Any text will do for a name, a broadcast, a setting that is no number.
AnyText(w) ==
  \/ Conversing(w).form = "bc"
  \/ Conversing(w).form = "pladd" /\ task[w].at = 1
  \/ Conversing(w).form = "se" /\ Conversing(w).key \notin Numeric

\* Not a number, a code that exists, a word that is no code: asked again.
AskAgain(w) ==
  /\ At(w, "answer") /\ task[w].at # 0 /\ ~AnyText(w)
  /\ Return(w)

\* The text is kept.
Keep(w) ==
  /\ At(w, "answer") /\ task[w].at # 0
  /\ ~AskedToConfirm(w) /\ (~AskedLast(w) \/ Conversing(w).form = "bc")
  /\ Goto(w, "advance")
  /\ UNCHANGED <<tables, current>>
  /\ Heap([heap EXCEPT ![User(w)][task[w].session].filled = @ \cup {task[w].at}])

\* Mutant: the session is moved on from where it is by now.
AdvanceFromHere(w) ==
  /\ At(w, "advance")
  /\ Finish(w)
  /\ UNCHANGED <<tables, current>>
  /\ Heap([heap EXCEPT ![User(w)][task[w].session].at = @ + 1])

\* The next one is asked for, or a broadcast previewed: the step after the
\* one that was read is written, unless another is written into it.
Advance(w) ==
  /\ At(w, "advance")
  /\ Finish(w)
  /\ UNCHANGED <<tables, current>>
  /\ \E at \in {task[w].at + 1} \cup {0 : v \in {u \in Advancing(w) : task[u].at # task[w].at}} :
       Heap([heap EXCEPT ![User(w)][task[w].session].at = at])

\* The answers are read off the session, and something is done with them.
Make(w, key, target, value) ==
  task' = [task EXCEPT ![w] =
    [pc |-> "commit", user |-> User(w), what |-> Conversing(w).form, session |-> 0, at |-> 0,
     filled |-> Conversing(w).filled \cup {task[w].at},
     key |-> key, target |-> target, value |-> value]]

\* The last text of an admin's conversation: the fields are read, the map is
\* cleared, and then something is done with them.
LastStep(w) ==
  /\ At(w, "answer") /\ AskedLast(w)
  /\ Conversing(w).form \notin {"bc", "u", "se", "admadd"} \cup CustomerForms
  /\ ClearSession(User(w))
  /\ Make(w, NoKey, User(w), "blank")
  /\ UNCHANGED tables
  /\ Heap(heap)

\* A code or an amount: the shop first, and then the map.
CustomerInput(w) ==
  /\ At(w, "answer") /\ AskedLast(w) /\ Conversing(w).form \in CustomerForms
  /\ Make(w, NoKey, User(w), "blank")
  /\ UNCHANGED <<tables, current>>
  /\ Heap(heap)

\* "-" and a message without text both blank a setting.
EnterSetting(w, v) ==
  /\ At(w, "answer") /\ AskedLast(w) /\ Conversing(w).form = "se"
  /\ Conversing(w).key \in Numeric => v # "words"
  /\ ClearSession(User(w))
  /\ Make(w, Conversing(w).key, User(w), v)
  /\ UNCHANGED tables
  /\ Heap(heap)

\* Mutant: owners are entered in the table like anybody else.
EnterAnyAdmin(w, v) ==
  /\ At(w, "answer") /\ AskedLast(w) /\ Conversing(w).form = "admadd"
  /\ ClearSession(User(w))
  /\ Make(w, NoKey, v, "blank")
  /\ UNCHANGED tables
  /\ Heap(heap)

EnterAdmin(w, v) ==
  /\ At(w, "answer") /\ AskedLast(w) /\ Conversing(w).form = "admadd"
  /\ ClearSession(User(w))
  /\ IF User(w) \in Owners /\ v \notin Owners
     THEN Make(w, NoKey, v, "blank")
     ELSE Finish(w)
  /\ UNCHANGED tables
  /\ Heap(heap)

-----------------------------------------------------------------------------
(* Buttons.                                                                *)

\* sessions.start, which replaces the session there is.
Start(w, form, pc) ==
  LET i == CHOOSE j \in Sessions : j \notin Live(User(w))
  IN  /\ current' = [current EXCEPT ![User(w)] = i]
      /\ task' = IF pc = "idle" THEN [task EXCEPT ![w] = Idle]
                 ELSE [task EXCEPT ![w].pc = pc, ![w].session = i]
      /\ UNCHANGED tables
      /\ Heap([heap EXCEPT ![User(w)][i] = [Blank EXCEPT !.form = form]])

CustomerTap(w) ==
  /\ At(w, "route")
  /\ \/ What(w) \in CustomerForms /\ Start(w, What(w), "idle")
     \/ What(w) \in {"order", "photo"} /\ Pass(w, "commit")

\* onCallback: the buttons are hidden from customers, and refused to them.
AdminTap(w) ==
  /\ At(w, "route") /\ What(w) \in AdminTaps
  /\ IF User(w) \in Admins THEN Pass(w, "admin") ELSE Return(w)

AdminHome(w) ==
  /\ At(w, "admin") /\ What(w) = "a"
  /\ ClearAndReturn(w)

Act(w) ==
  /\ At(w, "admin") /\ What(w) = "act"
  /\ Pass(w, "commit")

\* The order, the user or the setting is written to the session when it is in
\* the map already; of the three only the setting is kept here.
StartForm(w) ==
  /\ At(w, "admin") /\ What(w) \in AdminForms \ OwnerTaps
  /\ Start(w, What(w), IF What(w) = "se" THEN "choose" ELSE "idle")

Choose(w, k) ==
  LET i == task[w].session
  IN  /\ At(w, "choose")
      /\ Finish(w)
      /\ UNCHANGED <<tables, current>>
      /\ Heap([heap EXCEPT ![User(w)][i].key = k])

\* Mutant: the buttons are only hidden from the admins who are not owners.
OwnerTapUnchecked(w, v) ==
  /\ At(w, "admin") /\ What(w) \in OwnerTaps
  /\ IF What(w) = "admadd"
     THEN Start(w, "admadd", "idle")
     ELSE /\ task' = [task EXCEPT ![w].pc = "commit", ![w].target = v]
          /\ UNCHANGED <<tables, heap, current>>

OwnerTap(w, v) ==
  /\ At(w, "admin") /\ What(w) \in OwnerTaps
  /\ IF User(w) \notin Owners THEN Return(w)
     ELSE IF What(w) = "admadd" THEN Start(w, "admadd", "idle")
     ELSE /\ task' = [task EXCEPT ![w].pc = "commit", ![w].target = v]
          /\ UNCHANGED <<tables, heap, current>>

\* "ub": the user as read, then whether they are an admin, then the update.
ToggleBlock(w, v) ==
  /\ At(w, "admin") /\ What(w) = "ub"
  /\ task' = [task EXCEPT ![w].pc = "exempt", ![w].target = v,
                          ![w].value = IF v \in blocked THEN "unblock" ELSE "block"]
  /\ UNCHANGED <<tables, heap, current>>

Exempt(w) ==
  /\ At(w, "exempt")
  /\ IF task[w].target \in Admins THEN Return(w) ELSE Pass(w, "commit")

\* "bcgo": a session that waits for it, then its text, then the map.
Confirm(w) ==
  LET i == current[User(w)]
  IN  /\ At(w, "admin") /\ What(w) = "bcgo"
      /\ IF i # 0 /\ Confirming(heap[User(w)][i])
         THEN /\ task' = [task EXCEPT ![w].pc = "send", ![w].session = i]
              /\ UNCHANGED <<tables, heap, current>>
         ELSE Return(w)

Send(w) ==
  /\ At(w, "send")
  /\ ClearSession(User(w))
  /\ task' = [task EXCEPT ![w].pc = "commit", ![w].session = 0,
                          ![w].filled = Conversing(w).filled]
  /\ UNCHANGED tables
  /\ Heap(heap)

-----------------------------------------------------------------------------
(* What is done in the end.                                                *)

\* AddAdmin, RemoveAdmin, SetBlocked; anything else leaves these tables alone.
\* A customer's session ends with a success of the shop.
Commit(w) ==
  LET t == task[w]
  IN  /\ At(w, "commit")
      /\ admins' = CASE t.what = "admadd" -> admins \cup {t.target}
                     [] t.what = "admdel" -> admins \ {t.target}
                     [] OTHER -> admins
      /\ blocked' = IF t.what # "ub" THEN blocked
                    ELSE IF t.value = "block" THEN blocked \cup {t.target}
                    ELSE blocked \ {t.target}
      /\ \/ t.what \in CustomerForms \cup {"photo"} /\ ClearSession(t.user)
         \/ t.what \notin CustomerForms \cup {"photo"} /\ UNCHANGED current
      /\ Finish(w)
      /\ Heap(heap)

\* The shop or the store refuses, or fails; the session stays as it is.
CommitFails(w) ==
  /\ At(w, "commit")
  /\ Return(w)

\* sessionTTL: a session not used for 30 minutes is as good as none.
Lapse(u) ==
  /\ current[u] # 0
  /\ ClearSession(u)
  /\ UNCHANGED <<tables, task>>
  /\ Heap(heap)

\* The process ends, by a crash, an update or the fatal error of two handlers
\* writing to one session's fields, and starts with no session.
Restart ==
  /\ current' = [u \in People |-> 0]
  /\ task' = [w \in Workers |-> Idle]
  /\ UNCHANGED tables
  /\ Heap(heap)

-----------------------------------------------------------------------------
Input(w) ==
  \/ ReadStep(w) \/ NothingToMake(w) \/ AskAgain(w) \/ Keep(w) \/ Advance(w)
  \/ LastStep(w) \/ CustomerInput(w)
  \/ \E v \in Values : EnterSetting(w, v)
  \/ \E v \in People : EnterAdmin(w, v)

Button(w) ==
  \/ CustomerTap(w) \/ AdminTap(w) \/ AdminHome(w) \/ Act(w) \/ StartForm(w)
  \/ \E k \in Keys : Choose(w, k)
  \/ \E v \in People : OwnerTap(w, v) \/ ToggleBlock(w, v)
  \/ Exempt(w) \/ Confirm(w) \/ Send(w)

Step(w) ==
  \/ LetIn(w) \/ Clear(w) \/ SlashAdmin(w) \/ OnText(w) \/ OnInput(w)
  \/ Input(w) \/ Button(w) \/ Commit(w) \/ CommitFails(w)

Since(set, users) ==
  {w \in Workers : task'[w].pc # "idle"
                   /\ ((w \in set /\ ~At(w, "idle")) \/ task'[w].user \in users)}

\* The histories follow every step.
Track ==
  /\ entitled' = Since(entitled, Admins')
  /\ welcome' = Since(welcome, Admins' \cup (People \ blocked'))

Next ==
  /\ \/ \E w \in Workers :
          \/ \E u \in People : \E what \in Updates[u] : Arrive(w, u, what)
          \/ Step(w)
     \/ \E u \in People : Lapse(u)
     \/ Restart
  /\ Track

Spec == Init /\ [][Next]_conversationVars
-----------------------------------------------------------------------------
(* Properties.                                                             *)

(* The tables and the sessions are well formed, and no owner is in the     *)
(* admins table, where another owner could take them out.                  *)
ConversationTypeOK ==
  /\ admins \subseteq People \ Owners /\ blocked \subseteq People
  /\ heap \in [People -> [Sessions -> Session]]
  /\ current \in [People -> {0} \cup Sessions]
  /\ task \in [Workers -> {Idle} \cup Busy]

(* "removing an admin takes effect on their very next tap" (bot.go:55):    *)
(* nothing is done for an admin who was removed before the tap or the      *)
(* message that asks for it came in, whatever sessions and menus they have *)
(* left over from before.                                                  *)
RemovedAdminsAreOut ==
  \A w \in Workers : At(w, "commit") /\ What(w) \in AdminEffects => w \in entitled

(* "an admin added from the bot must never be able to add more admins or   *)
(* remove anyone" (admin.go:143): the table changes by an owner's hand.    *)
OwnersDecide ==
  [][admins' # admins =>
       \E w \in Workers : At(w, "commit") /\ User(w) \in Owners /\ task'[w] = Idle]_conversationVars

(* "reports false for a blocked customer so every handler can stop there"  *)
(* (bot.go:108): nothing is done for a customer who was blocked before the *)
(* update came in, not even by a conversation begun earlier.               *)
BlockedAreOut == \A w \in Workers : At(w, "commit") => w \in welcome

(* A plan, a code, a broadcast is made from all the answers its            *)
(* conversation asked for, also when several handlers work on the session, *)
(* when it is replaced or cleared under them, or when answers were refused.*)
NothingIsMadeOfHalfAForm ==
  \A w \in Workers :
    At(w, "commit") =>
      /\ What(w) \in DOMAIN Form => task[w].filled = DOMAIN Form[What(w)]
      /\ What(w) = "bcgo" => task[w].filled = DOMAIN Form["bc"]
=============================================================================

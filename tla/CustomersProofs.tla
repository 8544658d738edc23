-------------------------- MODULE CustomersProofs --------------------------
(***************************************************************************)
(* Proofs about Customers: for any people, codes, handlers, faults and     *)
(* bounds, from CustomersAssumption alone.                                 *)
(***************************************************************************)
EXTENDS Customers, FiniteSetTheorems, SequenceTheorems, WellFoundedInduction, TLAPS

-----------------------------------------------------------------------------
(* The users table.                                                        *)

PeopleOK ==
  /\ joined \in Seq(People)
  /\ IsFiniteSet(Known) /\ Cardinality(Known) = Len(joined)
  /\ code \in [People -> Codes \cup {NoCode}]
  /\ \A u, v \in Known : code[u] # NoCode /\ (code[u] = code[v] => u = v)
  /\ referrer \in [People -> People \cup {Nobody}]
  /\ InvitersCameFirst

\* A customer joins: one row, behind all the others.
LEMMA JoinFacts ==
  ASSUME NEW s \in Seq(People), NEW u \in People, NEW t, t = Append(s, u)
  PROVE  /\ t \in Seq(People) /\ Len(s) \in Nat /\ Len(t) = Len(s) + 1
         /\ DOMAIN s = 1..Len(s) /\ DOMAIN t = 1..(Len(s) + 1)
         /\ t[Len(s) + 1] = u
         /\ \A i \in 1..Len(s) : t[i] = s[i]
         /\ {t[i] : i \in DOMAIN t} = {s[i] : i \in DOMAIN s} \cup {u}
<1>1. /\ t \in Seq(People) /\ Len(t) = Len(s) + 1 /\ Len(s) \in Nat
      /\ \A i \in 1..Len(s) : t[i] = s[i]
      /\ t[Len(s) + 1] = u
  BY AppendProperties, LenProperties
<1>2. DOMAIN s = 1..Len(s) /\ DOMAIN t = 1..(Len(s) + 1)
  BY <1>1, LenProperties
<1>3. \A i : i \in 1..(Len(s) + 1) <=> i \in 1..Len(s) \/ i = Len(s) + 1
  BY <1>1
<1>4. QED
  BY <1>1, <1>2, <1>3

\* A link names somebody who has joined, or nobody.
LEMMA OwnerKnown == ASSUME NEW text PROVE Owner(text) \in Known \cup {Nobody}
BY DEF Owner

\* The table stays in order when a customer joins through a link: a new row's
\* inviter is in an earlier row, and its code is nobody else's.
LEMMA InsertKeeps == ASSUME PeopleOK, NEW u \in People, NEW text, Insert(u, text) PROVE PeopleOK'
<1> DEFINE n == Len(joined)
<1>1. /\ joined' \in Seq(People) /\ n \in Nat /\ Len(joined') = n + 1
      /\ DOMAIN joined = 1..n /\ DOMAIN joined' = 1..(n + 1)
      /\ joined'[n + 1] = u
      /\ \A i \in 1..n : joined'[i] = joined[i]
      /\ Known' = Known \cup {u}
  <2>1. joined' = Append(joined, u) /\ joined \in Seq(People)
    BY DEF Insert, PeopleOK
  <2>2. PICK t : t = joined'
    OBVIOUS
  <2>3. PICK s : s = joined
    OBVIOUS
  <2>4. /\ t \in Seq(People) /\ Len(s) \in Nat /\ Len(t) = Len(s) + 1
        /\ DOMAIN s = 1..Len(s) /\ DOMAIN t = 1..(Len(s) + 1)
        /\ t[Len(s) + 1] = u
        /\ \A i \in 1..Len(s) : t[i] = s[i]
        /\ {t[i] : i \in DOMAIN t} = {s[i] : i \in DOMAIN s} \cup {u}
    BY <2>1, <2>2, <2>3, JoinFacts
  <2>5. QED
    BY <2>2, <2>3, <2>4 DEF Known
<1>2. u \notin Known
  BY DEF Insert
<1>3. IsFiniteSet(Known') /\ Cardinality(Known') = Len(joined')
  <2>1. PICK K : K = Known
    OBVIOUS
  <2>2. IsFiniteSet(K) /\ Cardinality(K) = n /\ u \notin K
    BY <1>2, <2>1 DEF PeopleOK
  <2>3. IsFiniteSet(K \cup {u}) /\ Cardinality(K \cup {u}) = n + 1
    BY <2>2, FS_AddElement
  <2>4. QED
    BY <1>1, <2>1, <2>3
<1>4. PICK c \in Codes : (\A v \in Known : code[v] # c) /\ code' = [code EXCEPT ![u] = c]
  BY DEF Insert
<1>5. code' \in [People -> Codes \cup {NoCode}]
  BY <1>4 DEF PeopleOK
<1>6. Known \subseteq People
  <2>1. joined \in Seq(People) /\ DOMAIN joined = 1..Len(joined)
    BY <1>1 DEF PeopleOK
  <2>2. \A i \in DOMAIN joined : joined[i] \in People
    BY <2>1, ElementOfSeq
  <2>3. QED
    BY <2>2 DEF Known
<1>7. ASSUME NEW x \in Known', NEW y \in Known'
      PROVE  code'[x] # NoCode /\ (code'[x] = code'[y] => x = y)
  BY <1>1, <1>2, <1>4, <1>6, <1>7, CustomersAssumption DEF PeopleOK
<1>8. referrer' = [referrer EXCEPT ![u] = Owner(text)] /\ Owner(text) \in Known \cup {Nobody}
  BY OwnerKnown DEF Insert
<1>9. referrer' \in [People -> People \cup {Nobody}]
  BY <1>6, <1>8 DEF PeopleOK
<1>10. ASSUME NEW i \in DOMAIN joined'
       PROVE  referrer'[joined'[i]] \in {Nobody} \cup {joined'[j] : j \in 1..(i - 1)}
  <2>1. CASE i = n + 1
    <3>1. referrer'[joined'[i]] = Owner(text)
      BY <1>1, <1>8, <2>1 DEF PeopleOK
    <3>2. Known = {joined'[j] : j \in 1..(i - 1)}
      BY <1>1, <2>1 DEF Known
    <3>3. QED
      BY <1>8, <3>1, <3>2
  <2>2. CASE i # n + 1
    <3>1. i \in 1..n /\ joined'[i] = joined[i] /\ joined[i] \in Known
      BY <1>1, <1>10, <2>2 DEF Known
    <3>2. referrer'[joined[i]] = referrer[joined[i]]
      BY <1>2, <1>6, <1>8, <3>1 DEF PeopleOK
    <3>3. referrer[joined[i]] \in {Nobody} \cup {joined[j] : j \in 1..(i - 1)}
      BY <1>1, <3>1 DEF PeopleOK, InvitersCameFirst
    <3>4. \A j \in 1..(i - 1) : joined'[j] = joined[j]
      BY <1>1, <3>1
    <3>5. QED
      BY <3>1, <3>2, <3>3, <3>4
  <2>3. QED
    BY <2>1, <2>2
<1>11. QED
  BY <1>1, <1>3, <1>5, <1>7, <1>9, <1>10 DEF PeopleOK, InvitersCameFirst

\* Nobody has joined yet.
LEMMA InitPeople == Init => PeopleOK
<1> SUFFICES ASSUME Init PROVE PeopleOK
  OBVIOUS
<1>1. joined = << >> /\ Known = {}
  BY DEF Init, Known
<1>2. IsFiniteSet({}) /\ Cardinality({}) = 0 /\ Len(<< >>) = 0 /\ << >> \in Seq(People)
  BY FS_EmptySet, EmptySeq
<1>3. QED
  BY <1>1, <1>2 DEF Init, PeopleOK, InvitersCameFirst

\* Only UpsertUser writes the users table, and it keeps it in order.
LEMMA NextPeople == PeopleOK /\ [Next]_customersVars => PeopleOK'
<1> SUFFICES ASSUME PeopleOK, [Next]_customersVars PROVE PeopleOK'
  OBVIOUS
<1>1. CASE UNCHANGED people
  BY <1>1 DEF PeopleOK, InvitersCameFirst, Known, people
<1>2. ASSUME NEW u \in People, NEW text \in Codes \cup {NoCode}, Upsert(u, text) PROVE PeopleOK'
  BY <1>1, <1>2, InsertKeeps DEF Upsert
<1>3. QED
  BY <1>1, <1>2 DEF Next, Step, Tap, Claim, MakeAccount, AnswerLost, PanelRefuses,
                    ReleaseTrial, RecordService, StoreError, Crash, customersVars

-----------------------------------------------------------------------------
(* The trial.                                                              *)

TrialTypes ==
  /\ trialUsed \subseteq Known
  /\ services \subseteq Known \X (Nat \ {0})
  /\ accounts \in [People -> Nat]
  /\ task \in [Workers -> {Idle} \cup Busy]
  /\ \A w \in Workers : task[w].pc # "idle" =>
       task[w].user \in Known /\ (task[w].pc = "record" => task[w].account # 0)

\* Handler w has claimed the trial of u and is not done with it.
Holds(w, u) == task[w].pc \in {"make", "record", "release"} /\ task[w].user = u

\* The flag is held by one handler at most, and while no answer was lost the
\* account, the service and the flag tell how far it has come.
TrialOf(u) ==
  /\ \A v, w \in Workers : Holds(v, u) /\ Holds(w, u) => v = w
  /\ \A w \in Workers : Holds(w, u) => u \in trialUsed
  /\ u \notin lost =>
       /\ accounts[u] <= 1
       /\ u \notin trialUsed => accounts[u] = 0
       /\ \A w \in Workers : Holds(w, u) =>
            /\ task[w].pc = "record" => accounts[u] = 1 /\ task[w].account = 1
            /\ task[w].pc # "record" => accounts[u] = 0
       /\ \A n : <<u, n>> \in services => n = 1 /\ accounts[u] = 1
       /\ u \in trialUsed \ hurt /\ (\A w \in Workers : ~Holds(w, u)) =>
            accounts[u] = 1 /\ <<u, 1>> \in services

TrialOK == TrialTypes /\ \A u \in People : TrialOf(u)

\* The customers who have joined are people, and stay.
LEMMA KnownFacts ==
  ASSUME PeopleOK PROVE Known \subseteq People
<1>1. joined \in Seq(People) /\ DOMAIN joined = 1..Len(joined)
  BY LenProperties DEF PeopleOK
<1>2. \A i \in DOMAIN joined : joined[i] \in People
  BY <1>1, ElementOfSeq
<1>3. QED
  BY <1>2 DEF Known

\* What a step does not touch of customer u stays right.
LEMMA Apart ==
  ASSUME NEW u, TrialOf(u), NEW v \in Workers,
         \A w \in Workers \ {v} : task'[w] = task[w], ~Holds(v, u), ~Holds(v, u)',
         accounts'[u] = accounts[u], u \in trialUsed' <=> u \in trialUsed,
         u \in lost' <=> u \in lost, u \in hurt => u \in hurt',
         \A n : <<u, n>> \in services' <=> <<u, n>> \in services
  PROVE  TrialOf(u)'
<1>1. \A w \in Workers : Holds(w, u)' <=> Holds(w, u)
  BY DEF Holds
<1>2. \A w \in Workers : Holds(w, u) => task'[w] = task[w]
  OBVIOUS
<1>3. QED
  BY <1>1, <1>2 DEF TrialOf

\* The new row of the one handler that moves.
LEMMA RowFacts ==
  ASSUME TrialTypes, NEW v \in Workers, NEW r, r \in {Idle} \cup Busy,
         task' = [task EXCEPT ![v] = r], joined' = joined,
         r.pc # "idle" => r.user \in Known /\ (r.pc = "record" => r.account # 0)
  PROVE  /\ task' \in [Workers -> {Idle} \cup Busy] /\ task'[v] = r
         /\ \A w \in Workers \ {v} : task'[w] = task[w]
         /\ \A w \in Workers : task'[w].pc # "idle" =>
              task'[w].user \in Known' /\ (task'[w].pc = "record" => task'[w].account # 0)
<1>1. Known' = Known
  BY DEF Known
<1>2. QED
  BY <1>1 DEF TrialTypes

\* A handler at work, and its row moved on.
LEMMA BusyRow ==
  ASSUME TrialTypes, PeopleOK, NEW v \in Workers, task[v].pc # "idle"
  PROVE  /\ task[v] \in Busy /\ task[v].user \in Known /\ task[v].user \in People
         /\ \A pc \in {"claim", "make", "record", "release"} :
              \E r \in Busy : /\ r = [task[v] EXCEPT !.pc = pc]
                              /\ r.pc = pc /\ r.user = task[v].user /\ r.account = task[v].account
<1>1. task[v] \in Busy /\ task[v].user \in Known
  BY DEF TrialTypes, Idle
<1>2. ASSUME NEW pc \in {"claim", "make", "record", "release"}
      PROVE  \E r \in Busy : /\ r = [task[v] EXCEPT !.pc = pc]
                             /\ r.pc = pc /\ r.user = task[v].user /\ r.account = task[v].account
  <2>1. PICK r : r = [task[v] EXCEPT !.pc = pc]
    OBVIOUS
  <2>2. r \in Busy /\ r.pc = pc /\ r.user = task[v].user /\ r.account = task[v].account
    BY <1>1, <2>1 DEF Busy
  <2>3. QED
    BY <2>1, <2>2
<1>3. task[v].user \in People
  BY <1>1, KnownFacts
<1>4. QED
  BY <1>1, <1>2, <1>3

\* No trial is claimed yet.
LEMMA InitTrial == Init => TrialOK
BY DEF Init, TrialOK, TrialTypes, TrialOf, Holds, Idle

\* A tap only starts a handler.
LEMMA TapKeeps ==
  ASSUME PeopleOK, TrialOK, NEW v \in Workers, NEW x \in People, Tap(v, x) PROVE TrialOK'
<1>1. PICK r : r = [pc |-> "claim", user |-> x, account |-> 0]
  OBVIOUS
<1>2. r \in Busy /\ r.pc = "claim" /\ r.user = x /\ x \in Known
  BY <1>1 DEF Tap, Busy
<1>3. task' = [task EXCEPT ![v] = r] /\ joined' = joined /\ task[v].pc = "idle"
  BY <1>1 DEF Tap, At, people
<1>4. /\ task' \in [Workers -> {Idle} \cup Busy] /\ task'[v] = r
      /\ \A w \in Workers \ {v} : task'[w] = task[w]
      /\ \A w \in Workers : task'[w].pc # "idle" =>
           task'[w].user \in Known' /\ (task'[w].pc = "record" => task'[w].account # 0)
  BY <1>2, <1>3, RowFacts DEF TrialOK
<1>5. TrialTypes'
  BY <1>4 DEF Tap, TrialOK, TrialTypes, Known, people, trial
<1>6. ASSUME NEW u \in People PROVE TrialOf(u)'
  BY <1>2, <1>3, <1>4, Apart DEF TrialOK, Tap, Holds, people, trial, history
<1>7. QED
  BY <1>5, <1>6 DEF TrialOK

\* A step of a handler at work: the tables change for its customer alone.
LEMMA WorkKeeps ==
  ASSUME PeopleOK, TrialOK, NEW v \in Workers, task[v].pc # "idle",
         NEW x, x = task[v].user, NEW r, r \in {Idle} \cup Busy,
         task' = [task EXCEPT ![v] = r], joined' = joined,
         r.pc # "idle" => r.user = x /\ (r.pc = "record" => r.account # 0),
         \A u \in People \ {x} :
           /\ accounts'[u] = accounts[u] /\ (u \in trialUsed' <=> u \in trialUsed)
           /\ (u \in lost' <=> u \in lost) /\ (u \in hurt => u \in hurt')
           /\ \A n : <<u, n>> \in services' <=> <<u, n>> \in services,
         trialUsed' \subseteq trialUsed \cup {x}, accounts' \in [People -> Nat],
         services' \subseteq services \cup ({x} \X (Nat \ {0})),
         task'[v] = r /\ (\A w \in Workers \ {v} : task'[w] = task[w]) => TrialOf(x)'
  PROVE  TrialOK'
<1>1. task[v] \in Busy /\ x \in Known /\ x \in People
  BY BusyRow DEF TrialOK
<1>2. /\ task' \in [Workers -> {Idle} \cup Busy] /\ task'[v] = r
      /\ \A w \in Workers \ {v} : task'[w] = task[w]
      /\ \A w \in Workers : task'[w].pc # "idle" =>
           task'[w].user \in Known' /\ (task'[w].pc = "record" => task'[w].account # 0)
  BY <1>1, RowFacts DEF TrialOK
<1>3. Known' = Known
  BY DEF Known
<1>4. TrialTypes'
  BY <1>1, <1>2, <1>3 DEF TrialOK, TrialTypes
<1>5. ASSUME NEW u \in People PROVE TrialOf(u)'
  <2>1. CASE u = x
    BY <1>2, <2>1
  <2>2. CASE u # x
    <3>1. ~Holds(v, u) /\ ~Holds(v, u)'
      BY <1>2, <2>2 DEF Holds, Idle
    <3>2. QED
      BY <1>2, <2>2, <3>1, Apart DEF TrialOK
  <2>3. QED
    BY <2>1, <2>2
<1>6. QED
  BY <1>4, <1>5 DEF TrialOK

\* The claim takes the flag, or finds it taken.
LEMMA ClaimKeeps == ASSUME PeopleOK, TrialOK, NEW v \in Workers, Claim(v) PROVE TrialOK'
<1>1. PICK x : x = task[v].user
  OBVIOUS
<1>2. task[v].pc = "claim" /\ task[v] \in Busy /\ x \in Known /\ x \in People /\ TrialOf(x)
  BY <1>1, BusyRow DEF Claim, At, TrialOK
<1>3. PICK s \in Busy : s = [task[v] EXCEPT !.pc = "make"] /\ s.pc = "make" /\ s.user = x
  BY <1>1, <1>2, BusyRow DEF TrialOK
<1>4. PICK r : r = IF x \in trialUsed THEN Idle ELSE s
  OBVIOUS
<1>5. r \in {Idle} \cup Busy /\ (r.pc # "idle" => r.user = x /\ r.pc = "make" /\ x \notin trialUsed)
  BY <1>3, <1>4 DEF Idle
<1>6. /\ task' = [task EXCEPT ![v] = r] /\ trialUsed' = trialUsed \cup {x}
      /\ joined' = joined /\ services' = services /\ accounts' = accounts
      /\ lost' = lost /\ hurt' = hurt
  BY <1>1, <1>3, <1>4 DEF Claim, Finish, Goto, people, history
<1>7. ASSUME task'[v] = r, \A w \in Workers \ {v} : task'[w] = task[w] PROVE TrialOf(x)'
  <2>1. CASE x \in trialUsed
    <3>1. r.pc = "idle"
      BY <1>4, <2>1 DEF Idle
    <3>2. \A w \in Workers : Holds(w, x)' <=> Holds(w, x)
      BY <1>2, <1>7, <3>1 DEF Holds
    <3>3. \A w \in Workers : Holds(w, x) => task'[w] = task[w]
      BY <1>2, <1>7 DEF Holds
    <3>4. QED
      BY <1>2, <1>6, <2>1, <3>2, <3>3 DEF TrialOf
  <2>2. CASE x \notin trialUsed
    <3>1. \A w \in Workers : Holds(w, x)' <=> w = v
      BY <1>2, <1>3, <1>4, <1>7, <2>2 DEF Holds, TrialOf
    <3>2. task'[v].pc = "make"
      BY <1>3, <1>4, <1>7, <2>2
    <3>3. QED
      BY <1>2, <1>6, <2>2, <3>1, <3>2 DEF TrialOf
  <2>3. QED
    BY <2>1, <2>2
<1>8. QED
  BY <1>1, <1>2, <1>5, <1>6, <1>7, WorkKeeps DEF TrialOK, TrialTypes

\* The panel makes the account; its answer arrives or is lost.
LEMMA MakeKeeps ==
  ASSUME PeopleOK, TrialOK, NEW v \in Workers, MakeAccount(v) \/ AnswerLost(v) PROVE TrialOK'
<1>1. PICK x : x = task[v].user
  OBVIOUS
<1>2. task[v].pc = "make" /\ task[v] \in Busy /\ x \in Known /\ x \in People /\ TrialOf(x)
  BY <1>1, BusyRow DEF MakeAccount, AnswerLost, At, TrialOK
<1>3. Holds(v, x)
  BY <1>1, <1>2 DEF Holds
<1>4. accounts' = [accounts EXCEPT ![x] = @ + 1] /\ accounts[x] \in Nat
  BY <1>1, <1>2 DEF MakeAccount, AnswerLost, TrialOK, TrialTypes
<1>5. accounts' \in [People -> Nat] /\ accounts'[x] = accounts[x] + 1
  BY <1>2, <1>4 DEF TrialOK, TrialTypes
<1>6. joined' = joined /\ services' = services /\ trialUsed' = trialUsed /\ hurt' = hurt
  BY DEF MakeAccount, AnswerLost, people, history
<1>7. CASE MakeAccount(v)
  <2>1. PICK s \in Busy : s = [task[v] EXCEPT !.pc = "record"] /\ s.pc = "record" /\ s.user = x
    BY <1>1, <1>2, BusyRow DEF TrialOK
  <2>2. PICK r : r = [s EXCEPT !.account = accounts'[x]]
    OBVIOUS
  <2>3. r \in Busy /\ r.pc = "record" /\ r.user = x /\ r.account = accounts[x] + 1
    BY <1>2, <1>4, <1>5, <2>1, <2>2 DEF Busy
  <2>4. PICK n : n = accounts'[x]
    OBVIOUS
  <2>5. task' = [task EXCEPT ![v].pc = "record", ![v].account = n]
    BY <1>1, <1>7, <2>4 DEF MakeAccount
  <2>6. s = [task[v] EXCEPT !.pc = "record"] /\ r = [s EXCEPT !.account = n]
    BY <2>1, <2>2, <2>4
  <2>7. task' = [task EXCEPT ![v] = r]
    BY <2>5, <2>6
  <2>8. lost' = lost
    BY <1>7 DEF MakeAccount, history
  <2>9. ASSUME task'[v] = r, \A w \in Workers \ {v} : task'[w] = task[w] PROVE TrialOf(x)'
    <3>1. \A w \in Workers : (Holds(w, x)' <=> Holds(w, x)) /\ (Holds(w, x) => w = v)
      BY <1>2, <1>3, <2>3, <2>9 DEF Holds, TrialOf
    <3>2. QED
      BY <1>2, <1>3, <1>4, <1>5, <1>6, <2>3, <2>9, <2>8, <3>1 DEF TrialOf
  <2>10. r.account # 0
    BY <1>4, <2>3
  <2>11. \A u \in People \ {x} : accounts'[u] = accounts[u]
    BY <1>4 DEF TrialOK, TrialTypes
  <2>12. QED
    BY <1>1, <1>2, <1>5, <1>6, <2>3, <2>7, <2>9, <2>8, <2>10, <2>11, WorkKeeps
<1>8. CASE AnswerLost(v)
  <2>1. PICK r \in Busy : r = [task[v] EXCEPT !.pc = "release"] /\ r.pc = "release" /\ r.user = x
    BY <1>1, <1>2, BusyRow DEF TrialOK
  <2>2. task' = [task EXCEPT ![v] = r] /\ lost' = lost \cup {x}
    BY <1>1, <1>8, <2>1 DEF AnswerLost, Goto
  <2>3. ASSUME task'[v] = r, \A w \in Workers \ {v} : task'[w] = task[w] PROVE TrialOf(x)'
    <3>1. \A w \in Workers : (Holds(w, x)' <=> Holds(w, x)) /\ (Holds(w, x) => w = v)
      BY <1>2, <1>3, <2>1, <2>3 DEF Holds, TrialOf
    <3>2. QED
      BY <1>2, <1>3, <1>6, <2>2, <3>1 DEF TrialOf
  <2>4. QED
    BY <1>1, <1>2, <1>4, <1>5, <1>6, <2>1, <2>2, <2>3, WorkKeeps DEF TrialOK, TrialTypes
<1>9. QED
  BY <1>7, <1>8

\* The service is recorded and the claim is done.
LEMMA RecordKeeps == ASSUME PeopleOK, TrialOK, NEW v \in Workers, RecordService(v) PROVE TrialOK'
<1>1. PICK x : x = task[v].user
  OBVIOUS
<1>2. task[v].pc = "record" /\ task[v] \in Busy /\ x \in Known /\ x \in People /\ TrialOf(x)
  BY <1>1, BusyRow DEF RecordService, At, TrialOK
<1>3. Holds(v, x) /\ task[v].account \in Nat \ {0}
  BY <1>1, <1>2 DEF Holds, TrialOK, TrialTypes, Busy
<1>4. PICK n : n = task[v].account
  OBVIOUS
<1>5. /\ task' = [task EXCEPT ![v] = Idle] /\ services' = services \cup {<<x, n>>}
      /\ joined' = joined /\ accounts' = accounts /\ trialUsed' = trialUsed
      /\ lost' = lost /\ hurt' = hurt
  BY <1>1, <1>4 DEF RecordService, Finish, people, history
<1>6. ASSUME task'[v] = Idle, \A w \in Workers \ {v} : task'[w] = task[w] PROVE TrialOf(x)'
  <2>1. \A w \in Workers : ~Holds(w, x)'
    BY <1>2, <1>3, <1>6 DEF Holds, TrialOf, Idle
  <2>2. x \notin lost => n = 1 /\ accounts[x] = 1
    BY <1>1, <1>2, <1>3, <1>4 DEF TrialOf
  <2>3. \A m : <<x, m>> \in services' => <<x, m>> \in services \/ m = n
    BY <1>5
  <2>4. QED
    BY <1>2, <1>3, <1>5, <2>1, <2>2, <2>3 DEF TrialOf
<1>7. Idle.pc = "idle" /\ Idle \in {Idle} \cup Busy
  BY DEF Idle
<1>8. services' \subseteq services \cup ({x} \X (Nat \ {0}))
  BY <1>3, <1>4, <1>5
<1>9. \A u \in People \ {x} : \A m : <<u, m>> \in services' <=> <<u, m>> \in services
  BY <1>5
<1>10. accounts' \in [People -> Nat]
  BY <1>5 DEF TrialOK, TrialTypes
<1>11. QED
  BY <1>1, <1>2, <1>5, <1>6, <1>7, <1>8, <1>9, <1>10, WorkKeeps

\* The panel refuses, and the flag is given back, or the store fails.
LEMMA EndingsKeep ==
  ASSUME PeopleOK, TrialOK, NEW v \in Workers,
         PanelRefuses(v) \/ ReleaseTrial(v) \/ StoreError(v)
  PROVE  TrialOK'
<1>1. PICK x : x = task[v].user
  OBVIOUS
<1>2. task[v].pc # "idle" /\ task[v] \in Busy /\ x \in Known /\ x \in People /\ TrialOf(x)
  <2>1. task[v].pc # "idle"
    BY DEF PanelRefuses, ReleaseTrial, StoreError, At
  <2>2. QED
    BY <1>1, <2>1, BusyRow DEF TrialOK
<1>3. /\ joined' = joined /\ accounts' = accounts /\ services' = services /\ lost' = lost
      /\ accounts' \in [People -> Nat]
  BY DEF PanelRefuses, ReleaseTrial, StoreError, people, trial, history, TrialOK, TrialTypes
<1>4. Idle.pc = "idle" /\ Idle \in {Idle} \cup Busy
  BY DEF Idle
<1>5. CASE PanelRefuses(v)
  <2>1. Holds(v, x) /\ task[v].pc = "make"
    BY <1>1, <1>5 DEF Holds, PanelRefuses, At
  <2>2. PICK r \in Busy : r = [task[v] EXCEPT !.pc = "release"] /\ r.pc = "release" /\ r.user = x
    BY <1>1, <1>2, BusyRow DEF TrialOK
  <2>3. task' = [task EXCEPT ![v] = r] /\ trialUsed' = trialUsed /\ hurt' = hurt
    BY <1>5, <2>2 DEF PanelRefuses, Goto, trial, history
  <2>4. ASSUME task'[v] = r, \A w \in Workers \ {v} : task'[w] = task[w] PROVE TrialOf(x)'
    <3>1. \A w \in Workers : (Holds(w, x)' <=> Holds(w, x)) /\ (Holds(w, x) => w = v)
      BY <1>2, <2>1, <2>2, <2>4 DEF Holds, TrialOf
    <3>2. QED
      BY <1>2, <1>3, <2>1, <2>2, <2>3, <2>4, <3>1 DEF TrialOf
  <2>5. QED
    BY <1>1, <1>2, <1>3, <2>2, <2>3, <2>4, WorkKeeps
<1>6. CASE ReleaseTrial(v)
  <2>1. Holds(v, x) /\ task[v].pc = "release"
    BY <1>1, <1>6 DEF Holds, ReleaseTrial, At
  <2>2. task' = [task EXCEPT ![v] = Idle] /\ trialUsed' = trialUsed \ {x} /\ hurt' = hurt
    BY <1>1, <1>6 DEF ReleaseTrial, Finish, history
  <2>3. ASSUME task'[v] = Idle, \A w \in Workers \ {v} : task'[w] = task[w] PROVE TrialOf(x)'
    <3>1. \A w \in Workers : ~Holds(w, x)'
      BY <1>2, <2>1, <2>3 DEF Holds, TrialOf, Idle
    <3>2. QED
      BY <1>2, <1>3, <2>1, <2>2, <3>1 DEF TrialOf
  <2>4. QED
    BY <1>1, <1>2, <1>3, <1>4, <2>2, <2>3, WorkKeeps
<1>7. CASE StoreError(v)
  <2>1. /\ task' = [task EXCEPT ![v] = Idle] /\ trialUsed' = trialUsed
        /\ hurt' = IF task[v].pc = "claim" THEN hurt ELSE hurt \cup {x}
        /\ task[v].pc \in {"claim", "release", "record"}
    BY <1>1, <1>7 DEF StoreError, Finish, At, trial
  <2>2. ASSUME task'[v] = Idle, \A w \in Workers \ {v} : task'[w] = task[w] PROVE TrialOf(x)'
    <3>1. ~Holds(v, x)' /\ \A w \in Workers : Holds(w, x)' => Holds(w, x) /\ task'[w] = task[w]
      BY <2>2 DEF Holds, Idle
    <3>2. x \notin hurt' => \A w \in Workers : Holds(w, x)' <=> Holds(w, x)
      BY <2>1, <2>2, <3>1 DEF Holds
    <3>3. QED
      BY <1>2, <1>3, <2>1, <3>1, <3>2 DEF TrialOf
  <2>3. QED
    BY <1>1, <1>2, <1>3, <1>4, <2>1, <2>2, WorkKeeps
<1>8. QED
  BY <1>5, <1>6, <1>7

\* A crash ends every handler, and takes note of whose.
LEMMA CrashKeeps == ASSUME TrialOK, Crash PROVE TrialOK'
<1>1. /\ task' = [w \in Workers |-> Idle] /\ joined' = joined /\ services' = services
      /\ accounts' = accounts /\ trialUsed' = trialUsed /\ lost' = lost
      /\ hurt' = hurt \cup {task[w].user : w \in {v \in Workers : ~At(v, "idle")}}
  BY DEF Crash, people, trial
<1>2. TrialTypes'
  BY <1>1 DEF TrialOK, TrialTypes, Known, Idle
<1>3. ASSUME NEW u \in People PROVE TrialOf(u)'
  <2>1. \A w \in Workers : ~Holds(w, u)'
    BY <1>1 DEF Holds, Idle
  <2>2. u \notin hurt' => u \notin hurt /\ \A w \in Workers : ~Holds(w, u)
    BY <1>1 DEF Holds, At
  <2>3. TrialOf(u)
    BY DEF TrialOK
  <2>4. QED
    BY <1>1, <2>1, <2>2, <2>3 DEF TrialOf
<1>4. QED
  BY <1>2, <1>3 DEF TrialOK

\* Nothing happens to the trial.
LEMMA TrialStays ==
  ASSUME TrialOK, Known \subseteq Known', UNCHANGED <<trial, task, history>> PROVE TrialOK'
BY DEF TrialOK, TrialTypes, TrialOf, Holds, trial, history

\* Every step keeps the trial right.
LEMMA NextTrial == PeopleOK /\ TrialOK /\ [Next]_customersVars => TrialOK'
<1> SUFFICES ASSUME PeopleOK, TrialOK, [Next]_customersVars PROVE TrialOK'
  OBVIOUS
<1>1. ASSUME NEW u \in People, NEW text \in Codes \cup {NoCode}, Upsert(u, text) PROVE TrialOK'
  <2>1. joined' = joined \/ joined' = Append(joined, u)
    BY <1>1 DEF Upsert, Insert, people
  <2>2. Known \subseteq Known'
    <3>1. CASE joined' = joined
      BY <3>1 DEF Known
    <3>2. CASE joined' = Append(joined, u)
      <4>1. PICK s \in Seq(People) : s = joined
        BY DEF PeopleOK
      <4>2. PICK t : t = Append(s, u)
        OBVIOUS
      <4>3. {t[i] : i \in DOMAIN t} = {s[i] : i \in DOMAIN s} \cup {u}
        BY <4>2, JoinFacts
      <4>4. QED
        BY <3>2, <4>1, <4>2, <4>3 DEF Known
    <3>3. QED
      BY <2>1, <3>1, <3>2
  <2>3. QED
    BY <1>1, <2>2, TrialStays DEF Upsert
<1>2. ASSUME NEW v \in Workers, Step(v) PROVE TrialOK'
  BY <1>2, ClaimKeeps, MakeKeeps, RecordKeeps, EndingsKeep DEF Step
<1>3. ASSUME NEW v \in Workers, NEW u \in People, Tap(v, u) PROVE TrialOK'
  BY <1>3, TapKeeps
<1>4. CASE Crash
  BY <1>4, CrashKeeps
<1>5. CASE UNCHANGED customersVars
  BY <1>5, TrialStays DEF customersVars, people, Known
<1>6. QED
  BY <1>1, <1>2, <1>3, <1>4, <1>5 DEF Next

-----------------------------------------------------------------------------
\* The invariant.
LEMMA CustomersInvariance == Spec => [](PeopleOK /\ TrialOK)
BY InitPeople, InitTrial, NextPeople, NextTrial, PTL DEF Spec

\* The tables are well formed: nobody joins twice and no code is two
\* customers' (UpsertUser, uniqueReferralCode).
THEOREM CustomersTypeCorrect == Spec => []CustomersTypeOK
<1>1. PeopleOK /\ TrialOK => CustomersTypeOK
  BY DEF PeopleOK, TrialOK, TrialTypes, CustomersTypeOK
<1>2. QED
  BY <1>1, CustomersInvariance, PTL

\* Whoever invited a customer had joined before, for any number of customers:
\* invitations form no circle (UpsertUser).
THEOREM InvitationsFormNoCircle == Spec => []InvitersCameFirst
<1>1. PeopleOK => InvitersCameFirst
  BY DEF PeopleOK
<1>2. QED
  BY <1>1, CustomersInvariance, PTL

\* The trial is given once and, but for a lost answer, a store error or a
\* crash, is not used up without its account (ClaimTrial).
THEOREM TheTrialIsGivenOnce == Spec => []OneFreeAccount
<1>1. ASSUME PeopleOK, TrialOK PROVE OneFreeAccount
  <2>1. SUFFICES ASSUME NEW u \in People \ lost
                 PROVE  /\ accounts[u] <= 1
                        /\ u \in Known \ hurt /\ ~Claiming(u) =>
                             /\ u \in trialUsed <=> accounts[u] = 1
                             /\ u \in trialUsed <=> <<u, 1>> \in services
    BY DEF OneFreeAccount
  <2>2. TrialOf(u)
    BY <1>1 DEF TrialOK
  <2>3. ~Claiming(u) => \A w \in Workers : ~Holds(w, u)
    BY DEF Claiming, Holds
  <2>4. QED
    BY <2>1, <2>2, <2>3 DEF TrialOf
<1>2. QED
  BY <1>1, CustomersInvariance, PTL

-----------------------------------------------------------------------------
(* What the order of joining is for.                                       *)

\* A set of natural numbers that is not empty has a least one.
LEMMA LeastNumber ==
  ASSUME NEW T, T \subseteq Nat, T # {}
  PROVE  \E n \in T : \A m \in T : n <= m
<1>1. PICK n \in T : \A m \in T : ~ (<<m, n>> \in OpToRel(<, Nat))
  BY NatLessThanWellFounded, WFMin
<1>2. ASSUME NEW m \in T PROVE n <= m
  <2>1. /\ m \in Nat /\ n \in Nat
        /\ ~ (<<m, n>> \in {ss \in Nat \X Nat : ss[1] < ss[2]})
    BY <1>1 DEF OpToRel
  <2>2. ~ (m < n)
    BY <2>1
  <2>3. QED
    BY <2>1, <2>2
<1>3. QED
  BY <1>2

(* Every group of customers has one whom none of the group invited: there  *)
(* is no circle of any length, in which everybody would be paid for        *)
(* inviting the next (UpsertUser: the referrer is set by the insert only). *)
NoCircle == \A S \in SUBSET Known : S # {} => \E u \in S : referrer[u] \notin S

\* The one of a group who joined first was invited by nobody in it.
LEMMA FirstIsInvitedFromOutside == ASSUME PeopleOK PROVE NoCircle
<1> SUFFICES ASSUME NEW S \in SUBSET Known, S # {} PROVE \E u \in S : referrer[u] \notin S
  BY DEF NoCircle
<1>1. DOMAIN joined = 1..Len(joined) /\ Len(joined) \in Nat /\ joined \in Seq(People)
  BY LenProperties DEF PeopleOK
<1>2. PICK T : T = {i \in DOMAIN joined : joined[i] \in S}
  OBVIOUS
<1>3. T \subseteq Nat /\ T # {}
  BY <1>1, <1>2 DEF Known
<1>4. PICK i \in T : \A j \in T : i <= j
  BY <1>3, LeastNumber
<1>5. i \in DOMAIN joined /\ joined[i] \in S
  BY <1>2
<1>6. ASSUME referrer[joined[i]] \in S PROVE FALSE
  <2>1. Nobody \notin S
    BY <1>1, CustomersAssumption, ElementOfSeq DEF Known
  <2>2. PICK j \in 1..(i - 1) : referrer[joined[i]] = joined[j]
    BY <1>5, <1>6, <2>1 DEF PeopleOK, InvitersCameFirst
  <2>3. j \in DOMAIN joined /\ j < i
    BY <1>1, <1>5, <2>2
  <2>4. j \in T
    BY <1>2, <1>6, <2>2, <2>3
  <2>5. QED
    BY <1>3, <1>4, <2>3, <2>4
<1>7. QED
  BY <1>5, <1>6

(* Invitations form no circle, for any number of customers and links.      *)
THEOREM NobodyFarmsRewards == Spec => []NoCircle
<1>1. PeopleOK => NoCircle
  BY FirstIsInvitedFromOutside
<1>2. QED
  BY <1>1, CustomersInvariance, PTL

(* What a customer's first row says is final: no later message of theirs,  *)
(* and no link, changes who invited them or the code they pass on, and     *)
(* nobody leaves the table or changes places in it (UpsertUser).           *)
RowsStay ==
  [][/\ \A u \in Known : u \in Known' /\ referrer'[u] = referrer[u] /\ code'[u] = code[u]
     /\ \A i \in DOMAIN joined : i \in DOMAIN joined' /\ joined'[i] = joined[i]]_customersVars

(* "The referrer is only ever set on the very first insert" (users.go:46). *)
THEOREM FirstRowsAreFinal == Spec => RowsStay
<1> DEFINE Stay ==
     /\ \A u \in Known : u \in Known' /\ referrer'[u] = referrer[u] /\ code'[u] = code[u]
     /\ \A i \in DOMAIN joined : i \in DOMAIN joined' /\ joined'[i] = joined[i]
<1>1. ASSUME PeopleOK, Next PROVE Stay
  <2>1. CASE UNCHANGED people
    BY <2>1 DEF people, Known
  <2>2. ASSUME NEW u \in People, NEW text, Insert(u, text) PROVE Stay
    <3>1. PICK s, t : s = joined /\ t = joined'
      OBVIOUS
    <3>2. s \in Seq(People) /\ t = Append(s, u)
      BY <1>1, <2>2, <3>1 DEF Insert, PeopleOK
    <3>3. /\ DOMAIN s = 1..Len(s) /\ DOMAIN t = 1..(Len(s) + 1) /\ Len(s) \in Nat
          /\ \A i \in 1..Len(s) : t[i] = s[i]
      BY <3>2, JoinFacts
    <3>4. \A i \in DOMAIN joined : i \in DOMAIN joined' /\ joined'[i] = joined[i]
      BY <3>1, <3>3
    <3>5. \A v \in Known : v \in Known'
      BY <3>4 DEF Known
    <3>6. \A v \in Known : v # u /\ v \in People
      BY <1>1, <2>2, ElementOfSeq, LenProperties DEF Insert, PeopleOK, Known
    <3>7. \A v \in Known : referrer'[v] = referrer[v] /\ code'[v] = code[v]
      BY <1>1, <2>2, <3>6 DEF Insert, PeopleOK
    <3>8. QED
      BY <3>4, <3>5, <3>7
  <2>3. QED
    BY <1>1, <2>1, <2>2 DEF Next, Upsert, Step, Tap, Claim, MakeAccount, AnswerLost, PanelRefuses,
       ReleaseTrial, RecordService, StoreError, Crash
<1>2. PeopleOK /\ [Next]_customersVars => [Stay]_customersVars
  BY <1>1
<1>3. Spec => [][Stay]_customersVars
  BY <1>2, CustomersInvariance, PTL DEF Spec
<1>4. QED
  BY <1>3 DEF RowsStay
=============================================================================

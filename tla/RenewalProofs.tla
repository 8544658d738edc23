--------------------------- MODULE RenewalProofs ---------------------------
(***************************************************************************)
(* Proofs about Renewal: for any accounts, deliveries, durations and       *)
(* bounds, from RenewalAssumption alone.                                   *)
(***************************************************************************)
EXTENDS Renewal, TLAPS

\* A product of natural numbers is one, and zero only if a factor is.
LEMMA Product ==
  ASSUME NEW m \in Nat, NEW n \in Nat \ {0}
  PROVE  m * n \in Nat /\ (m * n = 0 => m = 0) /\ (m = 0 => m * n = 0)
OBVIOUS

\* The remainder of a small number is itself, and of no number is it more.
LEMMA Remainder ==
  ASSUME NEW k \in Nat, NEW m \in Nat \ {0}
  PROVE  k % m \in Nat /\ k % m <= k /\ (k < m => k % m = k)
OBVIOUS

\* The days of a plan are a time; 0 days are none.
LEMMA SpanFacts ==
  ASSUME NEW d \in Durations
  PROVE  Span(d) \in Nat /\ (Span(d) = 0 <=> d = 0)
<1>1. d \in Nat /\ Day \in Nat \ {0}
  BY RenewalAssumption
<1>2. QED
  BY <1>1, Product DEF Span

\* A duration is never longer than the days it is of, and as long if they fit.
LEMMA DurationFacts ==
  ASSUME NEW d \in Durations
  PROVE  /\ Duration(d) \in Int /\ Duration(d) <= Span(d)
         /\ Fits(d) => Duration(d) = Span(d)
         /\ d = 0 => Duration(d) = 0 /\ Fits(d)
<1>1. PICK n \in Nat : n = Span(d)
  BY SpanFacts
<1>2. MaxInt \in Nat /\ n + MaxInt + 1 \in Nat /\ 2 * MaxInt + 2 \in Nat \ {0}
  BY RenewalAssumption
<1>3. PICK k : k = (n + MaxInt + 1) % (2 * MaxInt + 2)
  OBVIOUS
<1>4. /\ k \in Nat /\ k <= n + MaxInt + 1
      /\ n + MaxInt + 1 < 2 * MaxInt + 2 => k = n + MaxInt + 1
  BY <1>2, <1>3, Remainder
<1>5. Duration(d) = k - (MaxInt + 1)
  BY <1>1, <1>3 DEF Duration, Wrap
<1>6. /\ Duration(d) \in Int /\ Duration(d) <= n
      /\ n <= MaxInt => Duration(d) = n
  BY <1>2, <1>4, <1>5
<1>7. Fits(d) <=> n <= MaxInt
  BY <1>1 DEF Fits
<1>8. QED
  BY <1>1, <1>2, <1>6, <1>7, SpanFacts

\* The row of a running delivery, and its moves.
LEMMA BusyFacts ==
  ASSUME RenewalTypeOK, NEW w \in Workers, task[w].pc # "idle"
  PROVE  /\ task[w] \in Busy
         /\ task[w].account \in Accounts /\ task[w].d \in Durations
         /\ task[w].d \in Nat /\ Span(task[w].d) \in Nat
         /\ task[w].at \in Nat /\ task[w].cur \in Nat
<1>1. task[w] \in Busy
  BY DEF RenewalTypeOK, Idle
<1>2. task[w].account \in Accounts /\ task[w].d \in Durations
      /\ task[w].at \in 0..MaxTime /\ task[w].cur \in Nat
  BY <1>1 DEF Busy
<1>3. task[w].d \in Nat
  BY <1>2, RenewalAssumption
<1>4. task[w].at \in Nat
  BY <1>2
<1>5. QED
  BY <1>1, <1>2, <1>3, <1>4, SpanFacts

\* A new expiry is a time.
LEMMA NewExpiryType ==
  ASSUME NEW cur \in Nat, NEW at \in Nat, NEW d \in Durations
  PROVE  NewExpiry(cur, at, d) \in Nat
BY DurationFacts DEF NewExpiry, Later, NoExpiry

\* The first expiries, and nothing running.
LEMMA InitType == Init => RenewalTypeOK
BY RenewalAssumption DEF Init, RenewalTypeOK, Idle

\* The variables keep their types.
LEMMA NextType == RenewalTypeOK /\ [Next]_renewalVars => RenewalTypeOK'
<1> SUFFICES ASSUME RenewalTypeOK, [Next]_renewalVars PROVE RenewalTypeOK'
  OBVIOUS
<1>1. ASSUME NEW w \in Workers, NEW a \in Accounts, NEW d \in Durations, Start(w, a, d)
      PROVE  RenewalTypeOK'
  <2>1. d \in Nat /\ Span(d) \in Nat /\ now \in 0..MaxTime /\ started' \in 0..MaxRenewals
    BY <1>1, RenewalAssumption, SpanFacts DEF RenewalTypeOK, Start
  <2>2. PICK r : r = [pc |-> "get", account |-> a, d |-> d, at |-> now, cur |-> 0]
    OBVIOUS
  <2>3. r \in Busy
    BY <2>1, <2>2 DEF Busy
  <2>4. task' = [task EXCEPT ![w] = r]
    BY <1>1, <2>2 DEF Start
  <2>5. task' \in [Workers -> {Idle} \cup Busy]
    BY <2>3, <2>4 DEF RenewalTypeOK
  <2>6. bought' \in [Accounts -> Nat]
    BY <1>1, <2>1 DEF RenewalTypeOK, Start
  <2>7. QED
    BY <1>1, <2>1, <2>5, <2>6 DEF RenewalTypeOK, Start
<1>2. ASSUME NEW w \in Workers, Get(w) PROVE RenewalTypeOK'
  <2>1. task[w] \in Busy /\ expiry[task[w].account] \in Nat
    BY <1>2, BusyFacts DEF Get, At, RenewalTypeOK
  <2>2. PICK s : s = [task[w] EXCEPT !.pc = "put"]
    OBVIOUS
  <2>3. PICK r : r = [s EXCEPT !.cur = expiry[task[w].account]]
    OBVIOUS
  <2>4. s \in Busy
    BY <2>1, <2>2 DEF Busy
  <2>5. r \in Busy
    BY <2>1, <2>3, <2>4 DEF Busy
  <2>6. task' = [task EXCEPT ![w] = r]
    BY <1>2, <2>2, <2>3 DEF Get
  <2>7. task' \in [Workers -> {Idle} \cup Busy]
    BY <2>5, <2>6 DEF RenewalTypeOK
  <2>8. QED
    BY <1>2, <2>7 DEF RenewalTypeOK, Get, history
<1>3. ASSUME NEW w \in Workers, Put(w) \/ PutLost(w) PROVE RenewalTypeOK'
  <2>1. /\ task[w] \in Busy /\ task[w].account \in Accounts /\ task[w].d \in Durations
        /\ Span(task[w].d) \in Nat /\ task[w].at \in Nat /\ task[w].cur \in Nat
    BY <1>3, BusyFacts DEF Put, PutLost, At
  <2>2. PICK e : e = NewExpiry(task[w].cur, task[w].at, task[w].d)
    OBVIOUS
  <2>3. e \in Nat
    BY <2>1, <2>2, NewExpiryType
  <2>4. Write(w)
    BY <1>3 DEF Put, PutLost
  <2>5. expiry' = [expiry EXCEPT ![task[w].account] = e]
    BY <2>2, <2>4 DEF Write
  <2>6. expiry' \in [Accounts -> Nat]
    BY <2>3, <2>5 DEF RenewalTypeOK
  <2>7. floor' \in [Accounts -> Nat]
    <3>1. PICK n : n = IF task[w].d = 0 THEN 0
                       ELSE (IF NoExpiry(expiry[task[w].account]) THEN task[w].at
                             ELSE floor[task[w].account]) + Span(task[w].d)
      OBVIOUS
    <3>2. n \in Nat
      BY <2>1, <3>1 DEF RenewalTypeOK
    <3>3. floor' = [floor EXCEPT ![task[w].account] = n]
      BY <2>4, <3>1 DEF Write
    <3>4. QED
      BY <3>2, <3>3 DEF RenewalTypeOK
  <2>8. /\ raced' \subseteq Accounts /\ wrapped' \subseteq Accounts
        /\ bought' = bought /\ unending' = unending
    BY <2>1, <2>4 DEF RenewalTypeOK, Write
  <2>9. [task[w] EXCEPT !.pc = "reset"] \in Busy
    BY <2>1 DEF Busy
  <2>10. task' \in [Workers -> {Idle} \cup Busy]
    BY <1>3, <2>9 DEF RenewalTypeOK, Put, PutLost, Goto, Finish
  <2>11. QED
    BY <1>3, <2>6, <2>7, <2>8, <2>10 DEF RenewalTypeOK, Put, PutLost
<1>4. ASSUME NEW w \in Workers, Reset(w) \/ ReadBack(w) \/ Refused(w) PROVE RenewalTypeOK'
  <2>1. task[w] \in Busy
    BY <1>4, BusyFacts DEF Reset, ReadBack, Refused, At
  <2>2. [task[w] EXCEPT !.pc = "read"] \in Busy
    BY <2>1 DEF Busy
  <2>3. task' \in [Workers -> {Idle} \cup Busy]
    BY <1>4, <2>2 DEF RenewalTypeOK, Reset, ReadBack, Refused, Goto, Finish
  <2>4. QED
    BY <1>4, <2>3 DEF RenewalTypeOK, Reset, ReadBack, Refused, history
<1>5. ASSUME Tick PROVE RenewalTypeOK'
  BY <1>5, RenewalAssumption DEF RenewalTypeOK, Tick, history
<1>6. ASSUME UNCHANGED renewalVars PROVE RenewalTypeOK'
  BY <1>6 DEF RenewalTypeOK, renewalVars
<1>7. QED
  BY <1>1, <1>2, <1>3, <1>4, <1>5, <1>6 DEF Next, Step

-----------------------------------------------------------------------------
(* What was paid for is kept.                                              *)

\* The time written is there, of an account without a race whose days fit.
\* An account without an end has no time written: its floor is 0.
Kept == \A a \in Accounts \ (raced \cup wrapped) : expiry[a] >= floor[a]

\* Every step keeps the days that were written: only a PUT changes an expiry,
\* and it starts from what is there or counts as a race.
LEMMA NextKept == RenewalTypeOK /\ Kept /\ [Next]_renewalVars => Kept'
<1> SUFFICES ASSUME RenewalTypeOK, Kept, [Next]_renewalVars PROVE Kept'
  OBVIOUS
<1>1. ASSUME NEW w \in Workers, Write(w), At(w, "put") PROVE Kept'
  <2>1. /\ task[w].account \in Accounts /\ task[w].d \in Durations
        /\ task[w].at \in Nat /\ task[w].cur \in Nat
    BY <1>1, BusyFacts DEF At
  <2>2. SUFFICES ASSUME NEW a \in Accounts, a \notin raced' \cup wrapped'
                 PROVE  expiry'[a] >= floor'[a]
    BY DEF Kept
  <2>3. /\ a \notin raced \cup wrapped
        /\ expiry[a] >= floor[a] /\ expiry[a] \in Nat /\ floor[a] \in Nat
    BY <1>1, <2>1, <2>2 DEF Kept, Write, RenewalTypeOK
  <2>4. CASE a = task[w].account
    <3>1. expiry[a] = task[w].cur /\ Fits(task[w].d)
      BY <1>1, <2>2, <2>4 DEF Write
    <3>2. PICK n \in Nat : n = Span(task[w].d)
      BY <2>1, SpanFacts
    <3>3. Duration(task[w].d) = n /\ (n = 0 <=> task[w].d = 0)
      BY <2>1, <3>1, <3>2, SpanFacts, DurationFacts
    <3>4. /\ expiry'[a] = NewExpiry(task[w].cur, task[w].at, task[w].d)
          /\ floor'[a] = IF task[w].d = 0 THEN 0
                         ELSE (IF NoExpiry(expiry[a]) THEN task[w].at ELSE floor[a]) + n
      BY <1>1, <2>1, <2>4, <3>2 DEF Write, RenewalTypeOK
    <3>5. QED
      BY <2>1, <2>3, <3>1, <3>3, <3>4 DEF NewExpiry, NoExpiry, Later
  <2>5. CASE a # task[w].account
    BY <1>1, <2>3, <2>5 DEF Write, RenewalTypeOK
  <2>6. QED
    BY <2>4, <2>5
<1>2. CASE UNCHANGED <<expiry, floor, raced, wrapped>>
  BY <1>2 DEF Kept
<1>3. QED
  BY <1>1, <1>2 DEF Next, Step, Start, Get, Put, PutLost, Reset, ReadBack, Refused, Tick,
                    renewalVars, history

-----------------------------------------------------------------------------
(* Time without an end is sold, or comes of days that do not fit.          *)

Sold ==
  /\ \A w \in Workers : task[w].pc # "idle" /\ task[w].d = 0 => task[w].account \in unending
  /\ \A a \in Accounts : NoExpiry(expiry[a]) => a \in unending \cup wrapped

\* Accounts without an end, and nothing running.
LEMMA InitSold == Init => Sold
BY RenewalAssumption DEF Init, Sold, Idle

\* Every step keeps it: a PUT writes "no expiry" for a plan without an end, or
\* for days that do not fit.
LEMMA NextSold == RenewalTypeOK /\ Sold /\ [Next]_renewalVars => Sold'
<1> SUFFICES ASSUME RenewalTypeOK, Sold, [Next]_renewalVars PROVE Sold'
  OBVIOUS
<1>0. task \in [Workers -> {Idle} \cup Busy]
  BY DEF RenewalTypeOK
<1>1. ASSUME NEW w \in Workers, NEW a \in Accounts, NEW d \in Durations, Start(w, a, d)
      PROVE  Sold'
  <2>1. PICK r : r = [pc |-> "get", account |-> a, d |-> d, at |-> now, cur |-> 0]
    OBVIOUS
  <2>2. r.account = a /\ r.d = d /\ task' = [task EXCEPT ![w] = r]
    BY <1>1, <2>1 DEF Start
  <2>3. /\ unending \subseteq unending' /\ (d = 0 => a \in unending')
        /\ expiry' = expiry /\ wrapped' = wrapped
    BY <1>1 DEF Start
  <2>4. QED
    BY <1>0, <2>2, <2>3 DEF Sold
<1>2. ASSUME NEW w \in Workers, task[w].pc # "idle", task'[w] = Idle \/
               (task'[w].account = task[w].account /\ task'[w].d = task[w].d),
             \A v \in Workers \ {w} : task'[v] = task[v], unending' = unending
      PROVE  \A v \in Workers : task'[v].pc # "idle" /\ task'[v].d = 0
                              => task'[v].account \in unending'
  BY <1>2 DEF Sold, Idle
<1>3. ASSUME NEW w \in Workers, Step(w)
      PROVE  \A v \in Workers : task'[v].pc # "idle" /\ task'[v].d = 0
                              => task'[v].account \in unending'
  <2>1. task[w] \in Busy /\ task[w].pc # "idle"
    BY <1>3, BusyFacts DEF Step, Get, Put, PutLost, Reset, ReadBack, Refused, At
  <2>2. PICK r : /\ task' = [task EXCEPT ![w] = r]
                 /\ r = Idle \/ (r.account = task[w].account /\ r.d = task[w].d)
    <3>1. CASE Get(w)
      <4>1. PICK s : s = [task[w] EXCEPT !.pc = "put"]
        OBVIOUS
      <4>2. PICK r : r = [s EXCEPT !.cur = expiry[task[w].account]]
        OBVIOUS
      <4>3. s \in Busy /\ s.account = task[w].account /\ s.d = task[w].d
        BY <2>1, <4>1 DEF Busy
      <4>4. r.account = task[w].account /\ r.d = task[w].d
        BY <4>2, <4>3 DEF Busy
      <4>5. task' = [task EXCEPT ![w] = r]
        BY <3>1, <4>1, <4>2 DEF Get
      <4>6. QED
        BY <4>4, <4>5
    <3>2. \A pc : [task[w] EXCEPT !.pc = pc].account = task[w].account
                /\ [task[w] EXCEPT !.pc = pc].d = task[w].d
      BY <2>1 DEF Busy
    <3>3. ASSUME NEW pc, Goto(w, pc)
          PROVE  \E r : /\ task' = [task EXCEPT ![w] = r]
                        /\ r = Idle \/ (r.account = task[w].account /\ r.d = task[w].d)
      BY <3>2, <3>3 DEF Goto
    <3>4. CASE Finish(w)
      BY <3>4 DEF Finish
    <3>5. QED
      BY <1>3, <3>1, <3>3, <3>4 DEF Step, Put, PutLost, Reset, ReadBack, Refused
  <2>3. task'[w] = r /\ \A v \in Workers \ {w} : task'[v] = task[v]
    BY <1>0, <2>2
  <2>4. unending' = unending
    BY <1>3 DEF Step, Get, Put, PutLost, Write, Reset, ReadBack, Refused, history
  <2>5. QED
    BY <1>2, <2>1, <2>2, <2>3, <2>4
<1>4. ASSUME NEW w \in Workers, Write(w), At(w, "put"), NEW a \in Accounts,
             NoExpiry(expiry'[a])
      PROVE  a \in unending' \cup wrapped'
  <2>1. /\ task[w].account \in Accounts /\ task[w].d \in Durations
        /\ task[w].at \in Nat /\ task[w].cur \in Nat
    BY <1>4, BusyFacts DEF At
  <2>2. CASE a = task[w].account
    <3>1. NewExpiry(task[w].cur, task[w].at, task[w].d) = 0
      BY <1>4, <2>1, <2>2 DEF Write, NoExpiry, RenewalTypeOK
    <3>2. Duration(task[w].d) <= 0
      BY <2>1, <3>1, DurationFacts DEF NewExpiry, NoExpiry, Later
    <3>3. task[w].d = 0 \/ ~Fits(task[w].d)
      BY <2>1, <3>2, SpanFacts, DurationFacts
    <3>4. QED
      BY <1>4, <2>2, <3>3 DEF Write, Sold, At
  <2>3. CASE a # task[w].account
    BY <1>4, <2>1, <2>3 DEF Write, Sold, RenewalTypeOK
  <2>4. QED
    BY <2>2, <2>3
<1>5. ASSUME NEW w \in Workers, Step(w) PROVE Sold'
  <2>1. \/ Write(w) /\ At(w, "put")
        \/ UNCHANGED <<expiry, unending, wrapped>>
    BY <1>5 DEF Step, Get, Put, PutLost, Reset, ReadBack, Refused, history
  <2>2. QED
    BY <1>3, <1>4, <1>5, <2>1 DEF Sold
<1>6. CASE Tick \/ UNCHANGED renewalVars
  BY <1>6 DEF Tick, history, renewalVars, Sold
<1>7. QED
  BY <1>1, <1>5, <1>6 DEF Next

-----------------------------------------------------------------------------
(* Nothing is given away.  What running deliveries may still write is      *)
(* added up by a function on sets of workers, of which only its law is     *)
(* needed: that it exists is a part of the invariant.                      *)

\* What a delivery with row t may still add to account a.
Summand(t, a) == IF t.pc \in {"get", "put"} /\ t.account = a THEN Span(t.d) ELSE 0

Pending(a) == [w \in Workers |-> Summand(task[w], a)]

Adds(g, p) ==
  /\ g \in [SUBSET Workers -> Nat]
  /\ \A S \in SUBSET Workers : \A w \in Workers \ S : g[S \cup {w}] = g[S] + p[w]

\* The sum of everybody, when one summand x has become y.
Shifts(h, g, x, y) == h[Workers] = g[Workers] - x + y

\* With g[Workers] of account a still to be written, nothing that a PUT
\* may start from is so late that they would not be paid for.
Within(g, a) ==
  LET most == Later(FirstExpiry[a], now) + bought[a]
  IN /\ Adds(g, Pending(a))
     /\ g[Workers] <= bought[a]
     /\ expiry[a] + g[Workers] <= most
     /\ \A w \in Workers :
          At(w, "put") /\ task[w].account = a => task[w].cur + g[Workers] <= most

Paid ==
  /\ \A w \in Workers : task[w].pc # "idle" => task[w].at <= now
  /\ \A a \in Accounts : \E g : Within(g, a)

\* When one summand changes, so does the sum.
LEMMA SumMoves ==
  ASSUME NEW p \in [Workers -> Nat], NEW q \in [Workers -> Nat], NEW g, Adds(g, p),
         NEW v \in Workers, \A w \in Workers \ {v} : q[w] = p[w]
  PROVE  /\ g[Workers] >= p[v]
         /\ \E h : Adds(h, q) /\ Shifts(h, g, p[v], q[v])
<1>0. PICK n \in Nat : n = q[v]
  OBVIOUS
<1> DEFINE h == [S \in SUBSET Workers |-> IF v \in S THEN g[S] - p[v] + n ELSE g[S]]
<1>1. ASSUME NEW S \in SUBSET Workers, v \in S PROVE g[S] >= p[v] /\ g[S] \in Nat
  <2>1. S \ {v} \in SUBSET Workers /\ (S \ {v}) \cup {v} = S /\ v \in Workers \ (S \ {v})
    BY <1>1
  <2>2. g[(S \ {v}) \cup {v}] = g[S \ {v}] + p[v] /\ g[S \ {v}] \in Nat /\ p[v] \in Nat
    BY <2>1 DEF Adds
  <2>3. g[S] = g[S \ {v}] + p[v]
    BY <2>1, <2>2
  <2>4. QED
    BY <2>2, <2>3
<1>2. h \in [SUBSET Workers -> Nat]
  <2>1. ASSUME NEW S \in SUBSET Workers PROVE (IF v \in S THEN g[S] - p[v] + n ELSE g[S]) \in Nat
    BY <1>1, <2>1 DEF Adds
  <2>2. QED
    BY <2>1
<1>3. ASSUME NEW S \in SUBSET Workers, NEW w \in Workers \ S
      PROVE  h[S \cup {w}] = h[S] + q[w]
  <2>1. S \cup {w} \in SUBSET Workers
    BY <1>3
  <2>2. h[S] = (IF v \in S THEN g[S] - p[v] + n ELSE g[S])
    BY <1>3
  <2>3. h[S \cup {w}] = IF v \in S \cup {w} THEN g[S \cup {w}] - p[v] + n ELSE g[S \cup {w}]
    BY <2>1
  <2>4. g[S \cup {w}] = g[S] + p[w] /\ g[S] \in Nat /\ p[w] \in Nat /\ p[v] \in Nat
    BY <1>3 DEF Adds
  <2>5. q[w] = IF w = v THEN n ELSE p[w]
    BY <1>0, <1>3
  <2>6. CASE w = v
    BY <2>2, <2>3, <2>4, <2>5, <2>6, <1>3
  <2>7. CASE w # v
    BY <2>2, <2>3, <2>4, <2>5, <2>7, <1>3
  <2>8. QED
    BY <2>6, <2>7
<1>4. Adds(h, q)
  BY <1>2, <1>3 DEF Adds
<1>5. h[Workers] = g[Workers] - p[v] + n
  OBVIOUS
<1>6. QED
  BY <1>0, <1>1, <1>4, <1>5 DEF Shifts

\* What a delivery may still write is a number of days.
LEMMA SummandType == ASSUME NEW t \in {Idle} \cup Busy, NEW a PROVE Summand(t, a) \in Nat
<1>1. CASE t \in Busy
  BY <1>1, SpanFacts DEF Summand, Busy
<1>2. CASE t = Idle
  BY <1>2 DEF Summand, Idle
<1>3. QED
  BY <1>1, <1>2

\* So it is of every delivery.
LEMMA PendingType == ASSUME NEW a PROVE (RenewalTypeOK => Pending(a) \in [Workers -> Nat])
BY SummandType DEF Pending, RenewalTypeOK

\* A step of delivery v alone moves one summand.
LEMMA PendingMoves ==
  ASSUME RenewalTypeOK, RenewalTypeOK', NEW a, NEW v \in Workers,
         \A w \in Workers \ {v} : task'[w] = task[w]
  PROVE  Pending(a)' = [Pending(a) EXCEPT ![v] = Pending(a)'[v]]
BY DEF Pending

\* Before anything runs nothing is pending.
LEMMA InitPaid == Init => Paid
<1> SUFFICES ASSUME Init PROVE Paid
  OBVIOUS
<1> DEFINE g == [S \in SUBSET Workers |-> 0]
<1>1. ASSUME NEW a \in Accounts PROVE Within(g, a)
  <2>1. Pending(a) = [w \in Workers |-> 0]
    BY DEF Init, Idle, Pending, Summand
  <2>2. g \in [SUBSET Workers -> Nat] /\ g[Workers] = 0
    OBVIOUS
  <2>3. ASSUME NEW S \in SUBSET Workers, NEW w \in Workers \ S
        PROVE g[S \cup {w}] = g[S] + [x \in Workers |-> 0][w]
    <3>1. S \cup {w} \in SUBSET Workers
      BY <2>3
    <3>2. QED
      BY <2>3, <3>1
  <2>4. Adds(g, Pending(a))
    BY <2>1, <2>2, <2>3 DEF Adds
  <2>5. \A w \in Workers : ~At(w, "put")
    BY DEF Init, Idle, At
  <2>6. expiry[a] = FirstExpiry[a] /\ FirstExpiry[a] \in Nat /\ bought[a] = 0 /\ now = 0
    BY RenewalAssumption DEF Init
  <2>7. QED
    BY <2>2, <2>4, <2>5, <2>6 DEF Within, Later
<1>2. \A w \in Workers : task[w].pc = "idle"
  BY DEF Init, Idle
<1>3. QED
  BY <1>1, <1>2 DEF Paid
\* The sum after a step of delivery v.
LEMMA SumStep ==
  ASSUME RenewalTypeOK, RenewalTypeOK', NEW a, NEW v \in Workers,
         \A w \in Workers \ {v} : task'[w] = task[w], NEW g, Adds(g, Pending(a))
  PROVE  \E h : /\ Adds(h, Pending(a)')
                /\ h[Workers] = g[Workers] - Pending(a)[v] + Pending(a)'[v]
                /\ g[Workers] >= Pending(a)[v] /\ g[Workers] \in Nat /\ h[Workers] \in Nat
<1>1. Pending(a) \in [Workers -> Nat]
  BY PendingType
<1>2. Pending(a)' \in [Workers -> Nat]
  BY SummandType DEF Pending, RenewalTypeOK
<1>3. Pending(a)' = [Pending(a) EXCEPT ![v] = Pending(a)'[v]]
  BY PendingMoves
<1>4. PICK p : p = Pending(a)
  OBVIOUS
<1>5. PICK q : q = Pending(a)'
  OBVIOUS
<1>6. p \in [Workers -> Nat] /\ q \in [Workers -> Nat] /\ Adds(g, p)
  BY <1>1, <1>2, <1>4, <1>5
<1>7. \A w \in Workers \ {v} : q[w] = p[w]
  BY <1>3, <1>4, <1>5, <1>6
<1>8. /\ g[Workers] >= p[v]
      /\ \E h : Adds(h, q) /\ Shifts(h, g, p[v], q[v])
  BY <1>6, <1>7, SumMoves
<1>9. PICK h : Adds(h, q) /\ Shifts(h, g, p[v], q[v])
  BY <1>8
<1>10. g[Workers] \in Nat /\ h[Workers] \in Nat
  BY <1>6, <1>9 DEF Adds
<1>11. Adds(h, Pending(a)')
  BY <1>5, <1>9
<1>12. QED
  BY <1>4, <1>5, <1>8, <1>9, <1>10, <1>11 DEF Shifts

\* A step of one delivery that leaves the clock alone: what it does to an
\* account is covered if its new row, the expiry and the days bought fit.
LEMMA PaidStep ==
  ASSUME RenewalTypeOK, RenewalTypeOK', NEW a \in Accounts, NEW v \in Workers,
         \A w \in Workers \ {v} : task'[w] = task[w], now' = now,
         NEW g, Within(g, a),
         NEW x \in Nat, x = Summand(task[v], a), NEW y \in Nat, y = Summand(task'[v], a),
         NEW extra \in Nat, bought'[a] = bought[a] + extra, y <= x + extra,
         \/ expiry'[a] = expiry[a]
         \/ /\ extra = 0 /\ y = 0
            /\ \/ expiry'[a] <= now + x
               \/ expiry'[a] <= expiry[a] + x
               \/ /\ At(v, "put") /\ task[v].account = a
                  /\ expiry'[a] <= task[v].cur + x,
         At(v, "put")' /\ task'[v].account = a => task'[v].cur = expiry'[a]
  PROVE  (\E h : Within(h, a))'
<1>1. /\ Adds(g, Pending(a)) /\ g[Workers] <= bought[a]
      /\ expiry[a] + g[Workers] <= Later(FirstExpiry[a], now) + bought[a]
      /\ \A w \in Workers : At(w, "put") /\ task[w].account = a
           => task[w].cur + g[Workers] <= Later(FirstExpiry[a], now) + bought[a]
  BY DEF Within
<1>2. PICK h : /\ Adds(h, Pending(a)')
               /\ h[Workers] = g[Workers] - Pending(a)[v] + Pending(a)'[v]
               /\ g[Workers] >= Pending(a)[v] /\ g[Workers] \in Nat /\ h[Workers] \in Nat
  BY <1>1, SumStep
<1>3. Pending(a)[v] = x /\ Pending(a)'[v] = y
  BY DEF Pending
<1>4. /\ FirstExpiry[a] \in Nat /\ now \in Nat /\ bought[a] \in Nat /\ expiry[a] \in Nat
      /\ expiry'[a] \in Nat /\ bought'[a] \in Nat
  BY RenewalAssumption DEF RenewalTypeOK
<1>5. PICK most \in Nat : most = Later(FirstExpiry[a], now)
  BY <1>4 DEF Later
<1>6. now <= most
  BY <1>4, <1>5 DEF Later
<1>7. h[Workers] = g[Workers] - x + y /\ g[Workers] >= x
  BY <1>2, <1>3
<1>8. h[Workers] <= bought'[a]
  BY <1>1, <1>2, <1>4, <1>7
<1>9. expiry'[a] + h[Workers] <= most + bought'[a]
  <2>1. CASE expiry'[a] = expiry[a]
    BY <1>1, <1>2, <1>4, <1>5, <1>7, <2>1
  <2>2. CASE extra = 0 /\ y = 0 /\ expiry'[a] <= now + x
    BY <1>1, <1>2, <1>4, <1>5, <1>6, <1>7, <2>2
  <2>3. CASE extra = 0 /\ y = 0 /\ expiry'[a] <= expiry[a] + x
    BY <1>1, <1>2, <1>4, <1>5, <1>7, <2>3
  <2>4. CASE /\ extra = 0 /\ y = 0 /\ At(v, "put") /\ task[v].account = a
             /\ expiry'[a] <= task[v].cur + x
    <3>1. task[v].cur \in Nat
      BY <2>4, BusyFacts DEF At
    <3>2. task[v].cur + g[Workers] <= most + bought[a]
      BY <1>1, <1>5, <2>4
    <3>3. QED
      BY <1>2, <1>4, <1>7, <2>4, <3>1, <3>2
  <2>5. QED
    BY <2>1, <2>2, <2>3, <2>4
<1>10. ASSUME NEW w \in Workers, At(w, "put")', task'[w].account = a
       PROVE  task'[w].cur + h[Workers] <= most + bought'[a]
  <2>1. CASE w = v
    BY <1>9, <1>10, <2>1
  <2>2. CASE w # v
    <3>1. task'[w] = task[w] /\ At(w, "put") /\ task[w].account = a
      BY <1>10, <2>2 DEF At
    <3>2. task[w].cur \in Nat
      BY <3>1, BusyFacts DEF At
    <3>3. task[w].cur + g[Workers] <= most + bought[a]
      BY <1>1, <1>5, <3>1
    <3>4. QED
      BY <1>2, <1>4, <1>7, <3>1, <3>2, <3>3
  <2>3. QED
    BY <2>1, <2>2
<1>11. Within(h, a)'
  <2>1. most = Later(FirstExpiry[a], now)'
    BY <1>5 DEF Later
  <2>2. QED
    BY <1>2, <1>8, <1>9, <1>10, <2>1 DEF Within
<1>12. QED
  BY <1>11

\* Every step keeps the invariant.
LEMMA NextPaid == RenewalTypeOK /\ Paid /\ [Next]_renewalVars => Paid'
<1> SUFFICES ASSUME RenewalTypeOK, Paid, [Next]_renewalVars PROVE Paid'
  OBVIOUS
<1>1. RenewalTypeOK'
  BY NextType
<1>2. ASSUME NEW v \in Workers, NEW c \in Accounts, NEW d \in Durations, Start(v, c, d)
      PROVE  Paid'
  <2>1. PICK r : r = [pc |-> "get", account |-> c, d |-> d, at |-> now, cur |-> 0]
    OBVIOUS
  <2>2. r.pc = "get" /\ r.account = c /\ r.d = d /\ r.at = now
    BY <2>1
  <2>3. task' = [task EXCEPT ![v] = r] /\ task[v].pc = "idle"
    BY <1>2, <2>1 DEF Start, At
  <2>4. task'[v] = r /\ \A w \in Workers \ {v} : task'[w] = task[w]
    BY <2>3 DEF RenewalTypeOK
  <2>5. Span(d) \in Nat /\ now' = now /\ expiry' = expiry
    BY <1>2, SpanFacts DEF Start
  <2>6. ASSUME NEW a \in Accounts PROVE (\E h : Within(h, a))'
    <3>1. PICK g : Within(g, a)
      BY DEF Paid
    <3>2. PICK extra \in Nat : extra = IF a = c THEN Span(d) ELSE 0
      BY <2>5
    <3>3. Summand(task[v], a) = 0 /\ Summand(task'[v], a) = extra /\ 0 \in Nat
      BY <2>2, <2>3, <2>4, <3>2 DEF Summand
    <3>4. bought'[a] = bought[a] + extra
      BY <1>2, <2>5, <3>2 DEF Start, RenewalTypeOK
    <3>5. ~At(v, "put")'
      BY <2>2, <2>4 DEF At
    <3>6. QED
      BY <1>1, <2>4, <2>5, <3>1, <3>3, <3>4, <3>5, PaidStep
  <2>7. \A w \in Workers : task'[w].pc # "idle" => task'[w].at <= now'
    BY <2>2, <2>4, <2>5 DEF Paid, RenewalTypeOK
  <2>8. QED
    BY <2>6, <2>7 DEF Paid
<1>3. ASSUME NEW v \in Workers, Get(v) PROVE Paid'
  <2>1. task[v] \in Busy /\ task[v].account \in Accounts /\ task[v].d \in Nat /\ task[v].pc = "get"
    BY <1>3, BusyFacts DEF Get, At
  <2>2. PICK s : s = [task[v] EXCEPT !.pc = "put"]
    OBVIOUS
  <2>3. PICK r : r = [s EXCEPT !.cur = expiry[task[v].account]]
    OBVIOUS
  <2>4. s.pc = "put" /\ s.account = task[v].account /\ s.d = task[v].d /\ s.at = task[v].at
        /\ s \in Busy
    BY <2>1, <2>2 DEF Busy
  <2>5. r.pc = "put" /\ r.account = task[v].account /\ r.d = task[v].d /\ r.at = task[v].at
        /\ r.cur = expiry[task[v].account]
    BY <2>3, <2>4 DEF Busy
  <2>6. task' = [task EXCEPT ![v] = r]
    BY <1>3, <2>2, <2>3 DEF Get
  <2>7. task'[v] = r /\ \A w \in Workers \ {v} : task'[w] = task[w]
    BY <2>6 DEF RenewalTypeOK
  <2>8. now' = now /\ expiry' = expiry /\ bought' = bought
    BY <1>3 DEF Get, history
  <2>9. ASSUME NEW a \in Accounts PROVE (\E h : Within(h, a))'
    <3>1. PICK g : Within(g, a)
      BY DEF Paid
    <3>2. PICK x \in Nat : x = Summand(task[v], a)
      BY SummandType DEF RenewalTypeOK
    <3>3. x = Summand(task'[v], a) /\ 0 \in Nat /\ x <= x + 0
      BY <2>1, <2>5, <2>7, <3>2 DEF Summand
    <3>4. bought'[a] = bought[a] + 0 /\ expiry'[a] = expiry[a]
      BY <2>8 DEF RenewalTypeOK
    <3>5. At(v, "put")' /\ task'[v].account = a => task'[v].cur = expiry'[a]
      BY <2>5, <2>7, <2>8
    <3>6. QED
      BY <1>1, <2>7, <2>8, <3>1, <3>2, <3>3, <3>4, <3>5, PaidStep
  <2>10. \A w \in Workers : task'[w].pc # "idle" => task'[w].at <= now'
    BY <2>1, <2>5, <2>7, <2>8 DEF Paid
  <2>11. QED
    BY <2>9, <2>10 DEF Paid
<1>4. ASSUME NEW v \in Workers, Put(v) \/ PutLost(v) PROVE Paid'
  <2>1. /\ task[v] \in Busy /\ task[v].account \in Accounts /\ task[v].d \in Durations
        /\ task[v].at \in Nat /\ task[v].cur \in Nat /\ task[v].pc = "put" /\ At(v, "put")
    BY <1>4, BusyFacts DEF Put, PutLost, At
  <2>2. Write(v) /\ now' = now /\ bought' = bought
    BY <1>4 DEF Put, PutLost, Write
  <2>3. PICK r : r = IF Put(v) THEN [task[v] EXCEPT !.pc = "reset"] ELSE Idle
    OBVIOUS
  <2>4. r.pc \in {"idle", "reset"} /\ (r.pc # "idle" => r.at = task[v].at)
    BY <2>1, <2>3 DEF Busy, Idle
  <2>5. task' = [task EXCEPT ![v] = r]
    BY <1>4, <2>3 DEF Put, PutLost, Goto, Finish
  <2>6. task'[v] = r /\ \A w \in Workers \ {v} : task'[w] = task[w]
    BY <2>5 DEF RenewalTypeOK
  <2>7. ASSUME NEW a \in Accounts PROVE (\E h : Within(h, a))'
    <3>1. PICK g : Within(g, a)
      BY DEF Paid
    <3>2. PICK x \in Nat : x = Summand(task[v], a)
      BY SummandType DEF RenewalTypeOK
    <3>3. Summand(task'[v], a) = 0 /\ 0 \in Nat /\ 0 <= x + 0
      BY <2>4, <2>6, <3>2 DEF Summand
    <3>4. bought'[a] = bought[a] + 0
      BY <2>2 DEF RenewalTypeOK
    <3>5. ~At(v, "put")'
      BY <2>4, <2>6 DEF At
    <3>6. \/ expiry'[a] = expiry[a]
          \/ expiry'[a] <= now + x
          \/ expiry'[a] <= expiry[a] + x
          \/ task[v].account = a /\ expiry'[a] <= task[v].cur + x
      <4>1. CASE task[v].account # a
        BY <2>2, <4>1 DEF Write, RenewalTypeOK
      <4>2. CASE task[v].account = a
        <5>1. x = Span(task[v].d)
          BY <2>1, <3>2, <4>2 DEF Summand
        <5>2. expiry'[a] = NewExpiry(task[v].cur, task[v].at, task[v].d)
          BY <2>2, <4>2 DEF Write, RenewalTypeOK
        <5>3. task[v].at <= now /\ now \in Nat
          BY <2>1 DEF Paid, RenewalTypeOK
        <5>4. Duration(task[v].d) \in Int /\ Duration(task[v].d) <= x
          BY <2>1, <5>1, DurationFacts
        <5>5. QED
          BY <2>1, <4>2, <5>2, <5>3, <5>4 DEF NewExpiry, NoExpiry, Later
      <4>3. QED
        BY <4>1, <4>2
    <3>7. QED
      BY <1>1, <2>1, <2>2, <2>6, <3>1, <3>2, <3>3, <3>4, <3>5, <3>6, PaidStep
  <2>8. \A w \in Workers : task'[w].pc # "idle" => task'[w].at <= now'
    BY <2>1, <2>2, <2>4, <2>6 DEF Paid
  <2>9. QED
    BY <2>7, <2>8 DEF Paid
<1>5. ASSUME NEW v \in Workers, Reset(v) \/ ReadBack(v) \/ Refused(v) PROVE Paid'
  <2>1. task[v] \in Busy /\ task[v].pc # "idle"
    BY <1>5, BusyFacts DEF Reset, ReadBack, Refused, At
  <2>2. now' = now /\ expiry' = expiry /\ bought' = bought
    BY <1>5 DEF Reset, ReadBack, Refused, history
  <2>3. PICK r : r = IF Goto(v, "read") THEN [task[v] EXCEPT !.pc = "read"] ELSE Idle
    OBVIOUS
  <2>4. /\ task' = [task EXCEPT ![v] = r] /\ r.pc \in {"idle", "read"}
        /\ (r.pc # "idle" => r.at = task[v].at)
    <3>1. r.pc \in {"idle", "read"} /\ (r.pc # "idle" => r.at = task[v].at)
      BY <2>1, <2>3 DEF Busy, Idle
    <3>2. task' = [task EXCEPT ![v] = r]
      BY <1>5, <2>3 DEF Reset, ReadBack, Refused, Goto, Finish
    <3>3. QED
      BY <3>1, <3>2
  <2>5. task'[v] = r /\ \A w \in Workers \ {v} : task'[w] = task[w]
    BY <2>4 DEF RenewalTypeOK
  <2>6. ASSUME NEW a \in Accounts PROVE (\E h : Within(h, a))'
    <3>1. PICK g : Within(g, a)
      BY DEF Paid
    <3>2. PICK x \in Nat : x = Summand(task[v], a)
      BY SummandType DEF RenewalTypeOK
    <3>3. Summand(task'[v], a) = 0 /\ 0 \in Nat /\ 0 <= x + 0
      BY <2>4, <2>5, <3>2 DEF Summand
    <3>4. bought'[a] = bought[a] + 0 /\ expiry'[a] = expiry[a]
      BY <2>2 DEF RenewalTypeOK
    <3>5. ~At(v, "put")'
      BY <2>4, <2>5 DEF At
    <3>6. QED
      BY <1>1, <2>2, <2>5, <3>1, <3>2, <3>3, <3>4, <3>5, PaidStep
  <2>7. \A w \in Workers : task'[w].pc # "idle" => task'[w].at <= now'
    BY <2>1, <2>2, <2>4, <2>5 DEF Paid
  <2>8. QED
    BY <2>6, <2>7 DEF Paid
<1>6. CASE Tick
  <2>1. now' = now + 1 /\ now \in Nat
    BY <1>6, RenewalAssumption DEF Tick, RenewalTypeOK
  <2>2. expiry' = expiry /\ task' = task /\ bought' = bought
    BY <1>6 DEF Tick, history
  <2>3. ASSUME NEW a \in Accounts PROVE (\E h : Within(h, a))'
    <3>1. PICK g : Within(g, a)
      BY DEF Paid
    <3>2. /\ FirstExpiry[a] \in Nat /\ bought[a] \in Nat /\ expiry[a] \in Nat
          /\ g[Workers] \in Nat
      BY <3>1, RenewalAssumption DEF RenewalTypeOK, Within, Adds
    <3>3. PICK most \in Nat : most = Later(FirstExpiry[a], now)
      BY <2>1, <3>2 DEF Later
    <3>4. PICK more \in Nat : more = Later(FirstExpiry[a], now')
      BY <2>1, <3>2 DEF Later
    <3>5. most <= more
      BY <2>1, <3>2, <3>3, <3>4 DEF Later
    <3>6. Adds(g, Pending(a)')
      BY <2>2, <3>1 DEF Within, Pending
    <3>7. expiry'[a] + g[Workers] <= more + bought'[a]
      BY <2>2, <3>1, <3>2, <3>3, <3>5 DEF Within
    <3>8. ASSUME NEW w \in Workers, At(w, "put")', task'[w].account = a
          PROVE  task'[w].cur + g[Workers] <= more + bought'[a]
      <4>1. At(w, "put") /\ task[w].account = a /\ task[w].cur \in Nat
        BY <2>2, <3>8, BusyFacts DEF At
      <4>2. task[w].cur + g[Workers] <= most + bought[a]
        BY <3>1, <3>3, <4>1 DEF Within
      <4>3. QED
        BY <2>2, <3>2, <3>5, <4>1, <4>2
    <3>9. more = Later(FirstExpiry[a], now)'
      BY <3>4 DEF Later
    <3>10. g[Workers] <= bought'[a]
      BY <2>2, <3>1 DEF Within
    <3>11. Within(g, a)'
      BY <3>6, <3>7, <3>8, <3>9, <3>10 DEF Within
    <3>12. QED
      BY <3>11
  <2>4. ASSUME NEW w \in Workers, task'[w].pc # "idle" PROVE task'[w].at <= now'
    <3>1. task[w].at \in Nat /\ task[w].at <= now
      BY <2>2, <2>4, BusyFacts DEF Paid
    <3>2. QED
      BY <2>1, <2>2, <3>1
  <2>5. QED
    BY <2>3, <2>4 DEF Paid
<1>7. CASE UNCHANGED renewalVars
  BY <1>7 DEF Paid, Within, Pending, At, Later, renewalVars
<1>8. QED
  BY <1>2, <1>3, <1>4, <1>5, <1>6, <1>7 DEF Next, Step

-----------------------------------------------------------------------------
\* The invariant.
LEMMA RenewalInvariance == Spec => [](RenewalTypeOK /\ Kept /\ Sold /\ Paid)
<1>1. Init => Kept
  BY RenewalAssumption DEF Init, Kept
<1>2. QED
  BY <1>1, InitType, InitSold, InitPaid, NextType, NextKept, NextSold, NextPaid, PTL DEF Spec

(* Days bought are days got, for plans of any length and integers of any   *)
(* width: whatever is refused, lost or late, an account that no other      *)
(* renewal changed between a renewal's read and its write, and whose days  *)
(* fit, has all the time written to it, since the first expiry or since it *)
(* was last given an end (Renew: it counts from whichever is later).       *)
THEOREM DaysBoughtAreKept == Spec => []DaysStack
<1>1. Kept => DaysStack
  BY DEF Kept, DaysStack
<1>2. QED
  BY <1>1, RenewalInvariance, PTL

(* And no account has days that nobody bought, whatever overlaps: each PUT *)
(* spends the days of its own renewal once, and writes "no expiry" only    *)
(* for a plan without an end or for days that do not fit (Renew).          *)
THEOREM DaysAreNotFree == Spec => []NoFreeDays
<1>1. ASSUME RenewalTypeOK, Sold, Paid PROVE NoFreeDays
  <2>1. ASSUME NEW a \in Accounts PROVE expiry[a] <= Later(FirstExpiry[a], now) + bought[a]
    <3>1. PICK g : Within(g, a)
      BY <1>1 DEF Paid
    <3>2. g[Workers] \in Nat /\ expiry[a] \in Nat /\ bought[a] \in Nat
          /\ FirstExpiry[a] \in Nat /\ now \in Nat
      BY <1>1, <3>1, RenewalAssumption DEF Within, Adds, RenewalTypeOK
    <3>3. QED
      BY <3>1, <3>2 DEF Within, Later
  <2>2. QED
    BY <1>1, <2>1 DEF NoFreeDays, Sold
<1>2. QED
  BY <1>1, RenewalInvariance, PTL

-----------------------------------------------------------------------------
(* What it takes to lose days.                                             *)

\* No two renewals of account a are between their read and their write at once.
OneAtATime(a) ==
  \A v, w \in Workers :
    At(v, "put") /\ At(w, "put") /\ task[v].account = a /\ task[w].account = a => v = w

\* Nothing was written to a from an expiry that was no longer true, nor will be
\* by the renewal that has read it.
UpToDate(a) ==
  /\ a \notin raced
  /\ \A w \in Workers : At(w, "put") /\ task[w].account = a => task[w].cur = expiry[a]

\* A renewal that has the account to itself writes from what is true.
LEMMA StaysUpToDate ==
  ASSUME NEW a \in Accounts, RenewalTypeOK, UpToDate(a), OneAtATime(a), [Next]_renewalVars
  PROVE  UpToDate(a)'
<1>1. task \in [Workers -> {Idle} \cup Busy]
  BY DEF RenewalTypeOK
<1>2. ASSUME NEW w \in Workers, Put(w) \/ PutLost(w) PROVE UpToDate(a)'
  <2>1. At(w, "put") /\ task[w] \in Busy /\ task[w].account \in Accounts
    BY <1>2, BusyFacts DEF Put, PutLost, At
  <2>2. /\ ~At(w, "put")'
        /\ \A v \in Workers : v # w => task'[v] = task[v]
    BY <1>1, <1>2, <2>1 DEF Put, PutLost, Goto, Finish, At, Idle, Busy
  <2>3. Write(w)
    BY <1>2 DEF Put, PutLost
  <2>4. CASE task[w].account = a
    <3>1. a \notin raced'
      BY <2>1, <2>3, <2>4 DEF Write, UpToDate
    <3>2. \A v \in Workers : ~(At(v, "put")' /\ task'[v].account = a)
      BY <2>1, <2>2, <2>4 DEF OneAtATime, At
    <3>3. QED
      BY <3>1, <3>2 DEF UpToDate
  <2>5. CASE task[w].account # a
    <3>1. expiry'[a] = expiry[a] /\ a \notin raced'
      BY <2>3, <2>5 DEF Write, UpToDate, RenewalTypeOK
    <3>2. QED
      BY <2>2, <3>1 DEF UpToDate, At
  <2>6. QED
    BY <2>4, <2>5
<1>3. ASSUME NEW w \in Workers, Get(w) PROVE UpToDate(a)'
  <2>1. task[w] \in Busy
    BY <1>3, BusyFacts DEF Get, At
  <2>2. PICK s : s = [task[w] EXCEPT !.pc = "put"]
    OBVIOUS
  <2>3. PICK r : r = [s EXCEPT !.cur = expiry[task[w].account]]
    OBVIOUS
  <2>4. s \in Busy /\ s.account = task[w].account
    BY <2>1, <2>2 DEF Busy
  <2>5. r.account = task[w].account /\ r.cur = expiry[task[w].account]
    BY <2>3, <2>4 DEF Busy
  <2>6. task' = [task EXCEPT ![w] = r]
    BY <1>3, <2>2, <2>3 DEF Get
  <2>7. task'[w] = r /\ \A v \in Workers : v # w => task'[v] = task[v]
    BY <1>1, <2>6
  <2>8. QED
    BY <1>3, <2>5, <2>7 DEF UpToDate, At, Get, history
<1>4. ASSUME UNCHANGED <<expiry, raced>>,
             \A w \in Workers : task'[w] = task[w] \/ task'[w].pc # "put"
      PROVE  UpToDate(a)'
  BY <1>4 DEF UpToDate, At
<1>5. ASSUME NEW w \in Workers, NEW b \in Accounts, NEW d \in Durations, Start(w, b, d)
      PROVE  UpToDate(a)'
  BY <1>1, <1>4, <1>5 DEF Start
<1>6. ASSUME NEW w \in Workers, Reset(w) \/ ReadBack(w) \/ Refused(w) PROVE UpToDate(a)'
  <2>1. task[w] \in Busy
    BY <1>6, BusyFacts DEF Reset, ReadBack, Refused, At
  <2>2. \A v \in Workers : task'[v] = task[v] \/ task'[v].pc # "put"
    BY <1>1, <1>6, <2>1 DEF Reset, ReadBack, Refused, Goto, Finish, Idle, Busy
  <2>3. QED
    BY <1>4, <1>6, <2>2 DEF Reset, ReadBack, Refused, history
<1>7. CASE Tick \/ UNCHANGED renewalVars
  BY <1>4, <1>7 DEF Tick, history, renewalVars
<1>8. QED
  BY <1>2, <1>3, <1>5, <1>6, <1>7 DEF Next, Step

(* "renewing early never wastes days" (README.md:18) is true of every      *)
(* account, while plans have so few days that they fit (106751 of them),   *)
(* as long as no two renewals of it are between their read and their write *)
(* at the same time: of what is sold with an end that overlap alone can    *)
(* lose days, and refusals, lost answers and renewals of other accounts    *)
(* cannot.                                                                 *)
THEOREM OnlyOverlapLosesDays ==
  ASSUME NEW a \in Accounts, \A d \in Durations : Fits(d)
  PROVE  Spec /\ []OneAtATime(a) => [](NoExpiry(expiry[a]) \/ expiry[a] >= floor[a])
<1>1. Init => UpToDate(a) /\ wrapped = {}
  BY DEF Init, UpToDate, At, Idle
<1>2. RenewalTypeOK /\ UpToDate(a) /\ OneAtATime(a) /\ [Next]_renewalVars => UpToDate(a)'
  BY StaysUpToDate
<1>3. RenewalTypeOK /\ wrapped = {} /\ [Next]_renewalVars => (wrapped = {})'
  <2> SUFFICES ASSUME RenewalTypeOK, wrapped = {}, [Next]_renewalVars PROVE wrapped' = {}
    OBVIOUS
  <2>1. ASSUME NEW w \in Workers, Put(w) \/ PutLost(w) PROVE wrapped' = {}
    <3>1. task[w].d \in Durations
      BY <2>1, BusyFacts DEF Put, PutLost, At
    <3>2. QED
      BY <2>1, <3>1 DEF Put, PutLost, Write
  <2>2. QED
    BY <2>1 DEF Next, Step, Start, Get, Reset, ReadBack, Refused, Tick, renewalVars, history
<1>4. Kept /\ UpToDate(a) /\ wrapped = {} => NoExpiry(expiry[a]) \/ expiry[a] >= floor[a]
  BY DEF Kept, UpToDate
<1>5. QED
  BY <1>1, <1>2, <1>3, <1>4, RenewalInvariance, PTL DEF Spec

=============================================================================

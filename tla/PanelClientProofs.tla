------------------------- MODULE PanelClientProofs --------------------------
(***************************************************************************)
(* What holds of PanelClient.tla for any number of handlers and calls.     *)
(***************************************************************************)
EXTENDS PanelClient, SequenceTheorems, TLAPS

-----------------------------------------------------------------------------
(* The inductive invariant.                                                *)

IsBusy(w) == work[w].pc # "idle"

\* A running call has returned nothing, and nothing has been done for it.
Pending ==
  \A w \in Workers :
    IsBusy(w) => /\ work[w].call \in DOMAIN result
                 /\ result[work[w].call] = "none"
                 /\ honoured[work[w].call] = 0

\* Every handler runs a call of its own.
Apart ==
  \A v, w \in Workers : v # w /\ IsBusy(v) /\ IsBusy(w) => work[v].call # work[w].call

\* Where a handler stands: the first login is before any 401, a handler that
\* sends has a token, one to be saved was just given out, and after the second
\* login of a call the token is good unless one expired meanwhile.
Stands(r, tok, val) ==
  /\ r.pc = "call" => ~r.retried
  /\ r.pc = "send" => tok # 0
  /\ r.pc = "save" => r.token \in val
  /\ r.pc = "send" /\ r.retried /\ ~r.expired => tok \in val
  /\ r.pc = "wait" /\ r.retried /\ ~r.expired => r.token \in val

Standing == \A w \in Workers : IsBusy(w) => Stands(work[w], token, valid)

IInv ==
  /\ ClientTypeOK
  /\ DOMAIN honoured = DOMAIN result
  /\ Pending /\ Apart /\ Standing
  /\ HonouredOnce

-----------------------------------------------------------------------------
(* How the tables change.                                                  *)

\* What changing one element of a sequence leaves and what it changes.
LEMMA ExceptFacts ==
  ASSUME NEW S, NEW s \in Seq(S), NEW i \in DOMAIN s, NEW x \in S, NEW t, t = [s EXCEPT ![i] = x]
  PROVE  /\ t \in Seq(S)
         /\ DOMAIN t = DOMAIN s
         /\ \A j \in DOMAIN s : t[j] = IF j = i THEN x ELSE s[j]
<1>1. DOMAIN s = 1..Len(s) /\ i \in 1..Len(s)
  BY LenProperties
<1>2. /\ t \in Seq(S) /\ Len(t) = Len(s)
      /\ \A j \in 1..Len(s) : t[j] = IF j = i THEN x ELSE s[j]
  BY <1>1, ExceptSeq
<1>3. DOMAIN t = 1..Len(t)
  BY <1>2, LenProperties
<1> QED
  BY <1>1, <1>2, <1>3

\* What appending to a sequence leaves and what it adds.
LEMMA AppendFacts ==
  ASSUME NEW S, NEW s \in Seq(S), NEW x \in S, NEW t, t = Append(s, x)
  PROVE  /\ t \in Seq(S)
         /\ Len(s) \in Nat
         /\ DOMAIN s = 1..Len(s)
         /\ DOMAIN t = 1..(Len(s) + 1)
         /\ \A i \in DOMAIN t : t[i] = IF i = Len(s) + 1 THEN x ELSE s[i]
<1>1. Len(s) \in Nat /\ DOMAIN s = 1..Len(s)
  BY LenProperties
<1>2. /\ t \in Seq(S) /\ Len(t) = Len(s) + 1 /\ t[Len(s) + 1] = x
      /\ \A i \in 1..Len(s) : t[i] = s[i]
  BY AppendProperties
<1>3. DOMAIN t = 1..(Len(s) + 1)
  BY <1>2, LenProperties
<1> QED
  BY <1>1, <1>2, <1>3

\* The locals of one handler change.
LEMMA WorkFacts ==
  ASSUME IInv, NEW w \in Workers, NEW t \in {Idle} \cup Busy, work' = [work EXCEPT ![w] = t]
  PROVE  /\ work' \in [Workers -> {Idle} \cup Busy]
         /\ work'[w] = t
         /\ \A v \in Workers : v # w => work'[v] = work[v]
BY DEF IInv, ClientTypeOK

\* A handler that is at work has the locals of a call.
LEMMA BusyFacts ==
  ASSUME IInv, NEW w \in Workers, IsBusy(w)
  PROVE  work[w] \in Busy
BY DEF IInv, ClientTypeOK, IsBusy, Idle

\* A step that neither starts nor ends a call leaves the calls as they are.
LEMMA CallGoesOn ==
  ASSUME IInv, NEW w \in Workers, IsBusy(w), NEW t \in Busy, t.call = work[w].call,
         work' = [work EXCEPT ![w] = t], UNCHANGED <<honoured, result>>
  PROVE  /\ Pending' /\ Apart' /\ HonouredOnce' /\ (DOMAIN honoured = DOMAIN result)'
         /\ honoured' \in Seq(Nat) /\ result' \in Seq({"none"} \cup Results)
<1>1. /\ work'[w] = t
      /\ \A v \in Workers : v # w => work'[v] = work[v]
  BY WorkFacts
<1>2. Pending' /\ Apart'
  BY <1>1 DEF IInv, Pending, Apart, IsBusy
<1> QED
  BY <1>2 DEF IInv, ClientTypeOK, HonouredOnce

\* A call ends; it may have been honoured now, if it says so or leaves it open.
LEMMA CallEnds ==
  ASSUME IInv, NEW w \in Workers, IsBusy(w), NEW r \in Results, Return(w, r),
         UNCHANGED <<token, issued, valid>>,
         \/ UNCHANGED honoured /\ r # "ok"
         \/ Honour(w) /\ r # "unauthorized"
  PROVE  IInv'
<1> DEFINE c == work[w].call
<1>1. work[w] \in Busy
  BY BusyFacts
<1>2. c \in DOMAIN result /\ result[c] = "none" /\ honoured[c] = 0 /\ DOMAIN honoured = DOMAIN result
  BY DEF IInv, Pending
<1>3. /\ result' \in Seq({"none"} \cup Results) /\ DOMAIN result' = DOMAIN result
      /\ \A d \in DOMAIN result : result'[d] = IF d = c THEN r ELSE result[d]
  BY <1>2, ExceptFacts DEF IInv, ClientTypeOK, Return
<1>4. /\ honoured' \in Seq(Nat) /\ DOMAIN honoured' = DOMAIN result
      /\ \A d \in DOMAIN result : d # c => honoured'[d] = honoured[d]
      /\ honoured'[c] <= 1 /\ honoured'[c] \in Nat
      /\ r = "ok" => honoured'[c] = 1
      /\ r = "unauthorized" => honoured'[c] = 0
  <2>1. CASE UNCHANGED honoured /\ r # "ok"
    BY <1>2, <2>1 DEF IInv, ClientTypeOK
  <2>2. CASE Honour(w) /\ r # "unauthorized"
    <3>1. honoured' = [honoured EXCEPT ![c] = 1]
      BY <1>2, <2>2 DEF Honour
    <3> QED
      BY <1>2, <2>2, <3>1, ExceptFacts DEF IInv, ClientTypeOK
  <2> QED
    BY <2>1, <2>2
<1>5. /\ work' \in [Workers -> {Idle} \cup Busy] /\ work'[w] = Idle
      /\ \A v \in Workers : v # w => work'[v] = work[v]
  BY WorkFacts DEF Return
<1>6. ClientTypeOK'
  BY <1>3, <1>4, <1>5 DEF IInv, ClientTypeOK, Tokens, Idle
<1>7. Pending' /\ Apart'
  <2>1. \A v \in Workers : IsBusy(v)' => v # w /\ IsBusy(v) /\ work'[v] = work[v]
    BY <1>5 DEF IsBusy, Idle
  <2>2. \A v \in Workers : v # w /\ IsBusy(v) => work[v].call # c /\ work[v].call \in DOMAIN result
    BY DEF IInv, Apart, Pending
  <2> HIDE DEF c
  <2>3. Pending'
    BY <1>3, <1>4, <2>1, <2>2 DEF IInv, Pending
  <2>4. Apart'
    BY <2>1 DEF IInv, Apart
  <2> QED
    BY <2>3, <2>4
<1>8. Standing'
  BY <1>5 DEF IInv, Standing, IsBusy, Idle
<1>9. HonouredOnce'
  BY <1>2, <1>3, <1>4 DEF IInv, HonouredOnce
<1> QED
  BY <1>3, <1>4, <1>6, <1>7, <1>8, <1>9 DEF IInv

-----------------------------------------------------------------------------
(* The steps.                                                              *)

\* The invariant holds before any call.
LEMMA InitHolds == Init => IInv
<1> SUFFICES ASSUME Init PROVE IInv
  OBVIOUS
<1>1. DOMAIN honoured = {} /\ DOMAIN result = {}
  BY DEF Init
<1>2. honoured \in Seq(Nat) /\ result \in Seq({"none"} \cup Results)
  BY DEF Init
<1>3. \A w \in Workers : work[w] = Idle
  BY DEF Init
<1>4. ClientTypeOK
  BY <1>2, <1>3 DEF Init, ClientTypeOK, Idle
<1>5. Pending /\ Apart /\ Standing /\ HonouredOnce
  BY <1>1, <1>3 DEF Pending, Apart, Standing, HonouredOnce, IsBusy, Idle
<1> QED
  BY <1>1, <1>4, <1>5 DEF IInv

\* A new call keeps the invariant: it is its handler's alone.
LEMMA CallKeeps ==
  ASSUME IInv, NEW w \in Workers, Call(w)
  PROVE  IInv'
<1> DEFINE n == Len(result) + 1
           t == [pc |-> "call", call |-> n, token |-> 0, retried |-> FALSE, expired |-> FALSE]
<1>1. /\ result' \in Seq({"none"} \cup Results) /\ Len(result) \in Nat
      /\ DOMAIN result = 1..Len(result) /\ DOMAIN result' = 1..n
      /\ \A c \in DOMAIN result' : result'[c] = IF c = n THEN "none" ELSE result[c]
  BY AppendFacts DEF Call, IInv, ClientTypeOK
<1>2. Len(honoured) = Len(result)
  BY LenProperties DEF IInv, ClientTypeOK
<1>3. /\ honoured' \in Seq(Nat) /\ DOMAIN honoured' = 1..n
      /\ \A c \in DOMAIN honoured' : honoured'[c] = IF c = n THEN 0 ELSE honoured[c]
  BY <1>2, AppendFacts DEF Call, IInv, ClientTypeOK
<1>4. t \in Busy
  BY <1>1, ClientAssumption DEF Call, Busy
<1>5. /\ work' \in [Workers -> {Idle} \cup Busy] /\ work'[w] = t
      /\ \A v \in Workers : v # w => work'[v] = work[v]
  BY <1>4, WorkFacts DEF Call
<1> HIDE DEF n
<1>6. n = Len(result) + 1 /\ n \in Nat
  BY <1>1 DEF n
<1>7. ClientTypeOK'
  BY <1>1, <1>3, <1>5 DEF IInv, ClientTypeOK, Call, Tokens
<1>8. Pending' /\ Apart'
  <2>1. \A v \in Workers : IsBusy(v)' /\ v # w => IsBusy(v) /\ work'[v] = work[v]
    BY <1>5 DEF IsBusy
  <2>2. \A v \in Workers : IsBusy(v) => work[v].call \in DOMAIN result /\ work[v].call # n
    BY <1>1, <1>6 DEF IInv, Pending
  <2>3. work'[w].call = n /\ n \in 1..n
    BY <1>5, <1>6
  <2>4. \A c \in DOMAIN result : c \in 1..n
    BY <1>1, <1>6
  <2>5. Pending'
    BY <1>1, <1>3, <2>1, <2>2, <2>3, <2>4 DEF IInv, Pending
  <2>6. Apart'
    BY <2>1, <2>2, <2>3 DEF IInv, Apart
  <2> QED
    BY <2>5, <2>6
<1>9. Standing'
  BY <1>5 DEF IInv, Standing, Stands, IsBusy, Call
<1>10. HonouredOnce' /\ DOMAIN honoured' = DOMAIN result'
  BY <1>1, <1>3, <1>6 DEF IInv, HonouredOnce, Results
<1> QED
  BY <1>7, <1>8, <1>9, <1>10 DEF IInv

\* A handler moves on and the tokens stay.
LEMMA Moves ==
  ASSUME IInv, NEW w \in Workers, IsBusy(w), NEW t \in Busy, t.call = work[w].call,
         work' = [work EXCEPT ![w] = t], UNCHANGED <<token, issued, valid, honoured, result>>,
         Stands(t, token, valid), t.pc = "wait" => t.token \in Tokens
  PROVE  IInv'
<1>1. /\ work' \in [Workers -> {Idle} \cup Busy] /\ work'[w] = t
      /\ \A v \in Workers : v # w => work'[v] = work[v]
  BY WorkFacts
<1>2. /\ Pending' /\ Apart' /\ HonouredOnce' /\ (DOMAIN honoured = DOMAIN result)'
  BY CallGoesOn
<1>3. ClientTypeOK'
  BY <1>1 DEF IInv, ClientTypeOK, Tokens
<1>4. Standing'
  BY <1>1 DEF IInv, Standing, IsBusy
<1> QED
  BY <1>2, <1>3, <1>4 DEF IInv

\* Taking the shared token keeps the invariant.
LEMMA HaveTokenKeeps ==
  ASSUME IInv, NEW w \in Workers, HaveToken(w)
  PROVE  IInv'
<1> DEFINE pc == IF token = 0 THEN "login" ELSE "send"
           t == [work[w] EXCEPT !.pc = pc]
<1>1. IsBusy(w) /\ work[w] \in Busy
  BY BusyFacts DEF HaveToken, At, IsBusy
<1>2. t \in Busy /\ t.call = work[w].call /\ t.pc = pc /\ t.retried = work[w].retried
  BY <1>1 DEF Busy
<1>3. work' = [work EXCEPT ![w] = t]
  BY DEF HaveToken, Goto
<1>4. ~work[w].retried
  BY <1>1 DEF IInv, Standing, Stands, HaveToken, At
<1> HIDE DEF t
<1>5. Stands(t, token, valid) /\ t.pc # "wait"
  BY <1>2, <1>4 DEF Stands
<1> QED
  BY <1>1, <1>2, <1>3, <1>5, Moves DEF HaveToken

\* A login the panel grants keeps the invariant.
LEMMA LoginKeeps ==
  ASSUME IInv, NEW w \in Workers, Login(w)
  PROVE  IInv'
<1> DEFINE s == [work[w] EXCEPT !.pc = "save"]
           t == [s EXCEPT !.token = issued']
<1>1. IsBusy(w) /\ work[w] \in Busy
  BY BusyFacts DEF Login, At, IsBusy
<1>2. issued' = issued + 1 /\ issued \in Nat /\ valid' = valid \cup {issued'}
  BY DEF Login, IInv, ClientTypeOK
<1>3. s \in Busy /\ s.call = work[w].call /\ s.pc = "save"
  BY <1>1 DEF Busy
<1>4. work' = [work EXCEPT ![w] = t]
  BY DEF Login
<1> HIDE DEF s
<1>5. t \in Busy /\ t.call = work[w].call /\ t.pc = "save" /\ t.token = issued'
  BY <1>2, <1>3 DEF Busy
<1> HIDE DEF t
<1>6. /\ work' \in [Workers -> {Idle} \cup Busy] /\ work'[w] = t
      /\ \A v \in Workers : v # w => work'[v] = work[v]
  BY <1>4, <1>5, WorkFacts
<1>7. Pending' /\ Apart' /\ HonouredOnce' /\ (DOMAIN honoured = DOMAIN result)'
  BY <1>1, <1>4, <1>5, CallGoesOn DEF Login
<1>8. ClientTypeOK'
  <2>1. token' \in 0..issued' /\ valid' \subseteq 1..issued' /\ issued' \in Nat
    BY <1>2 DEF Login, IInv, ClientTypeOK, Tokens
  <2>2. \A v \in Workers : work'[v].pc = "wait" => work'[v].token \in 1..issued'
    BY <1>2, <1>5, <1>6 DEF IInv, ClientTypeOK, Tokens
  <2> QED
    BY <1>6, <2>1, <2>2 DEF Login, IInv, ClientTypeOK, Tokens
<1>9. Standing'
  BY <1>2, <1>5, <1>6 DEF IInv, Standing, Stands, IsBusy, Login
<1> QED
  BY <1>7, <1>8, <1>9 DEF IInv

\* Sharing a fresh token keeps the invariant.
LEMMA SaveTokenKeeps ==
  ASSUME IInv, NEW w \in Workers, SaveToken(w)
  PROVE  IInv'
<1> DEFINE t == [work[w] EXCEPT !.pc = "send"]
<1>1. IsBusy(w) /\ work[w] \in Busy
  BY BusyFacts DEF SaveToken, At, IsBusy
<1>2. t \in Busy /\ t.call = work[w].call /\ t.pc = "send"
  BY <1>1 DEF Busy
<1>3. work' = [work EXCEPT ![w] = t]
  BY DEF SaveToken, Goto
<1>4. token' \in valid /\ token' \in 1..issued /\ issued \in Nat
  <2>1. Stands(work[w], token, valid) /\ work[w].pc = "save" /\ token' = work[w].token
    BY <1>1 DEF SaveToken, At, IInv, Standing
  <2> QED
    BY <2>1 DEF Stands, IInv, ClientTypeOK, Tokens
<1> HIDE DEF t
<1>5. /\ work' \in [Workers -> {Idle} \cup Busy] /\ work'[w] = t
      /\ \A v \in Workers : v # w => work'[v] = work[v]
  BY <1>2, <1>3, WorkFacts
<1>6. Pending' /\ Apart' /\ HonouredOnce' /\ (DOMAIN honoured = DOMAIN result)'
  BY <1>1, <1>2, <1>3, CallGoesOn DEF SaveToken
<1>7. ClientTypeOK'
  <2>1. token' \in 0..issued'
    BY <1>4 DEF SaveToken
  <2>2. \A v \in Workers : work'[v].pc = "wait" => work'[v].token \in Tokens
    BY <1>2, <1>5 DEF IInv, ClientTypeOK
  <2> QED
    BY <1>5, <2>1, <2>2 DEF IInv, ClientTypeOK, Tokens, SaveToken
<1>8. Standing'
  BY <1>2, <1>4, <1>5 DEF IInv, Standing, Stands, IsBusy, SaveToken
<1> QED
  BY <1>6, <1>7, <1>8 DEF IInv

\* Sending the request keeps the invariant.
LEMMA SendKeeps ==
  ASSUME IInv, NEW w \in Workers, Send(w)
  PROVE  IInv'
<1> DEFINE s == [work[w] EXCEPT !.pc = "wait"]
           t == [s EXCEPT !.token = token]
<1>1. IsBusy(w) /\ work[w] \in Busy
  BY BusyFacts DEF Send, At, IsBusy
<1>2. /\ s \in Busy /\ s.call = work[w].call /\ s.pc = "wait"
      /\ s.retried = work[w].retried /\ s.expired = work[w].expired
  BY <1>1 DEF Busy
<1>3. work' = [work EXCEPT ![w] = t]
  BY DEF Send
<1>4. token \in Tokens /\ token \in Nat
  BY <1>1 DEF Send, At, IInv, ClientTypeOK, Standing, Stands, Tokens
<1> HIDE DEF s
<1>5. /\ t \in Busy /\ t.call = work[w].call /\ t.pc = "wait" /\ t.token = token
      /\ t.retried = work[w].retried /\ t.expired = work[w].expired
  BY <1>2, <1>4 DEF Busy
<1> HIDE DEF t
<1>6. Stands(t, token, valid)
  BY <1>1, <1>5 DEF IInv, Standing, Stands, Send, At
<1> QED
  BY <1>1, <1>3, <1>4, <1>5, <1>6, Moves DEF Send

\* A 401, before the retry and after it, keeps the invariant.
LEMMA UnauthorizedKeeps ==
  ASSUME IInv, NEW w \in Workers, Unauthorized(w)
  PROVE  IInv'
<1>1. IsBusy(w) /\ work[w] \in Busy
  BY BusyFacts DEF Unauthorized, At, IsBusy
<1>2. CASE work[w].retried
  BY <1>1, <1>2, CallEnds DEF Unauthorized, Results
<1>3. CASE ~work[w].retried
  <2> DEFINE s == [work[w] EXCEPT !.pc = "login"]
             t == [s EXCEPT !.retried = TRUE]
  <2>1. s \in Busy /\ s.call = work[w].call /\ s.pc = "login"
    BY <1>1 DEF Busy
  <2>2. work' = [work EXCEPT ![w] = t] /\ UNCHANGED result
    BY <1>3 DEF Unauthorized
  <2> HIDE DEF s
  <2>3. t \in Busy /\ t.call = work[w].call /\ t.pc = "login"
    BY <2>1 DEF Busy
  <2> HIDE DEF t
  <2>4. Stands(t, token, valid)
    BY <2>3 DEF Stands
  <2> QED
    BY <1>1, <2>2, <2>3, <2>4, Moves DEF Unauthorized
<1> QED
  BY <1>2, <1>3

\* Every other end of a call keeps the invariant.
LEMMA EndingsKeep ==
  ASSUME IInv, NEW w \in Workers, LoginFails(w) \/ Answered(w) \/ Refused(w) \/ NetworkFails(w)
  PROVE  IInv'
<1>1. IsBusy(w)
  BY DEF LoginFails, Answered, Refused, NetworkFails, Accepted, At, IsBusy
<1>2. CASE LoginFails(w)
  BY <1>1, <1>2, CallEnds DEF LoginFails, Results
<1>3. CASE Answered(w)
  BY <1>1, <1>3, CallEnds DEF Answered, Results
<1>4. CASE Refused(w)
  BY <1>1, <1>4, CallEnds DEF Refused, Results
<1>5. CASE NetworkFails(w)
  BY <1>1, <1>5, CallEnds DEF NetworkFails, Results
<1> QED
  BY <1>2, <1>3, <1>4, <1>5

\* A token that expires disturbs every row at once, and keeps the invariant.
LEMMA ExpireKeeps ==
  ASSUME IInv, NEW x \in Tokens, Expire(x)
  PROVE  IInv'
<1>1. \A w \in Workers : IsBusy(w) =>
        /\ work'[w] \in Busy /\ work'[w].expired
        /\ work'[w].pc = work[w].pc /\ work'[w].call = work[w].call
        /\ work'[w].token = work[w].token /\ work'[w].retried = work[w].retried
  <2> SUFFICES ASSUME NEW w \in Workers, IsBusy(w)
               PROVE  /\ work'[w] \in Busy /\ work'[w].expired
                      /\ work'[w].pc = work[w].pc /\ work'[w].call = work[w].call
                      /\ work'[w].token = work[w].token /\ work'[w].retried = work[w].retried
    OBVIOUS
  <2>1. work[w] \in Busy
    BY BusyFacts
  <2>2. work'[w] = [work[w] EXCEPT !.expired = TRUE]
    BY DEF Expire, At, IsBusy
  <2> QED
    BY <2>1, <2>2 DEF Busy
<1>2. \A w \in Workers : ~IsBusy(w) => work'[w] = Idle
  BY DEF Expire, At, IsBusy
<1>3. \A w \in Workers : IsBusy(w)' <=> IsBusy(w)
  BY <1>1, <1>2 DEF IsBusy, Idle
<1>4. ClientTypeOK'
  <2>1. work' \in [Workers -> {Idle} \cup Busy]
    BY <1>1, <1>2 DEF Expire
  <2>2. \A w \in Workers : work'[w].pc = "wait" => work'[w].token \in Tokens
    BY <1>1, <1>2, <1>3 DEF IInv, ClientTypeOK, IsBusy
  <2> QED
    BY <2>1, <2>2 DEF Expire, IInv, ClientTypeOK, Tokens
<1>5. Pending' /\ Apart'
  <2>1. UNCHANGED <<honoured, result>>
    BY DEF Expire
  <2>2. Pending'
    BY <1>1, <1>3, <2>1 DEF IInv, Pending
  <2>3. Apart'
    BY <1>1, <1>3, <2>1 DEF IInv, Apart
  <2> QED
    BY <2>2, <2>3
<1>6. Standing'
  <2> SUFFICES ASSUME NEW w \in Workers, IsBusy(w)'
               PROVE  Stands(work'[w], token', valid')
    BY DEF Standing
  <2>1. IsBusy(w) /\ Stands(work[w], token, valid)
    BY <1>3 DEF IInv, Standing
  <2>2. work[w].pc = "save" => work[w].token \in valid'
    BY <2>1 DEF Expire, At, Stands
  <2>3. token' = token
    BY DEF Expire
  <2> QED
    BY <1>1, <2>1, <2>2, <2>3 DEF Stands
<1>7. HonouredOnce' /\ (DOMAIN honoured = DOMAIN result)'
  BY DEF IInv, HonouredOnce, Expire
<1> QED
  BY <1>4, <1>5, <1>6, <1>7 DEF IInv

\* Every step keeps the invariant.
LEMMA StepKeeps == IInv /\ [Next]_clientVars => IInv'
<1> SUFFICES ASSUME IInv, [Next]_clientVars PROVE IInv'
  OBVIOUS
<1>1. CASE UNCHANGED clientVars
  BY <1>1 DEF IInv, ClientTypeOK, Tokens, Pending, Apart, Standing, IsBusy, HonouredOnce, clientVars
<1>2. ASSUME NEW w \in Workers, Call(w) \/ Step(w) PROVE IInv'
  BY <1>2, CallKeeps, HaveTokenKeeps, LoginKeeps, SaveTokenKeeps, SendKeeps,
     UnauthorizedKeeps, EndingsKeep DEF Step
<1>3. ASSUME NEW x \in Tokens, Expire(x) PROVE IInv'
  BY <1>3, ExpireKeeps
<1> QED
  BY <1>1, <1>2, <1>3 DEF Next

\* Hence it always holds.
LEMMA Invariance == Spec => []IInv
BY InitHolds, StepKeeps, PTL DEF Spec

-----------------------------------------------------------------------------
(* The theorems.                                                           *)

(* The token stays among those the panel has given out, and no request is  *)
(* in flight without one, however the handlers' steps interleave.          *)
THEOREM ClientTypeCorrect == Spec => []ClientTypeOK
<1>1. IInv => ClientTypeOK
  BY DEF IInv
<1> QED
  BY <1>1, Invariance, PTL

(* However many handlers share the token, the retry after a 401 repeats no *)
(* request the panel has honoured, and what a call returns is the truth.   *)
THEOREM CallsAreHonouredOnce == Spec => []HonouredOnce
<1>1. IInv => HonouredOnce
  BY DEF IInv
<1> QED
  BY <1>1, Invariance, PTL

(* One fresh login is enough: a call whose retry is answered 401 too saw a *)
(* token expire while it ran, however many handlers log in and overwrite   *)
(* each other's token.                                                     *)
THEOREM StaleTokensHeal == Spec => StaleTokenHeals
<1> DEFINE Heals == \A w \in Workers :
             work[w].pc # "idle" /\ result'[work[w].call] = "unauthorized"
             => work[w].expired
<1>1. IInv /\ [Next]_clientVars => [Heals]_clientVars
  <2> SUFFICES ASSUME IInv, Next, NEW w \in Workers, IsBusy(w),
                      result'[work[w].call] = "unauthorized"
               PROVE  work[w].expired
    BY DEF IsBusy
  <2>1. work[w] \in Busy /\ work[w].call \in DOMAIN result /\ result[work[w].call] = "none"
    BY BusyFacts DEF IInv, Pending
  <2>2. ASSUME NEW v \in Workers, Call(v) PROVE FALSE
    BY <2>1, <2>2, AppendFacts DEF Call, IInv, ClientTypeOK
  <2>3. ASSUME NEW v \in Workers, NEW r \in Results, Return(v, r), IsBusy(v)
        PROVE  v = w /\ r = "unauthorized"
    <3>1. work[v].call \in DOMAIN result
      BY <2>3 DEF IInv, Pending
    <3>2. result'[work[w].call] = IF work[w].call = work[v].call THEN r ELSE "none"
      BY <2>1, <2>3, <3>1, ExceptFacts DEF IInv, ClientTypeOK, Return
    <3> QED
      BY <2>3, <3>2 DEF IInv, Apart
  <2>4. ~UNCHANGED result
    BY <2>1
  <2>5. \A v \in Workers : ~HaveToken(v) /\ ~Login(v) /\ ~SaveToken(v) /\ ~Send(v)
    BY <2>4 DEF HaveToken, Login, SaveToken, Send
  <2>6. \A x : ~Expire(x)
    BY <2>4 DEF Expire
  <2>7. \A v \in Workers : ~LoginFails(v) /\ ~Answered(v) /\ ~Refused(v) /\ ~NetworkFails(v)
    BY <2>3 DEF LoginFails, Answered, Refused, NetworkFails, Accepted, At, IsBusy, Results
  <2>8. PICK v \in Workers : Unauthorized(v)
    BY <2>2, <2>5, <2>6, <2>7 DEF Next, Step
  <2>9. work[v].retried /\ Return(v, "unauthorized")
    BY <2>4, <2>8 DEF Unauthorized
  <2>10. v = w
    BY <2>3, <2>8, <2>9 DEF Unauthorized, At, IsBusy, Results
  <2> QED
    BY <2>1, <2>8, <2>9, <2>10 DEF IInv, Standing, Stands, Unauthorized, At, IsBusy, Busy
<1>2. Spec => [][Heals]_clientVars
  BY <1>1, Invariance, PTL DEF Spec
<1> QED
  BY <1>2 DEF StaleTokenHeals
-----------------------------------------------------------------------------
(* What the caller of the panel can rely on.                               *)

\* How many steps are left of a handler's call at most: the second round is
\* as long as the first, without the look at the token before it.
Left(t) ==
  IF t.pc = "idle" THEN 0
  ELSE (CASE t.pc = "call" -> 5 [] t.pc = "login" -> 4 [] t.pc = "save" -> 3
          [] t.pc = "send" -> 2 [] t.pc = "wait" -> 1)
       + (IF t.retried THEN 0 ELSE 4)

\* A call that runs has a step left, and no more than nine.
LEMMA LeftIsACount ==
  ASSUME NEW t \in {Idle} \cup Busy
  PROVE  Left(t) \in 0..9 /\ (t.pc # "idle" => Left(t) > 0)
BY DEF Left, Idle, Busy

\* A handler's own step brings its call nearer to its end.
LEMMA StepIsNearer ==
  ASSUME IInv, NEW w \in Workers, Step(w)
  PROVE  /\ IsBusy(w)
         /\ Left(work'[w]) < Left(work[w])
         /\ \A v \in Workers : v # w => work'[v] = work[v]
<1>1. IsBusy(w) /\ work[w] \in Busy
  BY BusyFacts DEF Step, HaveToken, Login, LoginFails, SaveToken, Send, Answered, Refused,
     Unauthorized, NetworkFails, Accepted, At, IsBusy
<1>2. PICK t : t = work[w]
  OBVIOUS
<1>3. work \in [Workers -> {Idle} \cup Busy]
  BY DEF IInv, ClientTypeOK
<1>4. ASSUME NEW u, work' = [work EXCEPT ![w] = u], Left(u) < Left(t)
      PROVE  Left(work'[w]) < Left(work[w]) /\ \A v \in Workers : v # w => work'[v] = work[v]
  BY <1>2, <1>3, <1>4
<1>5. \A r : Return(w, r) => work' = [work EXCEPT ![w] = Idle]
  BY DEF Return
<1>6. Left(Idle) < Left(t)
  BY <1>1, <1>2 DEF Left, Idle, Busy
<1>7. CASE LoginFails(w) \/ Answered(w) \/ Refused(w) \/ NetworkFails(w)
  BY <1>1, <1>4, <1>5, <1>6, <1>7 DEF LoginFails, Answered, Refused, NetworkFails
<1>8. CASE HaveToken(w)
  <2> DEFINE u == [t EXCEPT !.pc = IF token = 0 THEN "login" ELSE "send"]
  <2>1. work' = [work EXCEPT ![w] = u]
    BY <1>2, <1>8 DEF HaveToken, Goto
  <2>2. t.pc = "call"
    BY <1>2, <1>8 DEF HaveToken, At
  <2>3. u.pc \in {"login", "send"} /\ u.retried = t.retried
    BY <1>1, <1>2 DEF Busy
  <2> HIDE DEF u
  <2>4. Left(u) < Left(t)
    BY <2>2, <2>3 DEF Left
  <2> QED
    BY <1>1, <1>4, <2>1, <2>4
<1>9. CASE Login(w)
  <2> DEFINE s == [t EXCEPT !.pc = "save"]
             u == [s EXCEPT !.token = issued']
  <2>1. work' = [work EXCEPT ![w] = u]
    BY <1>2, <1>9 DEF Login
  <2>2. t.pc = "login"
    BY <1>2, <1>9 DEF Login, At
  <2>3. s \in Busy /\ s.pc = "save" /\ s.retried = t.retried
    BY <1>1, <1>2 DEF Busy
  <2> HIDE DEF s
  <2>4. u.pc = "save" /\ u.retried = t.retried
    BY <2>3 DEF Busy
  <2> HIDE DEF u
  <2>5. Left(u) < Left(t)
    BY <2>2, <2>4 DEF Left
  <2> QED
    BY <1>1, <1>4, <2>1, <2>5
<1>10. CASE SaveToken(w)
  <2> DEFINE u == [t EXCEPT !.pc = "send"]
  <2>1. work' = [work EXCEPT ![w] = u]
    BY <1>2, <1>10 DEF SaveToken, Goto
  <2>2. t.pc = "save"
    BY <1>2, <1>10 DEF SaveToken, At
  <2>3. u.pc = "send" /\ u.retried = t.retried
    BY <1>1, <1>2 DEF Busy
  <2> HIDE DEF u
  <2>4. Left(u) < Left(t)
    BY <2>2, <2>3 DEF Left
  <2> QED
    BY <1>1, <1>4, <2>1, <2>4
<1>11. CASE Send(w)
  <2> DEFINE s == [t EXCEPT !.pc = "wait"]
             u == [s EXCEPT !.token = token]
  <2>1. work' = [work EXCEPT ![w] = u]
    BY <1>2, <1>11 DEF Send
  <2>2. t.pc = "send"
    BY <1>2, <1>11 DEF Send, At
  <2>3. s \in Busy /\ s.pc = "wait" /\ s.retried = t.retried
    BY <1>1, <1>2 DEF Busy
  <2> HIDE DEF s
  <2>4. u.pc = "wait" /\ u.retried = t.retried
    BY <2>3 DEF Busy
  <2> HIDE DEF u
  <2>5. Left(u) < Left(t)
    BY <2>2, <2>4 DEF Left
  <2> QED
    BY <1>1, <1>4, <2>1, <2>5
<1>12. CASE Unauthorized(w)
  <2>1. CASE work[w].retried
    BY <1>1, <1>4, <1>5, <1>6, <1>12, <2>1 DEF Unauthorized
  <2>2. CASE ~work[w].retried
    <3> DEFINE s == [t EXCEPT !.pc = "login"]
               u == [s EXCEPT !.retried = TRUE]
    <3>1. work' = [work EXCEPT ![w] = u]
      BY <1>2, <1>12, <2>2 DEF Unauthorized
    <3>2. t.pc = "wait" /\ ~t.retried
      BY <1>2, <1>12, <2>2 DEF Unauthorized, At
    <3>3. s \in Busy /\ s.pc = "login"
      BY <1>1, <1>2 DEF Busy
    <3> HIDE DEF s
    <3>4. u.pc = "login" /\ u.retried
      BY <3>3 DEF Busy
    <3> HIDE DEF u
    <3>5. Left(u) < Left(t)
      BY <3>2, <3>4 DEF Left
    <3> QED
      BY <1>1, <1>4, <3>1, <3>5
  <2> QED
    BY <2>1, <2>2
<1> QED
  BY <1>7, <1>8, <1>9, <1>10, <1>11, <1>12 DEF Step

(* A call has at most nine steps left, its own steps bring it nearer to    *)
(* its end, and no step of anybody else takes it back: it retries once     *)
(* however often the token expires or is overwritten (call, do).           *)
CallsEnd ==
  [][\A w \in Workers :
       /\ Step(w) => Left(work'[w]) < Left(work[w])
       /\ work[w].pc # "idle" => Left(work'[w]) <= Left(work[w])]_clientVars

(* The part of CallsReturn that needs no fairness: a handler that is       *)
(* scheduled leaves the client after nine steps of its own, two logins and *)
(* two requests among them.                                                *)
THEOREM CallsComeToAnEnd ==
  Spec => /\ CallsEnd
          /\ [](\A w \in Workers : Left(work[w]) \in 0..9
                                   /\ (work[w].pc # "idle" => Left(work[w]) > 0))
<1> DEFINE Bounded == \A w \in Workers : Left(work[w]) \in 0..9
                                          /\ (work[w].pc # "idle" => Left(work[w]) > 0)
           Nearer == \A w \in Workers :
                       /\ Step(w) => Left(work'[w]) < Left(work[w])
                       /\ work[w].pc # "idle" => Left(work'[w]) <= Left(work[w])
<1>1. IInv => Bounded
  BY LeftIsACount DEF IInv, ClientTypeOK
<1>2. IInv /\ [Next]_clientVars => [Nearer]_clientVars
  <2> SUFFICES ASSUME IInv, Next, NEW w \in Workers
               PROVE  /\ Step(w) => Left(work'[w]) < Left(work[w])
                      /\ IsBusy(w) => Left(work'[w]) <= Left(work[w])
    BY DEF IsBusy
  <2>1. Left(work[w]) \in 0..9
    BY LeftIsACount DEF IInv, ClientTypeOK
  <2>2. Step(w) => Left(work'[w]) < Left(work[w])
    BY StepIsNearer
  <2>3. ASSUME IsBusy(w) PROVE Left(work'[w]) <= Left(work[w])
    <3>1. ASSUME NEW v \in Workers, Call(v) PROVE work'[w] = work[w]
      BY <2>3, <3>1 DEF Call, At, IsBusy, IInv, ClientTypeOK
    <3>2. ASSUME NEW v \in Workers, Step(v)
          PROVE  work'[w] = work[w] \/ Left(work'[w]) < Left(work[w])
      BY <3>2, StepIsNearer
    <3>3. ASSUME NEW x \in Tokens, Expire(x) PROVE Left(work'[w]) = Left(work[w])
      <4>1. work'[w] = [work[w] EXCEPT !.expired = TRUE] /\ work[w] \in Busy
        BY <2>3, <3>3, BusyFacts DEF Expire, At, IsBusy
      <4>2. work'[w].pc = work[w].pc /\ work'[w].retried = work[w].retried
        BY <4>1 DEF Busy
      <4> QED
        BY <4>2 DEF Left
    <3>4. Left(work'[w]) = Left(work[w]) \/ Left(work'[w]) < Left(work[w])
      BY <3>1, <3>2, <3>3 DEF Next
    <3>5. Left(work'[w]) \in Int
      <4>1. work'[w] \in {Idle} \cup Busy
        BY StepKeeps DEF IInv, ClientTypeOK
      <4> QED
        BY <4>1, LeftIsACount
    <3> QED
      BY <2>1, <3>4, <3>5
  <2> QED
    BY <2>2, <2>3
<1>3. Spec => [][Nearer]_clientVars
  BY <1>2, Invariance, PTL DEF Spec
<1>4. Spec => []Bounded
  BY <1>1, Invariance, PTL
<1> QED
  BY <1>3, <1>4 DEF CallsEnd

(* What a call returned is final, and the panel carries a call out only as *)
(* it returns: with success, or with an error that hides the answer.  So   *)
(* to its caller a call is one step with one of three ends: done, not      *)
(* done, or done and reported as an error.                                 *)
AnswersFinal ==
  [][\A c \in DOMAIN result :
       /\ result[c] # "none" => result'[c] = result[c] /\ honoured'[c] = honoured[c]
       /\ result[c] = "none" =>
            \/ result'[c] = "none" /\ honoured'[c] = honoured[c]
            \/ result'[c] = "ok" /\ honoured'[c] = 1
            \/ result'[c] = "unauthorized" /\ honoured'[c] = 0
            \/ result'[c] = "error" /\ honoured'[c] \in {0, 1}]_clientVars

\* A call that ends changes its own answer and nothing else.
LEMMA EndIsAnswer ==
  ASSUME IInv, NEW w \in Workers, IsBusy(w), NEW r \in Results, Return(w, r),
         \/ UNCHANGED honoured /\ r # "ok"
         \/ Honour(w) /\ r # "unauthorized",
         NEW c \in DOMAIN result
  PROVE  /\ c # work[w].call => result'[c] = result[c] /\ honoured'[c] = honoured[c]
         /\ c = work[w].call =>
              /\ result[c] = "none" /\ result'[c] = r
              /\ honoured'[c] \in {0, 1}
              /\ r = "ok" => honoured'[c] = 1
              /\ r = "unauthorized" => honoured'[c] = 0
<1>1. PICK d : d = work[w].call
  OBVIOUS
<1>2. d \in DOMAIN result /\ result[d] = "none" /\ honoured[d] = 0 /\ DOMAIN honoured = DOMAIN result
  BY <1>1 DEF IInv, Pending
<1>3. result'[c] = IF c = d THEN r ELSE result[c]
  BY <1>1, <1>2, ExceptFacts DEF IInv, ClientTypeOK, Return
<1>4. CASE UNCHANGED honoured /\ r # "ok"
  BY <1>1, <1>2, <1>3, <1>4
<1>5. CASE Honour(w) /\ r # "unauthorized"
  <2>1. honoured' = [honoured EXCEPT ![d] = 1]
    BY <1>1, <1>2, <1>5 DEF Honour
  <2>2. honoured'[c] = IF c = d THEN 1 ELSE honoured[c]
    BY <1>2, <2>1, ExceptFacts DEF IInv, ClientTypeOK
  <2> QED
    BY <1>1, <1>2, <1>3, <1>5, <2>2
<1> QED
  BY <1>4, <1>5

(* A call is atomic to its caller, although it takes up to nine steps      *)
(* beside those of the other handlers: it is carried out only in the step  *)
(* in which it returns, and no later step changes what became of it.       *)
THEOREM AnswersAreFinal == Spec => AnswersFinal
<1> DEFINE Final == \A c \in DOMAIN result :
       /\ result[c] # "none" => result'[c] = result[c] /\ honoured'[c] = honoured[c]
       /\ result[c] = "none" =>
            \/ result'[c] = "none" /\ honoured'[c] = honoured[c]
            \/ result'[c] = "ok" /\ honoured'[c] = 1
            \/ result'[c] = "unauthorized" /\ honoured'[c] = 0
            \/ result'[c] = "error" /\ honoured'[c] \in {0, 1}
<1>1. IInv /\ [Next]_clientVars => [Final]_clientVars
  <2> SUFFICES ASSUME IInv, Next PROVE Final
    OBVIOUS
  <2>1. UNCHANGED <<result, honoured>> => Final
    OBVIOUS
  <2>2. ASSUME NEW w \in Workers, IsBusy(w), NEW r \in Results, Return(w, r),
               \/ UNCHANGED honoured /\ r # "ok"
               \/ Honour(w) /\ r # "unauthorized"
        PROVE  Final
    BY <2>2, EndIsAnswer DEF Results
  <2>3. ASSUME NEW w \in Workers, Call(w) PROVE Final
    <3>1. \A c \in DOMAIN result : result'[c] = result[c]
      BY <2>3, AppendFacts DEF Call, IInv, ClientTypeOK, Results
    <3>2. \A c \in DOMAIN honoured : honoured'[c] = honoured[c]
      BY <2>3, AppendFacts DEF Call, IInv, ClientTypeOK
    <3> QED
      BY <3>1, <3>2 DEF IInv
  <2>4. ASSUME NEW w \in Workers, Step(w) PROVE Final
    <3>1. IsBusy(w)
      BY <2>4, StepIsNearer
    <3>2. CASE HaveToken(w) \/ Login(w) \/ SaveToken(w) \/ Send(w)
      BY <2>1, <3>2 DEF HaveToken, Login, SaveToken, Send
    <3>3. CASE LoginFails(w) \/ Refused(w)
      <4>1. Return(w, "error") /\ UNCHANGED honoured
        BY <3>3 DEF LoginFails, Refused
      <4> QED
        BY <2>2, <3>1, <4>1 DEF Results
    <3>4. CASE Answered(w)
      <4>1. Return(w, "ok") /\ Honour(w)
        BY <3>4 DEF Answered
      <4> QED
        BY <2>2, <3>1, <4>1 DEF Results
    <3>5. CASE NetworkFails(w)
      <4>1. Return(w, "error") /\ (UNCHANGED honoured \/ Honour(w))
        BY <3>5 DEF NetworkFails
      <4> QED
        BY <2>2, <3>1, <4>1 DEF Results
    <3>6. CASE Unauthorized(w)
      <4>1. UNCHANGED honoured /\ (UNCHANGED result \/ Return(w, "unauthorized"))
        BY <3>6 DEF Unauthorized
      <4> QED
        BY <2>1, <2>2, <3>1, <4>1 DEF Results
    <3> QED
      BY <2>4, <3>2, <3>3, <3>4, <3>5, <3>6 DEF Step
  <2>5. ASSUME NEW x \in Tokens, Expire(x) PROVE Final
    BY <2>1, <2>5 DEF Expire
  <2> QED
    BY <2>3, <2>4, <2>5 DEF Next
<1>2. Spec => [][Final]_clientVars
  BY <1>1, Invariance, PTL DEF Spec
<1> QED
  BY <1>2 DEF AnswersFinal
=============================================================================

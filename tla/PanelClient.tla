---------------------------- MODULE PanelClient -----------------------------
(***************************************************************************)
(* One call of the panel's API, internal/panel/client.go: log in when there*)
(* is no token, send the request, and after a 401 log in and send it once  *)
(* more.  The token is shared by all the handlers and guarded by c.mu,     *)
(* which is held for one read or one write, so other calls run in between. *)
(*                                                                         *)
(* The panel is external: it gives out tokens, refuses a request that      *)
(* carries none of those still valid before it does anything, and may      *)
(* honour a request whose answer never arrives.                            *)
(***************************************************************************)
EXTENDS Integers, Sequences, FiniteSets

CONSTANTS
  Workers,      \* handlers that may call the panel at the same time
  MaxCalls      \* bound: calls ever made

ASSUME ClientAssumption == MaxCalls \in Nat

VARIABLES
  token,        \* c.token; 0 is the empty string
  issued,       \* tokens the panel has given out: 1..issued
  valid,        \* those it still accepts
  work,         \* work[w]: where the handler is, its call and its locals
  honoured,     \* honoured[c]: how often the panel carried call c out
  result        \* result[c]: what call c returned, or "none" so far

clientVars == <<token, issued, valid, work, honoured, result>>

Tokens == 1..issued

\* What a call may return: "unauthorized" is a second 401.
Results == {"ok", "unauthorized", "error"}

\* retried says that the 401 of this call has been seen; expired is history:
\* a token became invalid while the call was running.
Idle == [pc |-> "idle"]

Busy == [pc: {"call", "login", "save", "send", "wait"}, call: 1..MaxCalls,
         token: Nat, retried: BOOLEAN, expired: BOOLEAN]

Init ==
  /\ token = 0 /\ issued = 0 /\ valid = {}
  /\ work = [w \in Workers |-> Idle]
  /\ honoured = << >>
  /\ result = << >>

-----------------------------------------------------------------------------
(* call and Login.                                                         *)

At(w, pc) == work[w].pc = pc

Goto(w, pc) == work' = [work EXCEPT ![w].pc = pc]

Return(w, r) ==
  /\ result' = [result EXCEPT ![work[w].call] = r]
  /\ work' = [work EXCEPT ![w] = Idle]

Call(w) ==
  /\ At(w, "idle") /\ Len(result) < MaxCalls
  /\ result' = Append(result, "none")
  /\ honoured' = Append(honoured, 0)
  /\ work' = [work EXCEPT ![w] = [pc |-> "call", call |-> Len(result) + 1, token |-> 0,
                                  retried |-> FALSE, expired |-> FALSE]]
  /\ UNCHANGED <<token, issued, valid>>

\* Mutant: the first request goes out with whatever is there.
SendAnyway(w) ==
  /\ At(w, "call")
  /\ Goto(w, "send")
  /\ UNCHANGED <<token, issued, valid, honoured, result>>

\* haveToken is read under the lock and acted upon after it.
HaveToken(w) ==
  /\ At(w, "call")
  /\ Goto(w, IF token = 0 THEN "login" ELSE "send")
  /\ UNCHANGED <<token, issued, valid, honoured, result>>

Login(w) ==
  /\ At(w, "login")
  /\ issued' = issued + 1
  /\ valid' = valid \cup {issued'}
  /\ work' = [work EXCEPT ![w].pc = "save", ![w].token = issued']
  /\ UNCHANGED <<token, honoured, result>>

\* Mutant: a failed login starts the call over.
LoginFailsForever(w) ==
  /\ At(w, "login")
  /\ work' = [work EXCEPT ![w].pc = "call", ![w].retried = FALSE]
  /\ UNCHANGED <<token, issued, valid, honoured, result>>

\* Unreachable, refused, or no token in the answer: the call fails with it.
LoginFails(w) ==
  /\ At(w, "login")
  /\ Return(w, "error")
  /\ UNCHANGED <<token, issued, valid, honoured>>

\* Mutant: a token that is already there is kept.
SaveTokenOnce(w) ==
  /\ At(w, "save")
  /\ token' = IF token = 0 THEN work[w].token ELSE token
  /\ Goto(w, "send")
  /\ UNCHANGED <<issued, valid, honoured, result>>

SaveToken(w) ==
  /\ At(w, "save")
  /\ token' = work[w].token
  /\ Goto(w, "send")
  /\ UNCHANGED <<issued, valid, honoured, result>>

\* do: the token sent is the shared one of this moment, whoever fetched it.
Send(w) ==
  /\ At(w, "send")
  /\ work' = [work EXCEPT ![w].pc = "wait", ![w].token = token]
  /\ UNCHANGED <<token, issued, valid, honoured, result>>

-----------------------------------------------------------------------------
(* The panel's answer.                                                     *)

Honour(w) == honoured' = [honoured EXCEPT ![work[w].call] = @ + 1]

Accepted(w) == At(w, "wait") /\ work[w].token \in valid

Answered(w) ==
  /\ Accepted(w)
  /\ Honour(w)
  /\ Return(w, "ok")
  /\ UNCHANGED <<token, issued, valid>>

\* 404, 409, 5xx: an answer, and not an authorization problem.
Refused(w) ==
  /\ Accepted(w)
  /\ Return(w, "error")
  /\ UNCHANGED <<token, issued, valid, honoured>>

Unauthorized(w) ==
  /\ At(w, "wait") /\ work[w].token \notin valid
  /\ IF work[w].retried
     THEN Return(w, "unauthorized")
     ELSE /\ work' = [work EXCEPT ![w].pc = "login", ![w].retried = TRUE]
          /\ UNCHANGED result
  /\ UNCHANGED <<token, issued, valid, honoured>>

\* Mutant: any failure is retried like a 401.
NetworkFailsRetried(w) ==
  /\ At(w, "wait")
  /\ \/ Accepted(w) /\ Honour(w)
     \/ UNCHANGED honoured
  /\ IF work[w].retried
     THEN Return(w, "error")
     ELSE /\ work' = [work EXCEPT ![w].pc = "login", ![w].retried = TRUE]
          /\ UNCHANGED result
  /\ UNCHANGED <<token, issued, valid>>

\* A transport error or the 20s timeout, before or after the panel acted.
NetworkFails(w) ==
  /\ At(w, "wait")
  /\ \/ Accepted(w) /\ Honour(w)
     \/ UNCHANGED honoured
  /\ Return(w, "error")
  /\ UNCHANGED <<token, issued, valid>>

\* A token outlives the login that fetched it: it is valid for hours, and the
\* answer to a login is dropped after 20s.
Expire(t) ==
  /\ t \in valid
  /\ \A w \in Workers : At(w, "save") => work[w].token # t
  /\ valid' = valid \ {t}
  /\ work' = [w \in Workers |-> IF At(w, "idle") THEN Idle
                                ELSE [work[w] EXCEPT !.expired = TRUE]]
  /\ UNCHANGED <<token, issued, honoured, result>>

-----------------------------------------------------------------------------
Step(w) ==
  \/ HaveToken(w) \/ Login(w) \/ LoginFails(w) \/ SaveToken(w) \/ Send(w)
  \/ Answered(w) \/ Refused(w) \/ Unauthorized(w) \/ NetworkFails(w)

Next ==
  \/ \E w \in Workers : Call(w) \/ Step(w)
  \/ \E t \in Tokens : Expire(t)

Spec == Init /\ [][Next]_clientVars

\* Handlers are scheduled and every HTTP call ends, by its timeout if need be.
FairSpec == Spec /\ \A w \in Workers : WF_clientVars(Step(w))
-----------------------------------------------------------------------------
(* Properties.                                                             *)

(* The token, the panel's tokens and the handlers' locals are well formed, *)
(* and no request is in flight without a token.                            *)
ClientTypeOK ==
  /\ issued \in Nat /\ token \in 0..issued /\ valid \subseteq Tokens
  /\ work \in [Workers -> {Idle} \cup Busy]
  /\ \A w \in Workers : work[w].pc = "wait" => work[w].token \in Tokens
  /\ honoured \in Seq(Nat)
  /\ result \in Seq({"none"} \cup Results)

(* A retry never repeats a request the panel has honoured, whatever other  *)
(* handlers do to the shared token, and call reports success exactly for   *)
(* what was honoured, failure with an open end only for a lost answer.     *)
HonouredOnce ==
  \A c \in DOMAIN result :
    /\ honoured[c] <= 1
    /\ result[c] = "ok" => honoured[c] = 1
    /\ result[c] = "unauthorized" => honoured[c] = 0

(* "Tokens expire.  One fresh login and one retry" (client.go:223): a call *)
(* that started with a token long gone still goes through; it is answered  *)
(* 401 in the end only if a token expired while it was running, even when  *)
(* another handler's login overwrites the token in between.                *)
StaleTokenHeals ==
  [][\A w \in Workers :
       work[w].pc # "idle" /\ result'[work[w].call] = "unauthorized"
       => work[w].expired]_clientVars

(* Every call returns, also when the panel is down or refuses every login. *)
CallsReturn ==
  \A w \in Workers : (work[w].pc # "idle") ~> (work[w].pc = "idle")
=============================================================================

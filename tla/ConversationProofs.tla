-------------------------- MODULE ConversationProofs --------------------------
(***************************************************************************)
(* Proofs about Conversation: for any people, owners, handlers, settings   *)
(* and updates, who gets as far as doing something was entitled to it, and *)
(* had answered all that was asked.                                        *)
(***************************************************************************)
EXTENDS Conversation, FiniteSetTheorems, TLAPS

-----------------------------------------------------------------------------
(* The forms.                                                              *)

\* Every conversation asks one to five questions.
LEMMA FormFacts ==
  /\ DOMAIN Form = {"pladd", "dcadd", "um", "u", "se", "admadd", "bc", "dc", "top"}
  /\ \A f \in DOMAIN Form : DOMAIN Form[f] = 1..Len(Form[f]) /\ Len(Form[f]) \in 1..5
  /\ Len(Form["bc"]) = 1 /\ Len(Form["dc"]) = 1 /\ Len(Form["top"]) = 1
  /\ Len(Form["u"]) = 1 /\ Len(Form["se"]) = 1 /\ Len(Form["admadd"]) = 1
BY DEF Form

\* The names of conversations and those of other buttons.
LEMMA FormNames ==
  /\ CustomerForms \subseteq DOMAIN Form
  /\ AdminForms = {"pladd", "dcadd", "um", "u", "se", "admadd", "bc"}
  /\ \A f \in DOMAIN Form : f \in AdminForms \/ f \in CustomerForms
  /\ "act" \notin DOMAIN Form /\ "ub" \notin DOMAIN Form /\ "admdel" \notin DOMAIN Form
  /\ "bcgo" \notin DOMAIN Form /\ "order" \notin DOMAIN Form /\ "photo" \notin DOMAIN Form
BY FormFacts DEF AdminForms, CustomerForms

-----------------------------------------------------------------------------
(* The invariant.                                                          *)

\* Whoever points to a session finds the answers to all it asked for up to its
\* step, and perhaps others from before it went back; and it waits for more
\* text, or for the button that confirms it.
Fits(s) ==
  /\ s \in Session
  /\ 1..(s.at - 1) \subseteq s.filled /\ s.filled \subseteq DOMAIN Form[s.form]
  /\ s.at <= Len(Form[s.form]) \/ Confirming(s)

\* A step that was read of a session, whatever became of it since.
Asked(at, s) ==
  /\ at \in 0..5 /\ 1..(at - 1) \subseteq s.filled
  /\ at <= Len(Form[s.form]) \/ (s.form = "bc" /\ at = 2)

\* The answer to it is kept, and there is a step after it.
Kept(at, s) ==
  /\ at \in 1..4 /\ 1..at \subseteq s.filled
  /\ at + 1 <= Len(Form[s.form]) \/ (s.form = "bc" /\ at = 1)

AllAnswered(t) ==
  /\ t.what \in DOMAIN Form => t.filled = DOMAIN Form[t.what]
  /\ t.what = "bcgo" => t.filled = DOMAIN Form["bc"]

\* What a handler has behind it, by the place it is at.
Stands(w, t) ==
  /\ t.pc # "idle" =>
       /\ t.pc \in {"check", "input", "answer", "advance", "choose", "send"} <=> t.session # 0
       /\ t.pc # "gate" => w \in welcome
  /\ t.pc \in {"admin", "choose", "exempt", "send"} => w \in entitled
  /\ t.pc = "admin" => t.what \in AdminTaps
  /\ t.pc = "exempt" => t.what = "ub"
  /\ t.pc = "send" => t.what = "bcgo" /\ Confirming(heap[t.user][t.session])
  /\ t.pc \in {"input", "answer", "advance"} =>
       w \in entitled \/ heap[t.user][t.session].form \in CustomerForms
  /\ t.pc = "answer" => Asked(t.at, heap[t.user][t.session])
  /\ t.pc = "advance" => Kept(t.at, heap[t.user][t.session])
  /\ t.pc = "commit" =>
       /\ t.what \in AdminEffects => w \in entitled
       /\ t.what \in OwnerTaps => t.user \in Owners
       /\ t.what = "admadd" => t.target \notin Owners
       /\ AllAnswered(t)

SessionsOK ==
  /\ heap \in [People -> [Sessions -> Session]]
  /\ \A u \in People, i \in Sessions : Fits(heap[u][i])
  /\ current \in [People -> {0} \cup Sessions]

ConversationInv ==
  /\ admins \subseteq People \ Owners /\ blocked \subseteq People
  /\ SessionsOK
  /\ task \in [Workers -> {Idle} \cup Busy]
  /\ \A w \in Workers : Stands(w, task[w])

-----------------------------------------------------------------------------
(* The heap.                                                               *)

\* What may happen to a session somebody points to: it stays what it is for
\* and loses no answer, and one that waits for its button goes on waiting.
Same(s, t) ==
  t.form = s.form /\ s.filled \subseteq t.filled /\ (Confirming(s) => Confirming(t))

Respected ==
  \A u \in People, i \in Sessions :
    i \in Live(u) /\ i \in Live(u)' => Same(heap[u][i], heap'[u][i])

\* Objects are numbered from 1, one more than there are handlers.
LEMMA SessionNumbers == ConversationAssumption => 0 \notin Sessions /\ Sessions \subseteq Nat
  /\ Cardinality(Workers) \in Nat /\ Sessions = 1..(Cardinality(Workers) + 1)
BY FS_CardinalityType DEF ConversationAssumption, Sessions

\* A session is begun with nothing answered.
LEMMA FreshFits ==
  ASSUME ConversationAssumption, NEW f \in DOMAIN Form,
         NEW s, s = [form |-> f, at |-> 1, filled |-> {}, key |-> NoKey]
  PROVE  Fits(s) /\ s \in Session /\ s.form = f
<1>1. s.form = f /\ s.at = 1 /\ s.filled = {}
  OBVIOUS
<1>2. s \in Session
  BY DEF Session
<1>3. Len(Form[f]) \in 1..5
  BY FormFacts
<1>4. 1..(1 - 1) = {}
  OBVIOUS
<1>5. s.at <= Len(Form[s.form])
  BY <1>1, <1>3
<1>6. 1..(s.at - 1) \subseteq s.filled /\ s.filled \subseteq DOMAIN Form[s.form]
  BY <1>1, <1>4
<1> QED
  BY <1>1, <1>2, <1>5, <1>6 DEF Fits

\* An object that was collected asks for nothing yet.
LEMMA BlankFits == ASSUME ConversationAssumption PROVE Fits(Blank) /\ Blank \in Session
<1>1. "pladd" \in DOMAIN Form
  BY FormFacts
<1> QED
  BY <1>1, FreshFits DEF Blank

\* Collecting what nobody points to leaves sessions that fit.
LEMMA HeapStep ==
  ASSUME ConversationAssumption, NEW h \in [People -> [Sessions -> Session]], Heap(h),
         \A u \in People, i \in Sessions : Fits(h[u][i])
  PROVE  /\ heap' \in [People -> [Sessions -> Session]]
         /\ \A u \in People, i \in Sessions : Fits(heap'[u][i])
         /\ \A u \in People, i \in Sessions : i \in Live(u)' => heap'[u][i] = h[u][i]
<1>1. Fits(Blank) /\ Blank \in Session
  BY BlankFits
<1>2. heap' = [u \in People |-> [i \in Sessions |-> IF i \in Live(u)' THEN h[u][i] ELSE Blank]]
  BY DEF Heap
<1>3. \A u \in People, i \in Sessions :
        /\ heap'[u][i] = IF i \in Live(u)' THEN h[u][i] ELSE Blank
        /\ h[u][i] \in Session
  BY <1>2
<1>4. heap' \in [People -> [Sessions -> Session]]
  BY <1>1, <1>2, <1>3
<1> QED
  BY <1>1, <1>3, <1>4

-----------------------------------------------------------------------------
(* How a step is taken.                                                    *)

\* Who is entitled or welcome stays so until the handler ends, and who is an
\* admin when a step is done is entitled.
LEMMA Histories ==
  ASSUME Track, NEW w \in Workers, task'[w].pc # "idle"
  PROVE  /\ w \in entitled /\ task[w].pc # "idle" => w \in entitled'
         /\ w \in welcome /\ task[w].pc # "idle" => w \in welcome'
         /\ task'[w].user \in Owners \cup admins' => w \in entitled' /\ w \in welcome'
         /\ task'[w].user \in People \ blocked' => w \in welcome'
BY DEF Track, Since, At, Admins

\* A handler that does not move stands where it stood.
LEMMA OthersStand ==
  ASSUME ConversationInv, ConversationAssumption, NEW v \in Workers, task'[v] = task[v],
         Respected, Track
  PROVE  Stands(v, task[v])'
<1>1. PICK t : t = task[v]
  OBVIOUS
<1>2. t \in {Idle} \cup Busy /\ Stands(v, t) /\ task'[v] = t
  BY <1>1 DEF ConversationInv
<1>3. CASE t = Idle
  BY <1>2, <1>3 DEF Stands, Idle
<1>4. CASE t \in Busy /\ t.pc # "idle"
  <2>1. t.user \in People /\ t.session \in {0} \cup Sessions
    BY <1>4 DEF Busy
  <2>2. t.pc \in {"send", "input", "answer", "advance"} =>
          /\ t.session \in Sessions
          /\ t.session \in Live(t.user) /\ t.session \in Live(t.user)'
    BY <1>1, <1>2, <1>4, <2>1 DEF Stands, Live, At, User
  <2>3. t.pc \in {"send", "input", "answer", "advance"} =>
          Same(heap[t.user][t.session], heap'[t.user][t.session])
    BY <2>1, <2>2 DEF Respected
  <2>4. /\ v \in entitled => v \in entitled'
        /\ v \in welcome => v \in welcome'
    BY <1>1, <1>2, <1>4, Histories
  <2>5. Stands(v, t)'
    BY <1>2, <2>3, <2>4 DEF Stands, Same, AllAnswered, Asked, Kept
  <2> QED
    BY <1>2, <2>5 DEF Stands, AllAnswered, Asked, Kept
<1>5. t \in Busy => t.pc # "idle"
  BY DEF Busy
<1> QED
  BY <1>2, <1>3, <1>4, <1>5

\* Handlers whose rows change must stand; the others stand where they stood.
LEMMA Moves ==
  ASSUME ConversationInv, ConversationAssumption, NEW W \in SUBSET Workers,
         admins' \subseteq People \ Owners, blocked' \subseteq People,
         SessionsOK', Respected, Track,
         task' \in [Workers -> {Idle} \cup Busy],
         \A v \in Workers \ W : task'[v] = task[v],
         \A v \in W : Stands(v, task[v])'
  PROVE  ConversationInv'
<1>1. \A v \in Workers : Stands(v, task[v])'
  BY OthersStand
<1> QED
  BY <1>1 DEF ConversationInv

\* One handler's row is replaced.
LEMMA RowMoves ==
  ASSUME ConversationInv, ConversationAssumption, NEW w \in Workers,
         NEW t \in {Idle} \cup Busy, task' = [task EXCEPT ![w] = t],
         admins' \subseteq People \ Owners, blocked' \subseteq People,
         SessionsOK', Respected, Track, Stands(w, t)'
  PROVE  ConversationInv'
<1>1. /\ task' \in [Workers -> {Idle} \cup Busy] /\ task'[w] = t
      /\ \A v \in Workers \ {w} : task'[v] = task[v]
  BY DEF ConversationInv
<1>2. \A v \in {w} : Stands(v, task[v])'
  BY <1>1 DEF Stands, AllAnswered, Asked, Kept
<1>3. PICK W \in SUBSET Workers : W = {w}
  OBVIOUS
<1>4. /\ \A v \in Workers \ W : task'[v] = task[v]
      /\ \A v \in W : Stands(v, task[v])'
  BY <1>1, <1>2, <1>3
<1> QED
  BY <1>1, <1>4, Moves

\* A handler that has ended has nothing behind it.
LEMMA IdleStands == \A w : Stands(w, Idle)'
BY DEF Stands, Idle

\* One handler ends.
LEMMA Ends ==
  ASSUME ConversationInv, ConversationAssumption, NEW w \in Workers,
         task' = [task EXCEPT ![w] = Idle], UNCHANGED <<admins, blocked>>,
         SessionsOK', Respected, Track
  PROVE  ConversationInv'
<1>1. admins' \subseteq People \ Owners /\ blocked' \subseteq People
  BY DEF ConversationInv
<1> QED
  BY <1>1, IdleStands, RowMoves

\* The sessions themselves are not written to.
LEMMA HeapKept ==
  ASSUME ConversationInv, ConversationAssumption, UNCHANGED heap \/ Heap(heap),
         current' \in [People -> {0} \cup Sessions]
  PROVE  SessionsOK' /\ Respected
<1>1. CASE UNCHANGED heap
  BY <1>1 DEF ConversationInv, SessionsOK, Fits, Confirming, Respected, Same
<1>2. CASE Heap(heap)
  <2>1. PICK h : h = heap
    OBVIOUS
  <2>2. /\ h \in [People -> [Sessions -> Session]] /\ Heap(h)
        /\ \A u \in People, i \in Sessions : Fits(h[u][i])
    BY <1>2, <2>1 DEF ConversationInv, SessionsOK, Heap
  <2>3. /\ heap' \in [People -> [Sessions -> Session]]
        /\ \A u \in People, i \in Sessions : Fits(heap'[u][i])
        /\ \A u \in People, i \in Sessions : i \in Live(u)' => heap'[u][i] = h[u][i]
    BY <2>2, HeapStep
  <2>4. SessionsOK'
    BY <2>3 DEF SessionsOK, Fits, Confirming
  <2> QED
    BY <2>1, <2>3, <2>4 DEF Respected, Same
<1> QED
  BY <1>1, <1>2

\* One session is written to.
LEMMA HeapPut ==
  ASSUME ConversationInv, ConversationAssumption, NEW u \in People, NEW i \in Sessions,
         NEW s, Fits(s), Heap([heap EXCEPT ![u][i] = s]),
         i \in Live(u) => Same(heap[u][i], s),
         current' \in [People -> {0} \cup Sessions]
  PROVE  SessionsOK' /\ Respected /\ (i \in Live(u)' => heap'[u][i] = s)
<1>1. PICK h : h = [heap EXCEPT ![u][i] = s]
  OBVIOUS
<1>2. heap \in [People -> [Sessions -> Session]] /\ s \in Session
  BY DEF ConversationInv, SessionsOK, Fits
<1>3. /\ h \in [People -> [Sessions -> Session]]
      /\ \A v \in People, j \in Sessions :
           h[v][j] = IF v = u /\ j = i THEN s ELSE heap[v][j]
  BY <1>1, <1>2
<1>4. \A v \in People, j \in Sessions : Fits(h[v][j])
  BY <1>3 DEF ConversationInv, SessionsOK
<1>5. Heap(h)
  BY <1>1 DEF Heap
<1>6. /\ heap' \in [People -> [Sessions -> Session]]
      /\ \A v \in People, j \in Sessions : Fits(heap'[v][j])
      /\ \A v \in People, j \in Sessions : j \in Live(v)' => heap'[v][j] = h[v][j]
  BY <1>3, <1>4, <1>5, HeapStep
<1>7. SessionsOK'
  BY <1>6 DEF SessionsOK, Fits, Confirming
<1>8. Respected
  BY <1>3, <1>6 DEF Respected, Same
<1> QED
  BY <1>3, <1>6, <1>7, <1>8

\* A handler's row is replaced, and nothing is written to a session.
LEMMA HandlerMoves ==
  ASSUME ConversationInv, ConversationAssumption, NEW w \in Workers,
         NEW t \in {Idle} \cup Busy, task' = [task EXCEPT ![w] = t],
         admins' \subseteq People \ Owners, blocked' \subseteq People,
         UNCHANGED heap \/ Heap(heap), current' \in [People -> {0} \cup Sessions],
         Track, Stands(w, t)'
  PROVE  ConversationInv'
<1>1. SessionsOK' /\ Respected
  BY HeapKept
<1> QED
  BY <1>1, RowMoves

\* Clearing a session leaves the map well formed.
LEMMA CurrentKept ==
  ASSUME ConversationInv, NEW u \in People, UNCHANGED current \/ ClearSession(u)
  PROVE  current' \in [People -> {0} \cup Sessions]
BY DEF ConversationInv, SessionsOK, ClearSession

\* The handler's row, and what it knows of the user.
LEMMA RowOf ==
  ASSUME ConversationInv, NEW w \in Workers
  PROVE  /\ task[w] \in {Idle} \cup Busy /\ Stands(w, task[w])
         /\ task[w].pc # "idle" => task[w] \in Busy
         /\ task[w] \in Busy => /\ task[w].pc # "idle"
                                /\ task[w].user \in People /\ task[w].target \in People
                                /\ task[w].session \in {0} \cup Sessions
                                /\ task[w].value \in Values \cup {"block", "unblock"}
                                /\ task[w].key \in Keys \cup {NoKey}
BY DEF ConversationInv, Busy, Idle

\* The handler only goes on, or ends, as one of the cases of a step.
LEMMA Passes ==
  ASSUME ConversationInv, ConversationAssumption, NEW w \in Workers, Track,
         NEW pc, Pass(w, pc), task[w].pc # "idle",
         NEW t, t = [task[w] EXCEPT !.pc = pc], t \in Busy, Stands(w, t)'
  PROVE  ConversationInv'
<1>1. task' = [task EXCEPT ![w] = t]
  BY DEF Pass, Goto, ConversationInv
<1>2. UNCHANGED <<heap, admins, blocked, current>>
  BY DEF Pass, tables
<1>3. current' \in [People -> {0} \cup Sessions] /\ admins' \subseteq People \ Owners
      /\ blocked' \subseteq People
  BY <1>2 DEF ConversationInv, SessionsOK
<1> QED
  BY <1>1, <1>2, <1>3, HandlerMoves

\* A handler that ends keeps the invariant.
LEMMA Returns ==
  ASSUME ConversationInv, ConversationAssumption, NEW w \in Workers, Track,
         task[w].pc # "idle", Return(w) \/ ClearAndReturn(w)
  PROVE  ConversationInv'
<1>1. task' = [task EXCEPT ![w] = Idle] /\ Heap(heap) /\ UNCHANGED <<admins, blocked>>
  BY DEF Return, ClearAndReturn, Finish, tables
<1>2. User(w) \in People
  BY RowOf DEF User
<1>3. current' \in [People -> {0} \cup Sessions]
  BY <1>2, CurrentKept DEF Return, ClearAndReturn
<1> QED
  BY <1>1, <1>3, IdleStands, HandlerMoves DEF ConversationInv

-----------------------------------------------------------------------------
(* Steps that only move the program counter, or end the handler.           *)

\* A row with another program counter.
LEMMA PcRow ==
  ASSUME NEW r \in Busy, NEW pc \in {"route", "admin", "input", "exempt", "commit"},
         NEW t, t = [r EXCEPT !.pc = pc]
  PROVE  /\ t \in Busy /\ t.pc = pc /\ t.user = r.user /\ t.what = r.what
         /\ t.session = r.session /\ t.filled = r.filled /\ t.target = r.target
BY DEF Busy

\* The checks of who may go on, each at its own moment.
LEMMA PassingSteps ==
  ASSUME ConversationInv, ConversationAssumption, NEW w \in Workers, Track,
         LetIn(w) \/ OnInput(w) \/ AdminTap(w) \/ Act(w) \/ Exempt(w)
  PROVE  ConversationInv'
<1>1. PICK r : r = task[w]
  OBVIOUS
<1>2. /\ task[w].pc # "idle" /\ r \in Busy /\ Stands(w, r)
      /\ task \in [Workers -> {Idle} \cup Busy]
  <2>1. task[w].pc # "idle"
    BY DEF LetIn, OnInput, AdminTap, Act, Exempt, At
  <2> QED
    BY <1>1, <2>1, RowOf DEF ConversationInv
<1>3. CASE Return(w) \/ ClearAndReturn(w)
  BY <1>2, <1>3, Returns
<1>4. ASSUME NEW pc \in {"route", "admin", "input", "exempt", "commit"}, Pass(w, pc),
             pc = "route" => User(w) \in Admins /\ r.pc = "gate",
             pc = "input" => User(w) \in Admins /\ r.pc = "check",
             pc = "admin" => User(w) \in Admins /\ r.pc = "route" /\ r.what \in AdminTaps,
             pc = "commit" => \/ r.pc = "admin" /\ r.what = "act"
                              \/ r.pc = "exempt",
             pc # "exempt"
      PROVE  ConversationInv'
  <2>1. PICK t : t = [r EXCEPT !.pc = pc]
    OBVIOUS
  <2>2. /\ t \in Busy /\ t.pc = pc /\ t.user = r.user /\ t.what = r.what
        /\ t.session = r.session /\ t.filled = r.filled /\ t.target = r.target
    BY <1>2, <2>1, PcRow
  <2>3. task'[w] = t /\ admins' = admins
    BY <1>1, <1>2, <1>4, <2>1 DEF Pass, Goto, tables
  <2>4. /\ w \in entitled => w \in entitled'
        /\ w \in welcome => w \in welcome'
        /\ User(w) \in Admins => w \in entitled' /\ w \in welcome'
    BY <1>1, <1>2, <1>4, <2>2, <2>3, Histories DEF User, Admins
  <2>5. pc = "commit" => AllAnswered(t) /\ t.what \notin OwnerTaps /\ t.what # "admadd"
    BY <1>2, <1>4, <2>2, FormNames DEF Stands, AllAnswered, OwnerTaps
  <2>6. Stands(w, t)'
    BY <1>2, <1>4, <2>2, <2>4, <2>5 DEF Stands, AllAnswered
  <2> QED
    BY <1>1, <1>2, <1>4, <2>1, <2>2, <2>6, Passes
<1>5. CASE LetIn(w)
  BY <1>1, <1>3, <1>4, <1>5 DEF LetIn, At
<1>6. CASE OnInput(w)
  BY <1>1, <1>3, <1>4, <1>6 DEF OnInput, At
<1>7. CASE AdminTap(w)
  BY <1>1, <1>3, <1>4, <1>7 DEF AdminTap, At, What
<1>8. CASE Act(w)
  BY <1>1, <1>3, <1>4, <1>8 DEF Act, At, What
<1>9. CASE Exempt(w)
  BY <1>1, <1>3, <1>4, <1>9 DEF Exempt, At
<1> QED
  BY <1>5, <1>6, <1>7, <1>8, <1>9

\* Steps that only end the handler, and perhaps the session.
LEMMA EndingSteps ==
  ASSUME ConversationInv, ConversationAssumption, NEW w \in Workers, Track,
         Clear(w) \/ NothingToMake(w) \/ AskAgain(w) \/ AdminHome(w) \/ CommitFails(w)
  PROVE  ConversationInv'
<1>1. task[w].pc # "idle" /\ (Return(w) \/ ClearAndReturn(w))
  BY DEF Clear, NothingToMake, AskAgain, AdminHome, CommitFails, At
<1> QED
  BY <1>1, Returns

\* An update comes in: the gate stops whom it finds blocked.
LEMMA ArrivingStep ==
  ASSUME ConversationInv, ConversationAssumption, NEW w \in Workers, Track,
         NEW u \in People, NEW what \in Updates[u], Arrive(w, u, what)
  PROVE  ConversationInv'
<1>1. PICK pc : pc = IF u \in blocked THEN "gate" ELSE "route"
  OBVIOUS
<1>2. PICK t : t = [pc |-> pc, user |-> u, what |-> what, session |-> 0, at |-> 0,
                    filled |-> {}, key |-> NoKey, target |-> u, value |-> "blank"]
  OBVIOUS
<1>3. t \in Busy /\ t.pc = pc /\ t.user = u /\ t.session = 0 /\ pc \in {"gate", "route"}
  <2>1. what \in CustomerTaps \cup AdminTaps \cup Messages
    BY UpdatesAssumption DEF UpdatesAssumption
  <2> QED
    BY <1>1, <1>2, <2>1 DEF Busy, Values
<1>4. task' = [task EXCEPT ![w] = t] /\ UNCHANGED <<admins, blocked, heap, current>>
  BY <1>1, <1>2 DEF Arrive, Receive, tables
<1>5. task'[w] = t
  BY <1>4 DEF ConversationInv
<1>6. pc = "route" => w \in welcome'
  BY <1>1, <1>3, <1>4, <1>5, Histories
<1>7. Stands(w, t)'
  BY <1>3, <1>6 DEF Stands
<1>8. current' \in [People -> {0} \cup Sessions] /\ admins' \subseteq People \ Owners
      /\ blocked' \subseteq People
  BY <1>4 DEF ConversationInv, SessionsOK
<1> QED
  BY <1>3, <1>4, <1>7, <1>8, HandlerMoves

\* /admin of a customer is read as text.
LEMMA SlashAdminStep ==
  ASSUME ConversationInv, ConversationAssumption, NEW w \in Workers, Track, SlashAdmin(w)
  PROVE  ConversationInv'
<1>1. PICK r : r = task[w]
  OBVIOUS
<1>2. task[w].pc # "idle" /\ r.pc = "route" /\ r \in Busy /\ Stands(w, r)
      /\ task \in [Workers -> {Idle} \cup Busy]
  BY <1>1, RowOf DEF SlashAdmin, At, ConversationInv
<1>3. CASE ClearAndReturn(w)
  BY <1>2, <1>3, Returns
<1>4. CASE /\ task' = [task EXCEPT ![w].what = "text"]
           /\ UNCHANGED <<tables, heap, current>>
  <2>1. PICK t : t = [r EXCEPT !.what = "text"]
    OBVIOUS
  <2>2. t \in Busy /\ t.pc = "route" /\ t.session = r.session /\ t.user = r.user
    BY <1>2, <2>1 DEF Busy, Messages
  <2>3. task' = [task EXCEPT ![w] = t] /\ task'[w] = t
    BY <1>1, <1>2, <1>4, <2>1
  <2>4. w \in welcome => w \in welcome'
    BY <1>2, <2>2, <2>3, Histories
  <2>5. Stands(w, t)'
    BY <1>2, <2>2, <2>4 DEF Stands
  <2>6. current' \in [People -> {0} \cup Sessions] /\ admins' \subseteq People \ Owners
        /\ blocked' \subseteq People /\ UNCHANGED heap
    BY <1>4 DEF ConversationInv, SessionsOK, tables
  <2> QED
    BY <2>2, <2>3, <2>5, <2>6, HandlerMoves
<1> QED
  BY <1>3, <1>4 DEF SlashAdmin

\* A handler takes the session that is in the map.
LEMMA TakingSteps ==
  ASSUME ConversationInv, ConversationAssumption, NEW w \in Workers, Track,
         OnText(w) \/ Confirm(w)
  PROVE  ConversationInv'
<1>1. PICK r : r = task[w]
  OBVIOUS
<1>2. task[w].pc # "idle" /\ r \in Busy /\ Stands(w, r)
      /\ task \in [Workers -> {Idle} \cup Busy] /\ r.user \in People
  <2>1. task[w].pc # "idle"
    BY DEF OnText, Confirm, At
  <2> QED
    BY <1>1, <2>1, RowOf DEF ConversationInv
<1>3. CASE Return(w)
  BY <1>2, <1>3, Returns
<1>4. PICK i : i = current[r.user]
  OBVIOUS
<1>5. i \in {0} \cup Sessions
  BY <1>2, <1>4 DEF ConversationInv, SessionsOK
<1>6. ASSUME NEW pc \in {"check", "input", "send"}, i # 0,
             task' = [task EXCEPT ![w].pc = pc, ![w].session = i],
             UNCHANGED <<tables, heap, current>>,
             r.pc \in {"route", "admin"},
             pc = "input" => heap[r.user][i].form \in CustomerForms,
             pc = "send" => r.pc = "admin" /\ r.what = "bcgo" /\ Confirming(heap[r.user][i])
      PROVE  ConversationInv'
  <2>0. PICK y : y = [r EXCEPT !.pc = pc]
    OBVIOUS
  <2>1. PICK t : t = [y EXCEPT !.session = i]
    OBVIOUS
  <2>2. i \in Sessions
    BY <1>5, <1>6
  <2>3. t \in Busy /\ t.pc = pc /\ t.user = r.user /\ t.what = r.what /\ t.session = i
    <3>1. y \in Busy /\ y.pc = pc /\ y.user = r.user /\ y.what = r.what
      BY <1>2, <2>0 DEF Busy
    <3> QED
      BY <2>1, <2>2, <3>1 DEF Busy
  <2>4. task' = [task EXCEPT ![w] = t] /\ task'[w] = t
    <3>1. task' = [task EXCEPT ![w] = t]
      BY <1>1, <1>2, <1>6, <2>0, <2>1
    <3> QED
      BY <1>2, <3>1
  <2>5. /\ w \in entitled => w \in entitled'
        /\ w \in welcome => w \in welcome'
    BY <1>1, <1>2, <2>3, <2>4, Histories
  <2>6. i # 0 /\ UNCHANGED heap
    BY <1>6
  <2>7. Stands(w, t)'
    BY <1>2, <1>6, <2>3, <2>5, <2>6 DEF Stands, Confirming
  <2>8. current' \in [People -> {0} \cup Sessions] /\ admins' \subseteq People \ Owners
        /\ blocked' \subseteq People
    BY <1>6 DEF ConversationInv, SessionsOK, tables
  <2> QED
    BY <2>3, <2>4, <2>6, <2>7, <2>8, HandlerMoves
<1>7. CASE OnText(w)
  <2>1. i = 0 => Return(w)
    BY <1>1, <1>4, <1>7 DEF OnText, User
  <2>2. ASSUME i # 0 PROVE ConversationInv'
    <3>1. PICK pc : pc = IF heap[r.user][i].form \in AdminForms THEN "check" ELSE "input"
      OBVIOUS
    <3>2. /\ task' = [task EXCEPT ![w].pc = pc, ![w].session = i]
          /\ UNCHANGED <<tables, heap, current>> /\ r.pc = "route"
      BY <1>1, <1>4, <1>7, <2>2, <3>1 DEF OnText, User, At
    <3>3. heap[r.user][i].form \in DOMAIN Form
      BY <1>2, <1>5, <2>2 DEF ConversationInv, SessionsOK, Session
    <3>4. pc = "input" => heap[r.user][i].form \in CustomerForms
      BY <3>1, <3>3, FormNames
    <3> QED
      BY <1>6, <2>2, <3>1, <3>2, <3>4
  <2> QED
    BY <1>3, <2>1, <2>2
<1>8. CASE Confirm(w)
  BY <1>1, <1>3, <1>4, <1>6, <1>8 DEF Confirm, User, At, What
<1> QED
  BY <1>7, <1>8

\* The admin's row takes the user to block, and what the flag was.
LEMMA TogglingStep ==
  ASSUME ConversationInv, ConversationAssumption, NEW w \in Workers, Track,
         NEW v \in People, ToggleBlock(w, v)
  PROVE  ConversationInv'
<1>1. PICK r : r = task[w]
  OBVIOUS
<1>2. task[w].pc # "idle" /\ r \in Busy /\ Stands(w, r) /\ r.pc = "admin" /\ r.what = "ub"
      /\ task \in [Workers -> {Idle} \cup Busy]
  BY <1>1, RowOf DEF ToggleBlock, At, What, ConversationInv
<1>3. PICK value : value = IF v \in blocked THEN "unblock" ELSE "block"
  OBVIOUS
<1>4. PICK x : x = [r EXCEPT !.pc = "exempt"]
  OBVIOUS
<1>5. PICK y : y = [x EXCEPT !.target = v]
  OBVIOUS
<1>6. PICK t : t = [y EXCEPT !.value = value]
  OBVIOUS
<1>7. x \in Busy /\ x.pc = "exempt" /\ x.what = r.what /\ x.session = r.session /\ x.user = r.user
  BY <1>2, <1>4 DEF Busy
<1>8. y \in Busy /\ y.pc = "exempt" /\ y.what = r.what /\ y.session = r.session /\ y.user = r.user
  BY <1>5, <1>7 DEF Busy
<1>9. t \in Busy /\ t.pc = "exempt" /\ t.what = r.what /\ t.session = r.session /\ t.user = r.user
  BY <1>3, <1>6, <1>8 DEF Busy
<1>10. task' = [task EXCEPT ![w] = t] /\ task'[w] = t
  <2>1. task' = [task EXCEPT ![w] = t]
    BY <1>1, <1>2, <1>3, <1>4, <1>5, <1>6 DEF ToggleBlock
  <2> QED
    BY <1>2, <2>1
<1>11. /\ w \in entitled => w \in entitled'
       /\ w \in welcome => w \in welcome'
  BY <1>1, <1>2, <1>9, <1>10, Histories
<1>12. Stands(w, t)'
  BY <1>2, <1>9, <1>11 DEF Stands
<1>13. current' \in [People -> {0} \cup Sessions] /\ admins' \subseteq People \ Owners
       /\ blocked' \subseteq People /\ UNCHANGED heap
  BY DEF ConversationInv, SessionsOK, tables, ToggleBlock
<1> QED
  BY <1>9, <1>10, <1>12, <1>13, HandlerMoves

-----------------------------------------------------------------------------
(* Steps that write to a session, or begin one.                            *)

\* The row's session, as the one who has it in hand finds it.
LEMMA InHand ==
  ASSUME ConversationInv, ConversationAssumption, NEW w \in Workers,
         task[w].pc \in {"check", "input", "answer", "advance", "choose", "send"}
  PROVE  /\ User(w) \in People /\ task[w].session \in Sessions
         /\ Conversing(w) = heap[User(w)][task[w].session]
         /\ Fits(Conversing(w)) /\ Conversing(w) \in Session
<1>1. task[w] \in Busy /\ Stands(w, task[w]) /\ task[w].pc # "idle"
  BY RowOf
<1>2. User(w) \in People /\ task[w].session \in Sessions
  BY <1>1, RowOf DEF Stands, User
<1> QED
  BY <1>2 DEF Conversing, ConversationInv, SessionsOK, Fits

\* Who has a session in hand keeps it alive until the handler goes on.
LEMMA StaysLive ==
  ASSUME ConversationInv, ConversationAssumption, NEW w \in Workers,
         NEW t \in Busy, task' = [task EXCEPT ![w] = t], t.session \in Sessions
  PROVE  t.session \in Live(t.user)'
<1>1. task'[w] = t /\ t.pc # "idle"
  BY DEF ConversationInv, Busy
<1> QED
  BY <1>1 DEF Live, At, User

\* The step is read, at the time it is read or in two halves.
LEMMA ReadStepKeeps ==
  ASSUME ConversationInv, ConversationAssumption, NEW w \in Workers, Track, ReadStep(w)
  PROVE  ConversationInv'
<1>1. PICK r : r = task[w]
  OBVIOUS
<1>2. PICK s : s = Conversing(w)
  OBVIOUS
<1>3. /\ task[w].pc # "idle" /\ r.pc = "input" /\ r \in Busy /\ Stands(w, r)
      /\ task \in [Workers -> {Idle} \cup Busy] /\ User(w) \in People
  BY <1>1, RowOf DEF ReadStep, At, User, ConversationInv
<1>4. Fits(s) /\ s \in Session /\ s = heap[r.user][r.session]
  BY <1>1, <1>2, InHand DEF ReadStep, At, User
<1>5. PICK at \in {s.at, 0} : task' = [task EXCEPT ![w].pc = "answer", ![w].at = at]
  BY <1>2 DEF ReadStep
<1>6. Asked(at, s)
  <2>1. CASE at = 0
    <3>1. 1..(at - 1) = {}
      BY <2>1
    <3>2. PICK n : n = Len(Form[s.form])
      OBVIOUS
    <3>3. n \in 1..5
      BY <1>4, <3>2, FormFacts DEF Session
    <3>4. at <= n
      BY <2>1, <3>3
    <3> QED
      BY <2>1, <3>1, <3>2, <3>4 DEF Asked
  <2>2. CASE at = s.at
    BY <1>4, <2>2 DEF Asked, Fits, Session, Confirming
  <2> QED
    BY <2>1, <2>2
<1>7. PICK y : y = [r EXCEPT !.pc = "answer"]
  OBVIOUS
<1>8. PICK t : t = [y EXCEPT !.at = at]
  OBVIOUS
<1>9. /\ y \in Busy /\ y.pc = "answer" /\ y.user = r.user /\ y.what = r.what
      /\ y.session = r.session
  BY <1>3, <1>7 DEF Busy
<1>10. /\ t \in Busy /\ t.pc = "answer" /\ t.user = r.user /\ t.what = r.what
       /\ t.session = r.session /\ t.at = at
  BY <1>6, <1>8, <1>9 DEF Busy, Asked
<1>11. task' = [task EXCEPT ![w] = t] /\ task'[w] = t
  <2>1. task' = [task EXCEPT ![w] = t]
    BY <1>1, <1>3, <1>5, <1>7, <1>8
  <2> QED
    BY <1>3, <2>1
<1>12. /\ w \in entitled => w \in entitled'
       /\ w \in welcome => w \in welcome'
  BY <1>1, <1>3, <1>10, <1>11, Histories
<1>13. UNCHANGED <<admins, blocked, heap, current>>
  BY DEF ReadStep, tables
<1>14. Stands(w, t)'
  BY <1>3, <1>4, <1>6, <1>10, <1>12, <1>13 DEF Stands, Asked
<1>15. current' \in [People -> {0} \cup Sessions] /\ admins' \subseteq People \ Owners
       /\ blocked' \subseteq People
  BY <1>13 DEF ConversationInv, SessionsOK
<1> QED
  BY <1>10, <1>11, <1>13, <1>14, <1>15, HandlerMoves

\* A session with one more answer, to a step that it may have left by now.
LEMMA KeptFits ==
  ASSUME ConversationAssumption, NEW s, Fits(s), NEW at, Asked(at, s), at # 0,
         ~(s.form = "bc" /\ at = 2), at # Len(Form[s.form]) \/ s.form = "bc",
         NEW t, t = [s EXCEPT !.filled = @ \cup {at}]
  PROVE  Fits(t) /\ Same(s, t) /\ Kept(at, t)
<1>1. /\ s.form \in DOMAIN Form /\ s.at \in 0..5 /\ s.filled \in SUBSET (1..5) /\ s \in Session
  BY DEF Fits, Session
<1>2. PICK n : n = Len(Form[s.form])
  OBVIOUS
<1>3. n \in 1..5 /\ DOMAIN Form[s.form] = 1..n
  BY <1>1, <1>2, FormFacts
<1>4. s.form = "bc" => n = 1
  BY <1>2, FormFacts
<1>5. at \in 1..5 /\ at <= n /\ (at + 1 <= n \/ (s.form = "bc" /\ at = 1))
  <2>1. at \in 1..5 /\ at <= n
    BY <1>2 DEF Asked
  <2>2. at # n \/ s.form = "bc"
    BY <1>2
  <2> QED
    BY <1>3, <1>4, <2>1, <2>2
<1>6. at \in 1..4
  BY <1>3, <1>5
<1>7. /\ t \in Session /\ t.form = s.form /\ t.at = s.at /\ t.key = s.key
      /\ t.filled = s.filled \cup {at}
  BY <1>1, <1>6 DEF Session
<1>8. 1..at \subseteq t.filled
  BY <1>5, <1>7 DEF Asked
<1>9. 1..(t.at - 1) \subseteq t.filled /\ t.filled \subseteq DOMAIN Form[t.form]
  BY <1>3, <1>5, <1>7 DEF Fits
<1>10. Fits(t)
  BY <1>7, <1>9 DEF Fits, Confirming
<1>11. Kept(at, t)
  BY <1>2, <1>5, <1>6, <1>7, <1>8 DEF Kept
<1> QED
  BY <1>7, <1>10, <1>11 DEF Same, Confirming

\* One more answer is kept, in a session that others may hold too.
LEMMA KeepKeeps ==
  ASSUME ConversationInv, ConversationAssumption, NEW w \in Workers, Track, Keep(w)
  PROVE  ConversationInv'
<1>1. PICK r : r = task[w]
  OBVIOUS
<1>2. PICK u : u = r.user
  OBVIOUS
<1>3. PICK i : i = r.session
  OBVIOUS
<1>4. PICK s : s = Conversing(w)
  OBVIOUS
<1>5. PICK at : at = r.at
  OBVIOUS
<1>6. PICK z : z = [s EXCEPT !.filled = @ \cup {at}]
  OBVIOUS
<1>7. /\ task[w].pc # "idle" /\ r.pc = "answer" /\ r \in Busy /\ Stands(w, r)
      /\ task \in [Workers -> {Idle} \cup Busy]
  BY <1>1, RowOf DEF Keep, At, ConversationInv
<1>8. /\ u \in People /\ i \in Sessions /\ s = heap[u][i] /\ Fits(s)
      /\ heap \in [People -> [Sessions -> Session]]
  BY <1>1, <1>2, <1>3, <1>4, InHand DEF Keep, At, User, ConversationInv, SessionsOK
<1>9. Asked(at, s)
  BY <1>2, <1>3, <1>5, <1>7, <1>8 DEF Stands
<1>10. at # 0 /\ ~(s.form = "bc" /\ at = 2) /\ (at # Len(Form[s.form]) \/ s.form = "bc")
  BY <1>1, <1>4, <1>5 DEF Keep, AskedToConfirm, AskedLast
<1>11. Fits(z) /\ Same(s, z) /\ Kept(at, z)
  BY <1>6, <1>8, <1>9, <1>10, KeptFits
<1>12. Heap([heap EXCEPT ![u][i] = z])
  <2>1. [heap EXCEPT ![User(w)][task[w].session].filled = @ \cup {task[w].at}]
          = [heap EXCEPT ![u][i] = z]
    BY <1>1, <1>2, <1>3, <1>5, <1>6, <1>8 DEF User
  <2> QED
    BY <2>1 DEF Keep
<1>13. UNCHANGED <<admins, blocked, current>>
  BY DEF Keep, tables
<1>14. current' \in [People -> {0} \cup Sessions]
  BY <1>13 DEF ConversationInv, SessionsOK
<1>15. SessionsOK' /\ Respected /\ (i \in Live(u)' => heap'[u][i] = z)
  BY <1>8, <1>11, <1>12, <1>14, HeapPut
<1>16. PICK t : t = [r EXCEPT !.pc = "advance"]
  OBVIOUS
<1>17. /\ t \in Busy /\ t.pc = "advance" /\ t.user = u /\ t.what = r.what
       /\ t.session = i /\ t.at = at
  BY <1>2, <1>3, <1>5, <1>7, <1>16 DEF Busy
<1>18. task' = [task EXCEPT ![w] = t] /\ task'[w] = t
  <2>1. task' = [task EXCEPT ![w] = t]
    BY <1>1, <1>7, <1>16 DEF Keep, Goto
  <2> QED
    BY <1>7, <2>1
<1>19. heap'[u][i] = z
  BY <1>8, <1>15, <1>17, <1>18, StaysLive
<1>20. /\ w \in entitled => w \in entitled'
       /\ w \in welcome => w \in welcome'
  BY <1>1, <1>7, <1>17, <1>18, Histories
<1>21. w \in entitled \/ z.form \in CustomerForms
  BY <1>2, <1>3, <1>7, <1>8, <1>11 DEF Stands, Same
<1>22. Stands(w, t)'
  BY <1>7, <1>8, <1>11, <1>17, <1>19, <1>20, <1>21, SessionNumbers DEF Stands, Kept
<1>23. admins' \subseteq People \ Owners /\ blocked' \subseteq People
  BY <1>13 DEF ConversationInv
<1> QED
  BY <1>15, <1>17, <1>18, <1>22, <1>23, RowMoves

\* The step written is one whose predecessors are all answered, also when it
\* takes the session back, and also when it is none.
LEMMA AdvancedFits ==
  ASSUME ConversationAssumption, NEW s, Fits(s), NEW at, Kept(at, s),
         NEW next \in {at + 1, 0}, Confirming(s) => next = 2,
         NEW t, t = [s EXCEPT !.at = next]
  PROVE  Fits(t) /\ Same(s, t)
<1>1. /\ s.form \in DOMAIN Form /\ s.at \in 0..5 /\ s.filled \in SUBSET (1..5) /\ s \in Session
  BY DEF Fits, Session
<1>2. at \in 1..4 /\ next \in 0..5
  BY DEF Kept
<1>3. /\ t \in Session /\ t.form = s.form /\ t.at = next /\ t.key = s.key
      /\ t.filled = s.filled
  BY <1>1, <1>2 DEF Session
<1>4. 1..(next - 1) \subseteq s.filled
  BY <1>2 DEF Kept
<1>5. next <= Len(Form[s.form]) \/ (s.form = "bc" /\ next = 2)
  BY <1>1, <1>2, FormFacts DEF Kept
<1>6. Fits(t)
  BY <1>3, <1>4, <1>5 DEF Fits, Confirming
<1> QED
  BY <1>3, <1>6 DEF Same, Confirming

\* Only the text of a broadcast comes before its button.
LEMMA ConfirmedNext ==
  ASSUME NEW s, NEW at, Kept(at, s), Confirming(s)
  PROVE  at = 1
<1>1. PICK n : n = Len(Form[s.form])
  OBVIOUS
<1>2. n = 1
  BY <1>1, FormFacts DEF Confirming
<1>3. at \in 1..4 /\ (at + 1 <= n \/ at = 1)
  BY <1>1 DEF Kept
<1> QED
  BY <1>2, <1>3

\* A broadcast knows two steps, so nobody writes another into its second.
LEMMA AdvanceTo ==
  ASSUME ConversationInv, ConversationAssumption, NEW w \in Workers, Advance(w)
  PROVE  \E next \in {task[w].at + 1, 0} :
           /\ Heap([heap EXCEPT ![User(w)][task[w].session].at = next])
           /\ Confirming(Conversing(w)) => next = 2
<1>1. PICK next \in {task[w].at + 1} \cup {0 : v \in {u \in Advancing(w) : task[u].at # task[w].at}} :
        Heap([heap EXCEPT ![User(w)][task[w].session].at = next])
  BY DEF Advance
<1>2. /\ Stands(w, task[w]) /\ task[w].pc = "advance"
      /\ Conversing(w) = heap[task[w].user][task[w].session]
  BY RowOf DEF Advance, At, Conversing, User
<1>3. Kept(task[w].at, Conversing(w))
  BY <1>2 DEF Stands
<1>4. CASE next = task[w].at + 1
  <2>1. Confirming(Conversing(w)) => task[w].at = 1
    BY <1>3, ConfirmedNext
  <2> QED
    BY <1>1, <1>4, <2>1
<1>5. CASE next # task[w].at + 1
  <2>1. PICK v \in Advancing(w) : task[v].at # task[w].at
    BY <1>1, <1>5
  <2>2. /\ v \in Workers /\ task[v].pc = "advance"
        /\ Conversing(w) = heap[task[v].user][task[v].session]
    BY <1>2, <2>1 DEF Advancing, At, User
  <2>3. Kept(task[v].at, Conversing(w))
    BY <2>2, RowOf DEF Stands
  <2>4. ~Confirming(Conversing(w))
    BY <1>3, <2>1, <2>3, ConfirmedNext
  <2> QED
    BY <1>1, <1>5, <2>4
<1> QED
  BY <1>4, <1>5

\* The session is moved to the step after the one that was read.
LEMMA AdvanceKeeps ==
  ASSUME ConversationInv, ConversationAssumption, NEW w \in Workers, Track, Advance(w)
  PROVE  ConversationInv'
<1>1. PICK u : u = User(w)
  OBVIOUS
<1>2. PICK i : i = task[w].session
  OBVIOUS
<1>3. PICK s : s = Conversing(w)
  OBVIOUS
<1>4. PICK at : at = task[w].at
  OBVIOUS
<1>5. u \in People /\ i \in Sessions /\ s = heap[u][i] /\ Fits(s)
      /\ heap \in [People -> [Sessions -> Session]]
  BY <1>1, <1>2, <1>3, InHand DEF Advance, At, ConversationInv, SessionsOK
<1>6. Kept(at, s)
  <2>1. Stands(w, task[w]) /\ task[w].pc = "advance"
    BY RowOf DEF Advance, At
  <2> QED
    BY <1>1, <1>2, <1>4, <1>5, <2>1 DEF Stands, User
<1>7. PICK next \in {at + 1, 0} :
        /\ Heap([heap EXCEPT ![u][i].at = next])
        /\ Confirming(s) => next = 2
  BY <1>1, <1>2, <1>3, <1>4, AdvanceTo
<1>8. PICK t : t = [s EXCEPT !.at = next]
  OBVIOUS
<1>9. Fits(t) /\ Same(s, t)
  BY <1>5, <1>6, <1>7, <1>8, AdvancedFits
<1>10. [heap EXCEPT ![u][i].at = next] = [heap EXCEPT ![u][i] = t]
  BY <1>5, <1>8
<1>11. /\ Heap([heap EXCEPT ![u][i] = t]) /\ task' = [task EXCEPT ![w] = Idle]
       /\ UNCHANGED <<admins, blocked, current>>
  BY <1>7, <1>10 DEF Advance, Finish, tables
<1>12. current' \in [People -> {0} \cup Sessions]
  BY <1>11 DEF ConversationInv, SessionsOK
<1>13. SessionsOK' /\ Respected
  BY <1>5, <1>9, <1>11, <1>12, HeapPut
<1> QED
  BY <1>11, <1>13, Ends

\* The setting is written to a session that is in the map already.
LEMMA ChooseKeeps ==
  ASSUME ConversationInv, ConversationAssumption, NEW w \in Workers, Track,
         NEW k \in Keys, Choose(w, k)
  PROVE  ConversationInv'
<1>1. PICK u : u = User(w)
  OBVIOUS
<1>2. PICK i : i = task[w].session
  OBVIOUS
<1>3. PICK s : s = Conversing(w)
  OBVIOUS
<1>4. PICK t : t = [s EXCEPT !.key = k]
  OBVIOUS
<1>5. u \in People /\ i \in Sessions /\ s = heap[u][i] /\ Fits(s) /\ s \in Session
  BY <1>1, <1>2, <1>3, InHand DEF Choose, At
<1>6. t \in Session /\ t.form = s.form /\ t.at = s.at /\ t.filled = s.filled
  BY <1>4, <1>5 DEF Session
<1>7. Fits(t) /\ Same(heap[u][i], t)
  BY <1>5, <1>6 DEF Fits, Confirming, Same
<1>8. [heap EXCEPT ![User(w)][task[w].session].key = k] = [heap EXCEPT ![u][i] = t]
  BY <1>1, <1>2, <1>4, <1>5
<1>9. /\ Heap([heap EXCEPT ![u][i] = t]) /\ task' = [task EXCEPT ![w] = Idle]
      /\ UNCHANGED <<admins, blocked, current>>
  BY <1>8 DEF Choose, Finish, tables
<1>10. current' \in [People -> {0} \cup Sessions]
  BY <1>9 DEF ConversationInv, SessionsOK
<1>11. SessionsOK' /\ Respected
  BY <1>5, <1>7, <1>9, <1>10, HeapPut
<1> QED
  BY <1>9, <1>11, Ends

\* There is always an object for a new session: the others are fewer.
LEMMA FreeSession ==
  ASSUME ConversationInv, ConversationAssumption, NEW w \in Workers,
         task[w].pc # "idle", task[w].session = 0, NEW u \in People
  PROVE  \E i \in Sessions : i \notin Live(u)
<1>1. SUFFICES ASSUME Sessions \subseteq Live(u) PROVE FALSE
  OBVIOUS
<1>2. 0 \notin Sessions /\ Cardinality(Workers) \in Nat
      /\ Sessions = 1..(Cardinality(Workers) + 1) /\ IsFiniteSet(Workers)
  BY SessionNumbers DEF ConversationAssumption
<1>3. PICK has : has = [v \in Workers |-> IF v = w THEN current[u] ELSE task[v].session]
  OBVIOUS
<1>4. PICK f : f = [v \in Workers |-> IF has[v] \in Sessions THEN has[v] ELSE 1]
  OBVIOUS
<1>5. f \in [Workers -> Sessions]
  BY <1>2, <1>4
<1>6. \A i \in Sessions : \E v \in Workers : f[v] = i
  <2>1. TAKE i \in Sessions
  <2>2. i \in Live(u) /\ i # 0
    BY <1>1, <1>2
  <2>3. i = current[u] \/ \E v \in Workers : task[v].session = i
    BY <2>2 DEF Live
  <2>4. \E v \in Workers : has[v] = i
    BY <1>3, <2>2, <2>3
  <2> QED
    BY <1>4, <2>4
<1>7. f \in Surjection(Workers, Sessions)
  BY <1>5, <1>6 DEF Surjection
<1>8. Cardinality(Sessions) <= Cardinality(Workers)
  BY <1>2, <1>7, FS_Surjection
<1>9. Cardinality(Sessions) = Cardinality(Workers) + 1
  BY <1>2, FS_Interval
<1> QED
  BY <1>2, <1>8, <1>9

\* A new session is an object nobody holds.
LEMMA StartKeeps ==
  ASSUME ConversationInv, ConversationAssumption, NEW w \in Workers, Track,
         task[w].pc \in {"route", "admin"}, NEW form \in DOMAIN Form,
         NEW pc \in {"idle", "choose"}, pc = "choose" => task[w].pc = "admin",
         Start(w, form, pc)
  PROVE  ConversationInv'
<1>1. PICK u : u = User(w)
  OBVIOUS
<1>2. PICK i : i = CHOOSE j \in Sessions : j \notin Live(u)
  OBVIOUS
<1>3. PICK r : r = task[w]
  OBVIOUS
<1>4. r.pc # "idle" /\ r \in Busy /\ Stands(w, r) /\ r.session = 0 /\ u \in People
      /\ task \in [Workers -> {Idle} \cup Busy]
  <2>1. r.pc # "idle" /\ r \in Busy /\ Stands(w, r) /\ u \in People
    BY <1>1, <1>3, RowOf DEF User
  <2> QED
    BY <1>3, <2>1 DEF Stands, ConversationInv
<1>5. i \in Sessions /\ i \notin Live(u)
  BY <1>2, <1>3, <1>4, FreeSession
<1>6. PICK s : s = [form |-> form, at |-> 1, filled |-> {}, key |-> NoKey]
  OBVIOUS
<1>7. Fits(s) /\ s = [Blank EXCEPT !.form = form]
  BY <1>6, FreshFits DEF Blank
<1>8. /\ current' = [current EXCEPT ![u] = i] /\ Heap([heap EXCEPT ![u][i] = s])
      /\ UNCHANGED <<admins, blocked>>
  BY <1>1, <1>2, <1>7 DEF Start, tables
<1>9. current' \in [People -> {0} \cup Sessions]
  BY <1>4, <1>5, <1>8 DEF ConversationInv, SessionsOK
<1>10. SessionsOK' /\ Respected
  BY <1>4, <1>5, <1>7, <1>8, <1>9, HeapPut
<1>11. CASE pc = "idle"
  <2>1. task' = [task EXCEPT ![w] = Idle]
    BY <1>11 DEF Start
  <2> QED
    BY <1>8, <1>10, <2>1, Ends
<1>12. CASE pc = "choose"
  <2>1. PICK y : y = [r EXCEPT !.pc = "choose"]
    OBVIOUS
  <2>2. PICK t : t = [y EXCEPT !.session = i]
    OBVIOUS
  <2>3. t \in Busy /\ t.pc = "choose" /\ t.user = r.user /\ t.what = r.what /\ t.session = i
    <3>1. y \in Busy /\ y.pc = "choose" /\ y.user = r.user /\ y.what = r.what
      BY <1>4, <2>1 DEF Busy
    <3> QED
      BY <1>5, <2>2, <3>1 DEF Busy
  <2>4. task' = [task EXCEPT ![w] = t] /\ task'[w] = t
    <3>1. task' = [task EXCEPT ![w].pc = "choose", ![w].session = i]
      BY <1>1, <1>2, <1>12 DEF Start
    <3>2. task' = [task EXCEPT ![w] = t]
      BY <1>3, <1>4, <2>1, <2>2, <3>1
    <3> QED
      BY <1>4, <3>2
  <2>5. /\ w \in entitled => w \in entitled'
        /\ w \in welcome => w \in welcome'
    BY <1>3, <1>4, <2>3, <2>4, Histories
  <2>6. i # 0
    BY <1>5, SessionNumbers
  <2>7. Stands(w, t)'
    BY <1>3, <1>4, <1>12, <2>3, <2>5, <2>6 DEF Stands
  <2>8. admins' \subseteq People \ Owners /\ blocked' \subseteq People
    BY <1>8 DEF ConversationInv
  <2> QED
    BY <1>10, <2>3, <2>4, <2>7, <2>8, RowMoves
<1> QED
  BY <1>11, <1>12

\* The buttons that begin a conversation.
LEMMA StartingSteps ==
  ASSUME ConversationInv, ConversationAssumption, NEW w \in Workers, Track,
         \/ StartForm(w)
         \/ What(w) \in CustomerForms /\ At(w, "route") /\ Start(w, What(w), "idle")
         \/ At(w, "admin") /\ Start(w, "admadd", "idle")
  PROVE  ConversationInv'
<1>1. "admadd" \in DOMAIN Form /\ CustomerForms \subseteq DOMAIN Form /\ AdminForms \subseteq DOMAIN Form
  BY FormFacts, FormNames DEF AdminForms
<1>2. CASE StartForm(w)
  <2>1. PICK pc : pc = IF What(w) = "se" THEN "choose" ELSE "idle"
    OBVIOUS
  <2>2. /\ pc \in {"idle", "choose"} /\ Start(w, What(w), pc)
        /\ task[w].pc = "admin" /\ What(w) \in DOMAIN Form
    BY <1>1, <1>2, <2>1 DEF StartForm, At
  <2> QED
    BY <2>2, StartKeeps
<1>3. CASE What(w) \in CustomerForms /\ At(w, "route") /\ Start(w, What(w), "idle")
  BY <1>1, <1>3, StartKeeps DEF At
<1>4. CASE At(w, "admin") /\ Start(w, "admadd", "idle")
  BY <1>1, <1>4, StartKeeps DEF At
<1> QED
  BY <1>2, <1>3, <1>4

\* A customer's button, a photo: done without asking for more.
LEMMA OrderingStep ==
  ASSUME ConversationInv, ConversationAssumption, NEW w \in Workers, Track,
         At(w, "route"), What(w) \in {"order", "photo"}, Pass(w, "commit")
  PROVE  ConversationInv'
<1>1. PICK r : r = task[w]
  OBVIOUS
<1>2. task[w].pc # "idle" /\ r.pc = "route" /\ r \in Busy /\ Stands(w, r)
      /\ task \in [Workers -> {Idle} \cup Busy]
  BY <1>1, RowOf DEF At, ConversationInv
<1>3. PICK t : t = [r EXCEPT !.pc = "commit"]
  OBVIOUS
<1>4. /\ t \in Busy /\ t.pc = "commit" /\ t.user = r.user /\ t.what = r.what
      /\ t.session = r.session
  BY <1>2, <1>3 DEF Busy
<1>5. task'[w] = t
  BY <1>1, <1>2, <1>3 DEF Pass, Goto
<1>6. w \in welcome => w \in welcome'
  BY <1>1, <1>2, <1>4, <1>5, Histories
<1>7. t.what \notin AdminEffects \cup OwnerTaps /\ t.what # "admadd" /\ AllAnswered(t)
  BY <1>1, <1>4, FormNames DEF What, AdminEffects, OwnerTaps, AllAnswered
<1>8. Stands(w, t)'
  BY <1>2, <1>4, <1>6, <1>7 DEF Stands, AllAnswered
<1> QED
  BY <1>1, <1>2, <1>3, <1>4, <1>8, Passes

\* An owner takes an admin out.
LEMMA RemovingStep ==
  ASSUME ConversationInv, ConversationAssumption, NEW w \in Workers, Track,
         At(w, "admin"), What(w) = "admdel", User(w) \in Owners, NEW v \in People,
         task' = [task EXCEPT ![w].pc = "commit", ![w].target = v],
         UNCHANGED <<tables, heap, current>>
  PROVE  ConversationInv'
<1>1. PICK r : r = task[w]
  OBVIOUS
<1>2. task[w].pc # "idle" /\ r.pc = "admin" /\ r.what = "admdel" /\ r.user \in Owners
      /\ r \in Busy /\ Stands(w, r) /\ task \in [Workers -> {Idle} \cup Busy]
  BY <1>1, RowOf DEF At, What, User, ConversationInv
<1>3. PICK y : y = [r EXCEPT !.pc = "commit"]
  OBVIOUS
<1>4. PICK t : t = [y EXCEPT !.target = v]
  OBVIOUS
<1>5. y \in Busy /\ y.pc = "commit" /\ y.what = r.what /\ y.session = r.session /\ y.user = r.user
  BY <1>2, <1>3 DEF Busy
<1>6. t \in Busy /\ t.pc = "commit" /\ t.what = r.what /\ t.session = r.session /\ t.user = r.user
  BY <1>4, <1>5 DEF Busy
<1>7. task' = [task EXCEPT ![w] = t] /\ task'[w] = t
  <2>1. task' = [task EXCEPT ![w] = t]
    BY <1>1, <1>2, <1>3, <1>4
  <2> QED
    BY <1>2, <2>1
<1>8. /\ w \in entitled => w \in entitled'
      /\ w \in welcome => w \in welcome'
  BY <1>1, <1>2, <1>6, <1>7, Histories
<1>9. AllAnswered(t)
  BY <1>2, <1>6, FormNames DEF AllAnswered
<1>10. Stands(w, t)'
  BY <1>2, <1>6, <1>8, <1>9 DEF Stands, AllAnswered
<1>11. current' \in [People -> {0} \cup Sessions] /\ admins' \subseteq People \ Owners
       /\ blocked' \subseteq People /\ UNCHANGED heap
  BY DEF ConversationInv, SessionsOK, tables
<1> QED
  BY <1>6, <1>7, <1>10, <1>11, HandlerMoves

\* The broadcast leaves with the text the preview showed.
LEMMA SendingStep ==
  ASSUME ConversationInv, ConversationAssumption, NEW w \in Workers, Track, Send(w)
  PROVE  ConversationInv'
<1>1. PICK r : r = task[w]
  OBVIOUS
<1>2. PICK s : s = Conversing(w)
  OBVIOUS
<1>3. task[w].pc # "idle" /\ r.pc = "send" /\ r \in Busy /\ Stands(w, r)
      /\ task \in [Workers -> {Idle} \cup Busy] /\ User(w) \in People
  BY <1>1, RowOf DEF At, User, ConversationInv, Send
<1>4. Fits(s) /\ s \in Session /\ Confirming(s) /\ r.what = "bcgo"
  <2>1. s = heap[r.user][r.session]
    BY <1>1, <1>2 DEF Conversing, User
  <2> QED
    BY <1>1, <1>2, <1>3, <2>1, InHand DEF Stands
<1>5. PICK x : x = [r EXCEPT !.pc = "commit"]
  OBVIOUS
<1>6. PICK y : y = [x EXCEPT !.session = 0]
  OBVIOUS
<1>7. PICK t : t = [y EXCEPT !.filled = s.filled]
  OBVIOUS
<1>8. x \in Busy /\ x.pc = "commit" /\ x.what = r.what /\ x.user = r.user
  BY <1>3, <1>5 DEF Busy
<1>9. y \in Busy /\ y.pc = "commit" /\ y.what = r.what /\ y.session = 0 /\ y.user = r.user
  BY <1>6, <1>8 DEF Busy
<1>10. s.filled \in SUBSET (1..5)
  BY <1>4 DEF Session
<1>11. t \in Busy /\ t.pc = "commit" /\ t.what = r.what /\ t.session = 0 /\ t.user = r.user
       /\ t.filled = s.filled
  BY <1>7, <1>9, <1>10 DEF Busy
<1>12. task' = [task EXCEPT ![w] = t] /\ task'[w] = t
  <2>1. task' = [task EXCEPT ![w].pc = "commit", ![w].session = 0, ![w].filled = s.filled]
    BY <1>2 DEF Send
  <2>2. task' = [task EXCEPT ![w] = t]
    BY <1>1, <1>3, <1>5, <1>6, <1>7, <2>1
  <2> QED
    BY <1>3, <2>2
<1>13. /\ w \in entitled => w \in entitled'
       /\ w \in welcome => w \in welcome'
  BY <1>1, <1>3, <1>11, <1>12, Histories
<1>14. s.filled = DOMAIN Form["bc"]
  <2>1. 1..1 \subseteq s.filled /\ s.filled \subseteq DOMAIN Form["bc"]
    BY <1>4 DEF Fits, Confirming
  <2>2. DOMAIN Form["bc"] = 1..1
    BY FormFacts
  <2> QED
    BY <2>1, <2>2
<1>15. AllAnswered(t) /\ t.what \notin OwnerTaps /\ t.what # "admadd"
  BY <1>4, <1>11, <1>14, FormNames DEF AllAnswered, OwnerTaps
<1>16. 0 \notin Sessions
  BY SessionNumbers
<1>17. Stands(w, t)'
  BY <1>3, <1>11, <1>13, <1>15 DEF Stands, AllAnswered
<1>18. current' \in [People -> {0} \cup Sessions] /\ UNCHANGED <<admins, blocked>> /\ Heap(heap)
  BY <1>3, CurrentKept DEF Send, tables
<1>19. admins' \subseteq People \ Owners /\ blocked' \subseteq People
  BY <1>18 DEF ConversationInv
<1> QED
  BY <1>11, <1>12, <1>17, <1>18, <1>19, HandlerMoves

-----------------------------------------------------------------------------
(* The last answer, and what is done with them all.                        *)

\* The last answer completes the form.
LEMMA LastFills ==
  ASSUME ConversationAssumption, NEW s, Fits(s), NEW at, Asked(at, s), at = Len(Form[s.form])
  PROVE  s.filled \cup {at} = DOMAIN Form[s.form] /\ s.filled \cup {at} \in SUBSET (1..5)
<1>1. PICK n : n = Len(Form[s.form])
  OBVIOUS
<1>2. n \in 1..5 /\ DOMAIN Form[s.form] = 1..n
  BY <1>1, FormFacts DEF Fits, Session
<1>3. 1..(n - 1) \subseteq s.filled /\ s.filled \subseteq 1..n /\ at = n
  BY <1>1, <1>2 DEF Fits, Asked
<1> QED
  BY <1>2, <1>3

\* What is made has all its answers, and is made for somebody entitled.
LEMMA MakeKeeps ==
  ASSUME ConversationInv, ConversationAssumption, NEW w \in Workers, Track,
         At(w, "answer"), AskedLast(w), NEW key \in Keys \cup {NoKey},
         NEW target \in People, NEW value \in Values,
         Make(w, key, target, value),
         Conversing(w).form = "admadd" => User(w) \in Owners /\ target \notin Owners,
         UNCHANGED current \/ ClearSession(User(w)), UNCHANGED tables, Heap(heap)
  PROVE  ConversationInv'
<1>1. PICK r : r = task[w]
  OBVIOUS
<1>2. PICK s : s = Conversing(w)
  OBVIOUS
<1>3. task[w].pc # "idle" /\ r.pc = "answer" /\ r \in Busy /\ Stands(w, r)
      /\ task \in [Workers -> {Idle} \cup Busy] /\ User(w) \in People
  BY <1>1, RowOf DEF At, User, ConversationInv
<1>4. Fits(s) /\ s \in Session /\ s = heap[r.user][r.session]
  BY <1>1, <1>2, InHand DEF At, User
<1>21. PICK filled : filled = s.filled \cup {r.at}
  OBVIOUS
<1>5. w \in entitled \/ s.form \in CustomerForms
  BY <1>3, <1>4 DEF Stands
<1>6. PICK t : t = [pc |-> "commit", user |-> User(w), what |-> s.form, session |-> 0, at |-> 0,
                    filled |-> filled, key |-> key, target |-> target, value |-> value]
  OBVIOUS
<1>7. filled = DOMAIN Form[s.form] /\ filled \in SUBSET (1..5) /\ s.form \in DOMAIN Form
  <2>1. Asked(r.at, s) /\ r.at = Len(Form[s.form])
    BY <1>1, <1>2, <1>3, <1>4 DEF Stands, AskedLast
  <2> QED
    BY <1>4, <1>21, <2>1, LastFills DEF Session
<1>8. s.form \in CustomerTaps \cup AdminTaps \cup Messages
  BY <1>7, FormNames DEF CustomerTaps, AdminTaps
<1>9. t \in Busy
  BY <1>3, <1>6, <1>7, <1>8 DEF Busy
<1>10. t.pc = "commit" /\ t.user = User(w) /\ t.what = s.form /\ t.session = 0
       /\ t.filled = filled /\ t.target = target
  BY <1>6
<1>11. task' = [task EXCEPT ![w] = t]
  BY <1>1, <1>2, <1>6, <1>21 DEF Make
<1>12. task'[w] = t
  BY <1>3, <1>11
<1>13. /\ w \in entitled => w \in entitled'
       /\ w \in welcome => w \in welcome'
  BY <1>1, <1>3, <1>10, <1>12, Histories
<1>14. AllAnswered(t)
  BY <1>7, <1>10, FormNames DEF AllAnswered
<1>15. t.what \in AdminEffects => w \in entitled
  BY <1>5, <1>10 DEF AdminEffects, CustomerForms
<1>16. t.what \in OwnerTaps => t.what = "admadd"
  BY <1>7, <1>10, FormNames DEF OwnerTaps
<1>17. t.what = "admadd" => t.user \in Owners /\ t.target \notin Owners
  BY <1>2, <1>10
<1>18. Stands(w, t)'
  BY <1>3, <1>10, <1>13, <1>14, <1>15, <1>16, <1>17 DEF Stands, AllAnswered
<1>19. current' \in [People -> {0} \cup Sessions]
  BY <1>3, CurrentKept
<1>20. admins' \subseteq People \ Owners /\ blocked' \subseteq People
  BY DEF ConversationInv, tables
<1> QED
  BY <1>9, <1>11, <1>18, <1>19, <1>20, HandlerMoves

\* The inputs that end a conversation.
LEMMA MakingSteps ==
  ASSUME ConversationInv, ConversationAssumption, NEW w \in Workers, Track,
         \/ LastStep(w) \/ CustomerInput(w)
         \/ \E v \in Values : EnterSetting(w, v)
         \/ \E v \in People : EnterAdmin(w, v)
  PROVE  ConversationInv'
<1>1. /\ At(w, "answer") /\ AskedLast(w) /\ User(w) \in People /\ NoKey \in Keys \cup {NoKey}
      /\ "blank" \in Values /\ Conversing(w).key \in Keys \cup {NoKey}
  <2>1. At(w, "answer") /\ AskedLast(w)
    BY DEF LastStep, CustomerInput, EnterSetting, EnterAdmin
  <2> QED
    BY <2>1, InHand DEF At, Values, Session
<1>2. CASE LastStep(w)
  <2>1. /\ Conversing(w).form # "admadd" /\ Make(w, NoKey, User(w), "blank")
        /\ ClearSession(User(w)) /\ UNCHANGED tables /\ Heap(heap)
    BY <1>2 DEF LastStep
  <2> QED
    BY <1>1, <2>1, MakeKeeps
<1>3. CASE CustomerInput(w)
  <2>1. /\ Conversing(w).form # "admadd" /\ Make(w, NoKey, User(w), "blank")
        /\ UNCHANGED <<tables, current>> /\ Heap(heap)
    BY <1>3 DEF CustomerInput, CustomerForms
  <2> QED
    BY <1>1, <2>1, MakeKeeps
<1>4. ASSUME NEW v \in Values, EnterSetting(w, v) PROVE ConversationInv'
  <2>1. /\ Conversing(w).form # "admadd" /\ Make(w, Conversing(w).key, User(w), v)
        /\ ClearSession(User(w)) /\ UNCHANGED tables /\ Heap(heap)
    BY <1>4 DEF EnterSetting
  <2> QED
    BY <1>1, <2>1, MakeKeeps
<1>5. ASSUME NEW v \in People, EnterAdmin(w, v) PROVE ConversationInv'
  <2>1. ClearSession(User(w)) /\ UNCHANGED tables /\ Heap(heap)
    BY <1>5 DEF EnterAdmin
  <2>2. CASE User(w) \in Owners /\ v \notin Owners
    <3>1. Make(w, NoKey, v, "blank")
      BY <1>5, <2>2 DEF EnterAdmin
    <3> QED
      BY <1>1, <2>1, <2>2, <3>1, MakeKeeps
  <2>3. CASE ~(User(w) \in Owners /\ v \notin Owners)
    <3>1. ClearAndReturn(w)
      BY <1>5, <2>1, <2>3 DEF EnterAdmin, ClearAndReturn
    <3>2. task[w].pc # "idle"
      BY <1>1 DEF At
    <3> QED
      BY <3>1, <3>2, Returns
  <2> QED
    BY <2>2, <2>3
<1> QED
  BY <1>2, <1>3, <1>4, <1>5

\* No owner gets into the table; only what was aimed at changes.
LEMMA CommitKeeps ==
  ASSUME ConversationInv, ConversationAssumption, NEW w \in Workers, Track, Commit(w)
  PROVE  ConversationInv'
<1>1. PICK t : t = task[w]
  OBVIOUS
<1>2. task[w].pc # "idle" /\ t.pc = "commit" /\ t \in Busy /\ Stands(w, t)
      /\ t.user \in People /\ t.target \in People
  BY <1>1, RowOf DEF At, Commit
<1>3. t.what = "admadd" => t.target \notin Owners
  BY <1>2 DEF Stands
<1>4. admins' \subseteq People \ Owners
  <2>1. \/ admins' = admins \cup {t.target} /\ t.what = "admadd"
        \/ admins' = admins \ {t.target}
        \/ admins' = admins
    BY <1>1 DEF Commit
  <2>2. admins \subseteq People \ Owners
    BY DEF ConversationInv
  <2> QED
    BY <1>2, <1>3, <2>1, <2>2
<1>5. blocked' \subseteq People
  <2>1. blocked' \in {blocked, blocked \cup {t.target}, blocked \ {t.target}}
    BY <1>1 DEF Commit
  <2> QED
    BY <1>2, <2>1 DEF ConversationInv
<1>6. current' \in [People -> {0} \cup Sessions]
  BY <1>1, <1>2, CurrentKept DEF Commit
<1>7. task' = [task EXCEPT ![w] = Idle] /\ Heap(heap)
  BY DEF Commit, Finish
<1> QED
  BY <1>4, <1>5, <1>6, <1>7, IdleStands, HandlerMoves

\* A session that lapses, and the end of the process.
LEMMA LosingSteps ==
  ASSUME ConversationInv, ConversationAssumption, Track,
         (\E u \in People : Lapse(u)) \/ Restart
  PROVE  ConversationInv'
<1>1. /\ current' \in [People -> {0} \cup Sessions] /\ Heap(heap)
      /\ UNCHANGED <<admins, blocked>>
  BY DEF Lapse, Restart, ClearSession, ConversationInv, SessionsOK, tables
<1>2. SessionsOK' /\ Respected
  BY <1>1, HeapKept
<1>3. admins' \subseteq People \ Owners /\ blocked' \subseteq People
  BY <1>1 DEF ConversationInv
<1>4. CASE \E u \in People : Lapse(u)
  <2>1. UNCHANGED task
    BY <1>4 DEF Lapse
  <2>2. task' \in [Workers -> {Idle} \cup Busy]
    BY <2>1 DEF ConversationInv
  <2>3. PICK W \in SUBSET Workers : W = {}
    OBVIOUS
  <2>4. /\ \A v \in Workers \ W : task'[v] = task[v]
        /\ \A v \in W : Stands(v, task[v])'
    BY <2>1, <2>3
  <2> QED
    BY <1>2, <1>3, <2>2, <2>4, Moves
<1>5. CASE Restart
  <2>1. task' = [w \in Workers |-> Idle]
    BY <1>5 DEF Restart
  <2>2. \A v \in Workers : Stands(v, task[v])'
    BY <2>1, IdleStands DEF Stands, Idle
  <2> QED
    BY <1>2, <1>3, <2>1, <2>2 DEF ConversationInv
<1> QED
  BY <1>4, <1>5

-----------------------------------------------------------------------------
(* The specification.                                                      *)

\* The process starts with no session and no handler.
LEMMA ConversationStarts == ASSUME ConversationAssumption, Init PROVE ConversationInv
<1>1. Fits(Blank) /\ Blank \in Session
  BY BlankFits
<1>2. heap = [u \in People |-> [i \in Sessions |-> Blank]] /\ current = [u \in People |-> 0]
      /\ task = [w \in Workers |-> Idle] /\ admins = {} /\ blocked = {}
  BY DEF Init
<1>3. SessionsOK
  BY <1>1, <1>2 DEF SessionsOK
<1>4. \A w \in Workers : Stands(w, task[w])
  BY <1>2 DEF Stands, Idle
<1> QED
  BY <1>2, <1>3, <1>4 DEF ConversationInv

\* A step that changes nothing keeps the invariant.
LEMMA StandsStill ==
  ASSUME ConversationInv, UNCHANGED conversationVars
  PROVE  ConversationInv'
BY DEF ConversationInv, SessionsOK, Fits, Confirming, Stands, Asked, Kept, AllAnswered, conversationVars,
       tables, history

\* Every step of a handler keeps the invariant.
LEMMA StepKeeps ==
  ASSUME ConversationInv, ConversationAssumption, Track, NEW w \in Workers, Step(w)
  PROVE  ConversationInv'
<1>1. CASE LetIn(w) \/ OnInput(w) \/ AdminTap(w) \/ Act(w) \/ Exempt(w)
  BY <1>1, PassingSteps
<1>2. CASE Clear(w) \/ NothingToMake(w) \/ AskAgain(w) \/ AdminHome(w) \/ CommitFails(w)
  BY <1>2, EndingSteps
<1>3. CASE OnText(w) \/ Confirm(w)
  BY <1>3, TakingSteps
<1>4. CASE LastStep(w) \/ CustomerInput(w) \/ (\E v \in Values : EnterSetting(w, v))
           \/ (\E v \in People : EnterAdmin(w, v))
  BY <1>4, MakingSteps
<1>5. CASE CustomerTap(w)
  BY <1>5, StartingSteps, OrderingStep DEF CustomerTap
<1>6. CASE StartForm(w)
  BY <1>6, StartingSteps
<1>7. ASSUME NEW v \in People, OwnerTap(w, v) PROVE ConversationInv'
  <2>1. At(w, "admin") /\ What(w) \in {"admadd", "admdel"} /\ task[w].pc # "idle"
    BY <1>7 DEF OwnerTap, OwnerTaps, At
  <2>2. \/ Return(w)
        \/ Start(w, "admadd", "idle")
        \/ /\ What(w) = "admdel" /\ User(w) \in Owners
           /\ task' = [task EXCEPT ![w].pc = "commit", ![w].target = v]
           /\ UNCHANGED <<tables, heap, current>>
    BY <1>7, <2>1 DEF OwnerTap
  <2> QED
    BY <2>1, <2>2, Returns, StartingSteps, RemovingStep
<1>8. CASE \E v \in People : ToggleBlock(w, v)
  BY <1>8, TogglingStep
<1>9. CASE \E k \in Keys : Choose(w, k)
  BY <1>9, ChooseKeeps
<1>10. CASE SlashAdmin(w)
  BY <1>10, SlashAdminStep
<1>11. CASE ReadStep(w) \/ Keep(w) \/ Advance(w)
  BY <1>11, ReadStepKeeps, KeepKeeps, AdvanceKeeps
<1>12. CASE Send(w)
  BY <1>12, SendingStep
<1>13. CASE Commit(w)
  BY <1>13, CommitKeeps
<1> QED
  BY <1>1, <1>2, <1>3, <1>4, <1>5, <1>6, <1>7, <1>8, <1>9, <1>10, <1>11, <1>12, <1>13
     DEF Step, Input, Button

\* So does every step.
LEMMA NextKeeps ==
  ConversationInv /\ ConversationAssumption /\ [Next]_conversationVars => ConversationInv'
<1> SUFFICES ASSUME ConversationInv, ConversationAssumption, [Next]_conversationVars
             PROVE  ConversationInv'
  OBVIOUS
<1>1. CASE UNCHANGED conversationVars
  BY <1>1, StandsStill
<1>2. CASE Next
  <2>1. Track
    BY <1>2 DEF Next
  <2>2. CASE (\E u \in People : Lapse(u)) \/ Restart
    BY <2>1, <2>2, LosingSteps
  <2>3. ASSUME NEW w \in Workers, Step(w) PROVE ConversationInv'
    BY <2>1, <2>3, StepKeeps
  <2>4. ASSUME NEW w \in Workers, NEW u \in People, NEW what \in Updates[u], Arrive(w, u, what)
        PROVE  ConversationInv'
    BY <2>1, <2>4, ArrivingStep
  <2> QED
    BY <1>2, <2>2, <2>3, <2>4 DEF Next
<1> QED
  BY <1>1, <1>2

\* Hence it holds throughout.
LEMMA ConversationKeepsInvariant == Spec => []ConversationInv
<1>1. ConversationAssumption
  BY ConversationAssumption
<1>2. Init => ConversationInv
  BY <1>1, ConversationStarts
<1>3. ConversationInv /\ [Next]_conversationVars => ConversationInv'
  BY <1>1, NextKeeps
<1> QED
  BY <1>2, <1>3, PTL DEF Spec

\* The tables, the sessions and the handlers are well formed throughout, and
\* no owner is ever in the admins table.
THEOREM ConversationTypeCorrect == Spec => []ConversationTypeOK
<1>1. ConversationInv => ConversationTypeOK
  BY DEF ConversationInv, SessionsOK, ConversationTypeOK
<1> QED
  BY <1>1, ConversationKeepsInvariant, PTL

\* isAdmin is asked after every arrival and before everything an admin can do,
\* so an admin removed before the update came in gets nothing done.
THEOREM RemovedAdminsStayOut == Spec => []RemovedAdminsAreOut
<1>1. ConversationInv => RemovedAdminsAreOut
  BY DEF ConversationInv, Stands, RemovedAdminsAreOut, At, What
<1> QED
  BY <1>1, ConversationKeepsInvariant, PTL

\* customer() stops a blocked user before anything is looked at, so nothing
\* is done for one who was blocked before the update came in.
THEOREM BlockedStayOut == Spec => []BlockedAreOut
<1>1. ConversationInv => BlockedAreOut
  <2> SUFFICES ASSUME ConversationInv, NEW w \in Workers, At(w, "commit") PROVE w \in welcome
    BY DEF BlockedAreOut
  <2>1. Stands(w, task[w]) /\ task[w].pc = "commit"
    BY DEF ConversationInv, At
  <2> QED
    BY <2>1 DEF Stands
<1> QED
  BY <1>1, ConversationKeepsInvariant, PTL

\* Whatever handlers share a session, and whatever replaces or clears it
\* under them, what is made in the end is made from all the answers.
THEOREM AllIsAnswered == Spec => []NothingIsMadeOfHalfAForm
<1>1. ConversationInv => NothingIsMadeOfHalfAForm
  BY DEF ConversationInv, Stands, AllAnswered, NothingIsMadeOfHalfAForm, At, What
<1> QED
  BY <1>1, ConversationKeepsInvariant, PTL

\* The admins table changes only by the step of an owner's handler.
THEOREM OnlyOwnersDecide == Spec => OwnersDecide
<1>1. ASSUME ConversationInv, [Next]_conversationVars, admins' # admins
      PROVE  \E w \in Workers : At(w, "commit") /\ User(w) \in Owners /\ task'[w] = Idle
  <2>1. PICK w \in Workers : Commit(w)
    <3>1. ASSUME NEW w \in Workers, NEW u, NEW what, Arrive(w, u, what) PROVE admins' = admins
      BY <3>1 DEF Arrive, tables
    <3>2. ASSUME NEW w \in Workers, Input(w) PROVE admins' = admins
      BY <3>2 DEF Input, ReadStep, NothingToMake, AskAgain, Keep, Advance, LastStep, CustomerInput,
         EnterSetting, EnterAdmin, Return, ClearAndReturn, tables
    <3>3. ASSUME NEW w \in Workers, Button(w) PROVE admins' = admins
      BY <3>3 DEF Button, CustomerTap, AdminTap, AdminHome, Act, StartForm, Choose, OwnerTap,
         ToggleBlock, Exempt, Confirm, Send, Start, Pass, Return, ClearAndReturn, tables
    <3>4. ASSUME NEW w \in Workers, Step(w), ~Input(w), ~Button(w), ~Commit(w)
          PROVE  admins' = admins
      BY <3>4 DEF Step, LetIn, Clear, SlashAdmin, OnText, OnInput, CommitFails, Pass, Return,
         ClearAndReturn, tables
    <3>5. (Restart \/ \E u \in People : Lapse(u)) => admins' = admins
      BY DEF Restart, Lapse, tables
    <3> QED
      BY <1>1, <3>1, <3>2, <3>3, <3>4, <3>5 DEF Next, conversationVars, tables
  <2>2. task[w].what \in OwnerTaps /\ task[w].pc = "commit" /\ Stands(w, task[w])
    BY <1>1, <2>1 DEF Commit, At, OwnerTaps, ConversationInv
  <2>3. User(w) \in Owners
    BY <2>2 DEF Stands, User
  <2>4. task'[w] = Idle
    BY <1>1, <2>1 DEF Commit, Finish, ConversationInv
  <2> QED
    BY <2>1, <2>3, <2>4 DEF Commit
<1>2. ConversationInv /\ [Next]_conversationVars =>
        [admins' # admins =>
          \E w \in Workers : At(w, "commit") /\ User(w) \in Owners /\ task'[w] = Idle]_conversationVars
  BY <1>1
<1> QED
  BY <1>2, ConversationKeepsInvariant, PTL DEF OwnersDecide, Spec

-----------------------------------------------------------------------------
(* Numbers.                                                                *)

\* What a handler is about to do, if it is to write a setting, is not to
\* write words where a number belongs.
Entered(t) == t.pc = "commit" /\ t.what = "se" /\ t.key \in Numeric => t.value # "words"

(* "anything else is refused on input rather than silently read as 0       *)
(* later" (admin.go:382), without the blanks that slip through: words are  *)
(* never written to a numeric setting, also when the session is shared,    *)
(* cleared or begun again for another setting while the text is read.      *)
WordsAreRefused == \A w \in Workers : Entered(task[w])

\* The handler's row is the only one that changes, and only a new one that
\* is to write a setting has something to show.
LEMMA RowEntered ==
  ASSUME ConversationInv, WordsAreRefused, NEW w \in Workers, NEW t, Entered(t),
         task' = [task EXCEPT ![w] = t]
  PROVE  WordsAreRefused'
<1>1. \A v \in Workers : task'[v] = IF v = w THEN t ELSE task[v]
  BY DEF ConversationInv
<1>2. \A v \in Workers : Entered(task'[v])
  BY <1>1 DEF WordsAreRefused
<1> QED
  BY <1>2 DEF WordsAreRefused, Entered

\* A row whose program counter moves: to write a setting it must be one that
\* writes something else.
LEMMA PassEntered ==
  ASSUME ConversationInv, WordsAreRefused, NEW w \in Workers, NEW pc,
         pc = "commit" => What(w) # "se", Goto(w, pc), task[w].pc # "idle"
  PROVE  WordsAreRefused'
<1>1. PICK r : r = task[w]
  OBVIOUS
<1>2. r \in Busy /\ task' = [task EXCEPT ![w].pc = pc] /\ task \in [Workers -> {Idle} \cup Busy]
  BY <1>1, RowOf DEF Goto, ConversationInv
<1>3. PICK t : t = [r EXCEPT !.pc = pc]
  OBVIOUS
<1>4. t.pc = pc /\ t.what = r.what
  BY <1>2, <1>3 DEF Busy
<1>5. Entered(t)
  BY <1>1, <1>4 DEF Entered, What
<1>6. task' = [task EXCEPT ![w] = t]
  BY <1>1, <1>2, <1>3
<1> QED
  BY <1>5, <1>6, RowEntered

\* A handler that ends writes nothing.
LEMMA IdleEntered ==
  ASSUME ConversationInv, WordsAreRefused, NEW w \in Workers, Finish(w)
  PROVE  WordsAreRefused'
<1>1. Entered(Idle)
  BY DEF Entered, Idle
<1> QED
  BY <1>1, RowEntered DEF Finish

\* What is made of a conversation's answers: a setting only by EnterSetting,
\* which has looked at the text and at the setting it is for.
LEMMA MadeEntered ==
  ASSUME ConversationInv, WordsAreRefused, NEW w \in Workers, NEW key, NEW target, NEW value,
         Make(w, key, target, value),
         Conversing(w).form = "se" /\ key \in Numeric => value # "words"
  PROVE  WordsAreRefused'
<1>1. PICK t : t = [pc |-> "commit", user |-> User(w), what |-> Conversing(w).form, session |-> 0,
                    at |-> 0, filled |-> Conversing(w).filled \cup {task[w].at}, key |-> key,
                    target |-> target, value |-> value]
  OBVIOUS
<1>2. Entered(t)
  BY <1>1 DEF Entered
<1> QED
  BY <1>1, <1>2, RowEntered DEF Make

\* A new session is entered in the handler's row, or ends the handler.
LEMMA StartEntered ==
  ASSUME ConversationInv, WordsAreRefused, NEW w \in Workers, NEW form,
         NEW pc \in {"idle", "choose"}, Start(w, form, pc), task[w].pc # "idle"
  PROVE  WordsAreRefused'
<1>1. CASE pc = "idle"
  BY <1>1, IdleEntered DEF Start, Finish
<1>2. CASE pc = "choose"
  <2>1. PICK i : task' = [task EXCEPT ![w].pc = "choose", ![w].session = i]
    BY <1>2 DEF Start
  <2>2. PICK t : t = [[task[w] EXCEPT !.pc = "choose"] EXCEPT !.session = i]
    OBVIOUS
  <2>3. task[w] \in Busy /\ task \in [Workers -> {Idle} \cup Busy]
    BY RowOf DEF ConversationInv
  <2>4. t.pc = "choose"
    BY <2>2, <2>3 DEF Busy
  <2>5. task' = [task EXCEPT ![w] = t]
    BY <2>1, <2>2, <2>3
  <2> QED
    BY <2>4, <2>5, RowEntered DEF Entered
<1> QED
  BY <1>1, <1>2

\* The steps that fill in the row of a handler which stays where it is, or
\* goes on with a session or a user.
LEMMA FillingEntered ==
  ASSUME ConversationInv, WordsAreRefused, NEW w \in Workers,
         \/ SlashAdmin(w) \/ OnText(w) \/ ReadStep(w) \/ Confirm(w)
         \/ \E v \in People : ToggleBlock(w, v)
         \/ Send(w)
         \/ \E v \in People : OwnerTap(w, v)
  PROVE  WordsAreRefused'
<1>1. task[w].pc # "idle"
  BY DEF SlashAdmin, OnText, ReadStep, Confirm, ToggleBlock, Send, OwnerTap, At
<1>2. PICK r : r = task[w]
  OBVIOUS
<1>3. r \in Busy /\ Stands(w, r) /\ task \in [Workers -> {Idle} \cup Busy]
  BY <1>1, <1>2, RowOf DEF ConversationInv
<1>4. CASE Return(w) \/ ClearAndReturn(w)
  BY <1>4, IdleEntered DEF Return, ClearAndReturn
<1>5. ASSUME SlashAdmin(w), ~ClearAndReturn(w) PROVE WordsAreRefused'
  <2>1. PICK t : t = [r EXCEPT !.what = "text"]
    OBVIOUS
  <2>2. t.what = "text"
    BY <1>3, <2>1 DEF Busy
  <2>3. task' = [task EXCEPT ![w] = t]
    BY <1>2, <1>3, <1>5, <2>1 DEF SlashAdmin
  <2> QED
    BY <2>2, <2>3, RowEntered DEF Entered
<1>6. ASSUME OnText(w) \/ Confirm(w), ~Return(w) PROVE WordsAreRefused'
  <2>1. PICK pc \in {"check", "input", "send"}, i \in {current[User(w)]} :
          task' = [task EXCEPT ![w].pc = pc, ![w].session = i]
    BY <1>6 DEF OnText, Confirm
  <2>2. PICK t : t = [[r EXCEPT !.pc = pc] EXCEPT !.session = i]
    OBVIOUS
  <2>3. t.pc = pc
    BY <1>3, <2>2 DEF Busy
  <2>4. task' = [task EXCEPT ![w] = t]
    BY <1>2, <1>3, <2>1, <2>2
  <2> QED
    BY <2>3, <2>4, RowEntered DEF Entered
<1>7. ASSUME NEW v \in People, ToggleBlock(w, v) PROVE WordsAreRefused'
  <2>1. PICK value : task' = [task EXCEPT ![w].pc = "exempt", ![w].target = v, ![w].value = value]
    BY <1>7 DEF ToggleBlock
  <2>2. PICK t : t = [[[r EXCEPT !.pc = "exempt"] EXCEPT !.target = v] EXCEPT !.value = value]
    OBVIOUS
  <2>3. t.pc = "exempt"
    BY <1>3, <2>2 DEF Busy
  <2>4. task' = [task EXCEPT ![w] = t]
    BY <1>2, <1>3, <2>1, <2>2
  <2> QED
    BY <2>3, <2>4, RowEntered DEF Entered
<1>8. CASE Send(w)
  <2>1. PICK filled : task' = [task EXCEPT ![w].pc = "commit", ![w].session = 0, ![w].filled = filled]
    BY <1>8 DEF Send
  <2>2. r.pc = "send"
    BY <1>2, <1>8 DEF Send, At
  <2>3. r.what = "bcgo"
    BY <1>3, <2>2 DEF Stands
  <2>4. PICK t : t = [[[r EXCEPT !.pc = "commit"] EXCEPT !.session = 0] EXCEPT !.filled = filled]
    OBVIOUS
  <2>5. t.what = r.what
    BY <1>3, <2>4 DEF Busy
  <2>6. task' = [task EXCEPT ![w] = t]
    BY <1>2, <1>3, <2>1, <2>4
  <2> QED
    BY <2>3, <2>5, <2>6, RowEntered DEF Entered
<1>9. ASSUME NEW v \in People, OwnerTap(w, v), ~Return(w) PROVE WordsAreRefused'
  <2>1. CASE Start(w, "admadd", "idle")
    BY <1>1, <2>1, StartEntered
  <2>2. CASE task' = [task EXCEPT ![w].pc = "commit", ![w].target = v]
    <3>1. r.what \in {"admadd", "admdel"}
      BY <1>2, <1>9 DEF OwnerTap, OwnerTaps, What
    <3>2. PICK t : t = [[r EXCEPT !.pc = "commit"] EXCEPT !.target = v]
      OBVIOUS
    <3>3. t.what = r.what
      BY <1>3, <3>2 DEF Busy
    <3>4. task' = [task EXCEPT ![w] = t]
      BY <1>2, <1>3, <2>2, <3>2
    <3> QED
      BY <3>1, <3>3, <3>4, RowEntered DEF Entered
  <2> QED
    BY <1>9, <2>1, <2>2 DEF OwnerTap
<1>10. CASE ReadStep(w)
  <2>1. PICK at : task' = [task EXCEPT ![w].pc = "answer", ![w].at = at]
    BY <1>10 DEF ReadStep
  <2>2. PICK t : t = [[r EXCEPT !.pc = "answer"] EXCEPT !.at = at]
    OBVIOUS
  <2>3. t.pc = "answer"
    BY <1>3, <2>2 DEF Busy
  <2>4. task' = [task EXCEPT ![w] = t]
    BY <1>2, <1>3, <2>1, <2>2
  <2> QED
    BY <2>3, <2>4, RowEntered DEF Entered
<1> QED
  BY <1>4, <1>5, <1>6, <1>7, <1>8, <1>9, <1>10

\* Every step of a handler.
LEMMA StepEntered ==
  ASSUME ConversationInv, WordsAreRefused, NEW w \in Workers, Step(w)
  PROVE  WordsAreRefused'
<1>1. CASE \/ SlashAdmin(w) \/ OnText(w) \/ ReadStep(w) \/ Confirm(w) \/ Send(w)
           \/ \E v \in People : ToggleBlock(w, v) \/ OwnerTap(w, v)
  BY <1>1, FillingEntered
<1>2. CASE \/ Clear(w) \/ NothingToMake(w) \/ AskAgain(w) \/ Advance(w) \/ AdminHome(w)
           \/ Commit(w) \/ CommitFails(w) \/ \E k \in Keys : Choose(w, k)
  <2>1. Finish(w)
    BY <1>2 DEF Clear, NothingToMake, AskAgain, Advance, AdminHome, Commit, CommitFails, Choose,
       Return, ClearAndReturn
  <2> QED
    BY <2>1, IdleEntered
<1>3. CASE LetIn(w) \/ OnInput(w) \/ Keep(w) \/ AdminTap(w) \/ Act(w) \/ Exempt(w)
  <2>1. task[w].pc # "idle" /\ Stands(w, task[w])
    BY <1>3, RowOf DEF LetIn, OnInput, Keep, AdminTap, Act, Exempt, At
  <2>2. \/ Finish(w)
        \/ \E pc \in {"route", "input", "admin", "advance"} : Goto(w, pc)
        \/ Goto(w, "commit") /\ What(w) \in {"act", "ub"}
    BY <1>3, <2>1 DEF LetIn, OnInput, Keep, AdminTap, Act, Exempt, Return, ClearAndReturn, Pass, Stands,
       At, What
  <2> QED
    BY <2>1, <2>2, IdleEntered, PassEntered
<1>4. CASE LastStep(w) \/ CustomerInput(w)
  <2>1. Make(w, NoKey, User(w), "blank") /\ Conversing(w).form # "se"
    BY <1>4 DEF LastStep, CustomerInput, CustomerForms
  <2> QED
    BY <2>1, MadeEntered
<1>5. ASSUME NEW v \in Values, EnterSetting(w, v) PROVE WordsAreRefused'
  <2>1. /\ Make(w, Conversing(w).key, User(w), v)
        /\ Conversing(w).key \in Numeric => v # "words"
    BY <1>5 DEF EnterSetting
  <2> QED
    BY <2>1, MadeEntered
<1>6. ASSUME NEW v \in People, EnterAdmin(w, v) PROVE WordsAreRefused'
  <2>1. \/ Finish(w)
        \/ Make(w, NoKey, v, "blank") /\ Conversing(w).form = "admadd"
    BY <1>6 DEF EnterAdmin
  <2> QED
    BY <2>1, MadeEntered, IdleEntered
<1>7. CASE CustomerTap(w)
  <2>1. \/ Start(w, What(w), "idle")
        \/ Goto(w, "commit") /\ What(w) \in {"order", "photo"}
    BY <1>7 DEF CustomerTap, Pass
  <2>2. task[w].pc # "idle"
    BY <1>7 DEF CustomerTap, At
  <2> QED
    BY <2>1, <2>2, StartEntered, PassEntered
<1>8. CASE StartForm(w)
  <2>1. PICK pc \in {"idle", "choose"} : Start(w, What(w), pc)
    BY <1>8 DEF StartForm
  <2>2. task[w].pc # "idle"
    BY <1>8 DEF StartForm, At
  <2> QED
    BY <2>1, <2>2, StartEntered
<1> QED
  BY <1>1, <1>2, <1>3, <1>4, <1>5, <1>6, <1>7, <1>8 DEF Step, Input, Button

\* A numeric setting is given a number or is blanked, and nothing else: the
\* blank is all that the check in admin.go:553-556 lets through.
THEOREM OnlyBlanksSlipThrough == Spec => []WordsAreRefused
<1>1. Init => WordsAreRefused
  BY DEF Init, WordsAreRefused, Entered, Idle
<1>2. ASSUME ConversationInv, WordsAreRefused, [Next]_conversationVars
      PROVE  WordsAreRefused'
  <2>1. CASE UNCHANGED task
    BY <1>2, <2>1 DEF WordsAreRefused, Entered
  <2>2. ASSUME NEW w \in Workers, Step(w) PROVE WordsAreRefused'
    BY <1>2, <2>2, StepEntered
  <2>3. ASSUME NEW w \in Workers, NEW u \in People, NEW what \in Updates[u], Arrive(w, u, what)
        PROVE  WordsAreRefused'
    <3>1. PICK t : t = [pc |-> IF u \in blocked THEN "gate" ELSE "route", user |-> u, what |-> what,
                        session |-> 0, at |-> 0, filled |-> {}, key |-> NoKey, target |-> u,
                        value |-> "blank"]
      OBVIOUS
    <3>2. task' = [task EXCEPT ![w] = t]
      BY <2>3, <3>1 DEF Arrive, Receive
    <3>3. t.pc \in {"gate", "route"}
      BY <3>1
    <3> QED
      BY <1>2, <3>2, <3>3, RowEntered DEF Entered
  <2>4. CASE Restart
    BY <2>4 DEF Restart, WordsAreRefused, Entered, Idle
  <2> QED
    BY <1>2, <2>1, <2>2, <2>3, <2>4 DEF Next, Lapse, conversationVars
<1> QED
  BY <1>1, <1>2, ConversationKeepsInvariant, PTL DEF Spec
=============================================================================

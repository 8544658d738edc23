--------------------------- MODULE MCConversation ---------------------------
(* Who presses which buttons; see README.md, "Runs".                       *)
EXTENDS Conversation, TLC

CONSTANTS boss, staff, w1, w2

\* The owner manages the staff and makes codes, the other manages the shop.
MCUpdates ==
  (boss :> {"clear", "admadd", "admdel", "ub", "text", "dcadd"})
  @@ (staff :> {"clear", "/admin", "photo", "text", "dc", "a", "act", "admdel",
                "se", "bc", "bcgo"})

\* Bound: while the owner makes a code nobody else is there; it is for what two
\* handlers of one user do to the session they share.
CodesAlone ==
  (\E i \in Sessions : heap[boss][i].form = "dcadd") =>
    /\ admins = {} /\ blocked = {} /\ current[staff] = 0
    /\ \A w \in Workers : ~At(w, "idle") => User(w) = boss

Symmetry == Permutations(Workers)
=============================================================================

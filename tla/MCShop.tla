------------------------------- MODULE MCShop -------------------------------
(* The customers, the code and the symmetry of the Shop runs; see          *)
(* README.md, "Runs".                                                      *)
EXTENDS Shop, TLC

CONSTANTS u1, u2, w1, w2, c1, n1, n2

MCReferrer == (u1 :> u2) @@ (u2 :> Nobody)
NoReferrer == (u1 :> Nobody)

\* Half the price off, once.
MCTerms == (c1 :> [percent |-> 50, amount |-> 0, max |-> 1])
NoTerms == << >>

\* n1 and n2 are names the panel does not know yet; n3 is not like them.
Symmetry == Permutations(Workers) \cup Permutations({n1, n2})
=============================================================================

---------------------------- MODULE MCCustomers -----------------------------
(* The symmetry of the Customers run; see README.md, "Runs".               *)
EXTENDS Customers, TLC

CONSTANTS u1, u2, u3, k1, k2, k3, w1, w2

Symmetry == Permutations(People) \cup Permutations(Codes) \cup Permutations(Workers)
=============================================================================

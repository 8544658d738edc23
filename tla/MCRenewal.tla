----------------------------- MODULE MCRenewal ------------------------------
(* One account that has time left and one that never expires; see          *)
(* README.md, "Runs".                                                      *)
EXTENDS Renewal, TLC

CONSTANTS w1, w2, early, endless

MCFirstExpiry == (early :> 2) @@ (endless :> 0)
OnlyEarly == (early :> 2)

Symmetry == Permutations(Workers)
=============================================================================

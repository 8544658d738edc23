------------------------------ MODULE MCOrders ------------------------------
(* Two customers, the first invited by the second; see README.md, "Runs". *)
EXTENDS Orders, TLC

CONSTANTS u1, u2

MCReferrer == (u1 :> u2) @@ (u2 :> Nobody)
=============================================================================

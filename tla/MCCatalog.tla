----------------------------- MODULE MCCatalog ------------------------------
(* Instances of Catalog for TLC; see README.md, "Runs".                    *)
EXTENDS Catalog, TLC

CONSTANTS u1, u2, w1, w2, c1

\* One plan with an agent price and one without.
MCOffers == << [price |-> 3, agent |-> 2], [price |-> 2, agent |-> 0] >>

OneOffer == << [price |-> 3, agent |-> 0] >>

\* Half the price, once, and an amount without a limit.  In integers up to 127
\* the half of 3 does not fit.
MCTerms == {[percent |-> 50, amount |-> 0, max |-> 1],
            [percent |-> 0, amount |-> 5, max |-> 0]}

Symmetry == Permutations(Workers)

=============================================================================

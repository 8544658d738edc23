------------------------------ MODULE Pricing -------------------------------
(***************************************************************************)
(* What a discount code takes off a price: Apply of                        *)
(* internal/store/catalog.go, on integers as wide as Go's int64.           *)
(***************************************************************************)
EXTENDS GoInt

ASSUME PricingAssumption == MaxInt \in Nat /\ MaxInt >= 100

\* A percentage wins over an amount.
Off(terms, price) ==
  IF terms.percent > 0 THEN Quotient(Wrap(price * terms.percent), 100) ELSE terms.amount

\* Mutant: the discount is taken as it comes out.
ApplyUnchecked(terms, price) == Off(terms, price)

Apply(terms, price) ==
  LET off == Off(terms, price)
      most == IF off > price THEN price ELSE off
  IN IF most < 0 THEN 0 ELSE most

=============================================================================

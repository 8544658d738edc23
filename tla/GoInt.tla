------------------------------- MODULE GoInt --------------------------------
(***************************************************************************)
(* Go's int64, of any width: what Pricing and Renewal multiply and divide. *)
(***************************************************************************)
EXTENDS Integers

CONSTANT MaxInt     \* the largest integer: 2^63 - 1 in the program

\* A product that does not fit wraps around (two's complement).
Wrap(x) == ((x + MaxInt + 1) % (2 * MaxInt + 2)) - (MaxInt + 1)

\* Go's division of integers truncates towards zero.
Quotient(x, n) == IF x >= 0 THEN x \div n ELSE -((-x) \div n)

=============================================================================

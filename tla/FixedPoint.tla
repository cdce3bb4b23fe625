----------------------------- MODULE FixedPoint -----------------------------
(***************************************************************************)
(* threads/fixedpoint.h: numbers in 17.14 format held in an int.  x and y  *)
(* are fixed-point numbers, n is an integer.  Every result is stored in an *)
(* int, so it wraps; products and quotients of two fixed-point numbers are *)
(* formed in 64 bits, which no pair of ints overflows.                     *)
(***************************************************************************)
EXTENDS Integers

CONSTANTS
  F,        \* the unit, 2^14 in the code
  INT_MAX   \* the largest int, 2^31 - 1 in the code

ASSUME FixedPointAssumption ==
  /\ F \in Nat \ {0}
  /\ INT_MAX \in Nat
  /\ F <= INT_MAX

(* Storing x in an int.                                                    *)
Wrap(x) ==
  IF -INT_MAX - 1 <= x /\ x <= INT_MAX THEN x
  ELSE ((x + INT_MAX + 1) % (2 * (INT_MAX + 1))) - INT_MAX - 1

(* C's division, which rounds toward zero.                                 *)
Quot(a, b) ==
  LET Abs(x) == IF x < 0 THEN -x ELSE x
      q == Abs(a) \div Abs(b)
  IN  IF (a < 0) = (b < 0) THEN q ELSE -q

int_to_fp(n) == Wrap(n * F)
fp_to_int_round(x) ==
  Quot(IF x >= 0 THEN Wrap(x + F \div 2) ELSE Wrap(x - F \div 2), F)

add_fp(x, y) == Wrap(x + y)
add_int(x, n) == Wrap(x + Wrap(n * F))
sub_fp(x, y) == Wrap(x - y)
mult_fp(x, y) == Wrap(Quot(x * y, F))
mult_int(x, n) == Wrap(x * n)
div_fp(x, y) == Wrap(Quot(x * F, y))
div_int(x, n) == Quot(x, n)

=============================================================================

------------------------------- MODULE Arith64 ------------------------------
(***************************************************************************)
(* lib/arithmetic.c: division of double words with an instruction that     *)
(* divides a double word by a word and traps when the quotient does not    *)
(* fit a word.  W is the width of a word, 32 in the code.                  *)
(***************************************************************************)
EXTENDS Integers

CONSTANTS W, Trap

B == 2 ^ W            \* b in udiv64()
Double == 0 .. B * B - 1
ToSigned(u) == IF u >= (B * B) \div 2 THEN u - B * B ELSE u
ToSignedWord(u) == IF u % B >= B \div 2 THEN (u % B) - B ELSE u % B

VARIABLES n, d, op, result

vars == <<n, d, op, result>>

divl(x, y) == IF y = 0 \/ x \div y >= B THEN Trap ELSE x \div y

(* nlz(): the code halves the word five times; w is the half.              *)
Step(w, s) == IF s.x <= (2 ^ (W - w)) - 1 THEN [n |-> s.n + w, x |-> (s.x * 2 ^ w) % B] ELSE s
nlz(x) == Step(1, Step(2, [n |-> 0, x |-> x])).n

\* Mutant: the estimate is taken for the quotient.
Correct_not(x, y, q) == q
Correct(x, y, q) == IF (x - (q - 1) * y) % (B * B) < y THEN q - 1 ELSE q

\* Mutant: the high word is not reduced first.
High_whole(x, y) == x \div B
High(x, y) == (x \div B) % y

udiv64(x, y) ==
  IF y \div B = 0
  THEN LET q == IF y = 0 THEN Trap ELSE divl(B * High(x, y) + (x % B), y) IN
       IF q = Trap THEN Trap ELSE (q + B * ((x \div B) \div y)) % (B * B)
  ELSE IF x < y THEN 0
  ELSE LET s == nlz(y \div B)
           q == divl(x \div 2, ((y * 2 ^ s) % (B * B)) \div B)
       IN IF q = Trap THEN Trap ELSE Correct(x, y, q \div 2 ^ (W - 1 - s)) % (B * B)

Abs(x) == IF x >= 0 THEN x ELSE -x

\* Mutant: the signs are not looked at.
Negate_never(x, y) == FALSE
Negate(x, y) == (x < 0) # (y < 0)

sdiv64(x, y) ==
  LET q == udiv64(Abs(x), Abs(y)) IN
  IF q = Trap THEN Trap ELSE ToSigned((IF Negate(x, y) THEN -q ELSE q) % (B * B))

(* The remainders are returned as words: uint32_t and int32_t.             *)
umod64(x, y) == LET q == udiv64(x, y) IN IF q = Trap THEN Trap ELSE (x - y * q) % B
smod64(x, y) == LET q == sdiv64(x, y) IN IF q = Trap THEN Trap ELSE ToSignedWord(x - y * q)

(* The routines the compiler calls.                                        *)
Init == /\ n \in Double /\ d \in Double /\ op = "none" /\ result = 0

udivdi3 == op = "none" /\ op' = "udiv" /\ result' = udiv64(n, d) /\ UNCHANGED <<n, d>>
umoddi3 == op = "none" /\ op' = "umod" /\ result' = umod64(n, d) /\ UNCHANGED <<n, d>>
divdi3 == op = "none" /\ op' = "div" /\ result' = sdiv64(ToSigned(n), ToSigned(d)) /\ UNCHANGED <<n, d>>
moddi3 == op = "none" /\ op' = "mod" /\ result' = smod64(ToSigned(n), ToSigned(d)) /\ UNCHANGED <<n, d>>

Returned == op # "none" /\ UNCHANGED vars

Next == udivdi3 \/ umoddi3 \/ divdi3 \/ moddi3 \/ Returned

Spec == Init /\ [][Next]_vars

-----------------------------------------------------------------------------
(* The quotient of unsigned numbers is the one of arithmetic, and the
   division never traps but for a divisor of zero ("this code is correct and
   will not trap").                                                        *)
QuotientExact ==
  op = "udiv" => IF d = 0 THEN result = Trap
                 ELSE result # Trap /\ result * d <= n /\ n < (result + 1) * d

(* The quotient of signed numbers is rounded towards zero; the one case
   whose quotient is no double word wraps around.                          *)
SignedQuotient ==
  LET x == ToSigned(n) y == ToSigned(d) IN
  op = "div" /\ d # 0 =>
    IF x = -((B * B) \div 2) /\ y = -1 THEN result = x
    ELSE /\ Abs(result) * Abs(y) <= Abs(x) /\ Abs(x) < (Abs(result) + 1) * Abs(y)
         /\ result # 0 => (result < 0) = ((x < 0) # (y < 0))

(* As long as the divisor is a word, so is the remainder, and it is exact. *)
RemainderOfWords ==
  /\ op = "umod" /\ d \in 1 .. B => result = n % d
  /\ LET x == ToSigned(n) y == ToSigned(d) IN
     op = "mod" /\ Abs(y) \in 1 .. B \div 2 =>
       result = (IF x < 0 THEN -1 ELSE 1) * (Abs(x) % Abs(y))
=============================================================================

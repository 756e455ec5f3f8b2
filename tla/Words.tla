-------------------------------- MODULE Words --------------------------------
(***************************************************************************)
(* The machine's integers and the IR's operators on them: two's complement *)
(* words.  Null is the value of an operation that is undefined: division   *)
(* by zero, the least word divided by -1, a shift by more than the width.  *)
(***************************************************************************)
EXTENDS Integers, FiniteSetsExt

CONSTANTS
  Width,   \* the number of bits: 32 in the compiler
  Null

Least == -(2 ^ (Width - 1))
Word  == Least .. -Least - 1

Wrapped(n) == ((n - Least) % (2 ^ Width)) + Least

Truth(p) == IF p THEN 1 ELSE 0

Absolute(n) == IF n < 0 THEN -n ELSE n

\* Division rounds to zero.
Quotient(a, b) ==
  IF (a < 0) = (b < 0) THEN Absolute(a) \div Absolute(b) ELSE -(Absolute(a) \div Absolute(b))

\* The word whose bits are those of a and b combined by Op.
Bits(Op(_, _), a, b) ==
  Wrapped(MapThenSumSet(LAMBDA i : 2 ^ i * Op((a \div 2 ^ i) % 2, (b \div 2 ^ i) % 2),
                        0..Width - 1))

Min2(i, j) == IF i < j THEN i ELSE j
Odd(i, j)  == (i + j) % 2
Max2(i, j) == IF i < j THEN j ELSE i

\* binary_stmt and compare_stmt.
Operation(op, a, b) ==
  CASE op = "add" -> Wrapped(a + b)
    [] op = "sub" -> Wrapped(a - b)
    [] op = "mul" -> Wrapped(a * b)
    [] op \in {"sdiv", "srem"} /\ (b = 0 \/ <<a, b>> = <<Least, -1>>) -> Null
    [] op = "sdiv" /\ b # 0 -> Wrapped(Quotient(a, b))
    [] op = "srem" /\ b # 0 -> a - b * Quotient(a, b)
    [] op = "and" -> Bits(Min2, a, b)
    [] op = "or"  -> Bits(Max2, a, b)
    [] op = "xor" -> Bits(Odd, a, b)
    [] op = "shl" -> IF b \in 0..Width - 1 THEN Wrapped(a * 2 ^ b) ELSE Null
    [] op = "ashr" -> IF b \in 0..Width - 1 THEN a \div 2 ^ b ELSE Null
    [] op = "eq" -> Truth(a = b)
    [] op = "ne" -> Truth(a # b)
    [] op = "slt" -> Truth(a < b)
    [] op = "sle" -> Truth(a <= b)
    [] op = "sgt" -> Truth(a > b)
    [] op = "sge" -> Truth(a >= b)

=============================================================================

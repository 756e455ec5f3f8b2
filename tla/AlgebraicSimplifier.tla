------------------------- MODULE AlgebraicSimplifier -------------------------
(***************************************************************************)
(* algebraicSimplifier: the number of an operation on two numbers.  A      *)
(* number is a constant, what a definition holds that is not looked into,  *)
(* or an expression:                                                       *)
(*   <<"const", n>>    <<"unknown", operand>>    <<op, number, number>>    *)
(* The rules of an operator are tried from the first to the last, as TLC   *)
(* takes the cases of a CASE.  A word has as many bits as a number of 2^n, *)
(* so a shift of the host takes its amount modulo that.                    *)
(***************************************************************************)
EXTENDS Execution

CONSTANT Swap   \* whether the hash of two numbers that are not constant puts the second first

BinaryOps == {"add", "sub", "mul", "sdiv", "srem", "shl", "ashr", "and", "or", "xor"}

K(n) == <<"const", Wrapped(n)>>

\* What the rules leave if it is no number, but an expression of two.
SetResult(op, x, y) == <<"expression", op, x, y>>

IsConst(n) == n[1] = "const"

\* m_binary with a constant to the right, and to the left.
ByConst(n, op) == n[1] = op /\ IsConst(n[3])
OfConst(n, op) == n[1] = op /\ IsConst(n[2])

\* m_negative
IsNegative(n) == n[1] = "mul" /\ n[3] = K(-1)

Plus(a, b)  == K(a[2] + b[2])
Minus(a, b) == K(a[2] - b[2])
Times(a, b) == K(a[2] * b[2])
Divides(d, c) == c[2] % Absolute(d[2]) = 0   \* f_times

Shifted(c, d) == K(c[2] * 2 ^ (d[2] % Width))

\* A constant to the right; of two others, the one with the smaller hash to the left.
TryFormatize(l, r) ==
  CASE IsConst(l) -> <<r, l>>
    [] IsConst(r) -> <<l, r>>
    [] OTHER -> LET p == CHOOSE p \in {<<l, r>>, <<r, l>>} : TRUE
                IN  IF Swap THEN <<p[2], p[1]>> ELSE p

\* The other operand of op, if x is one of n's.
Has(n, op, x)   == n[1] = op /\ x \in {n[2], n[3]}
Other(n, x) == IF n[2] = x THEN n[3] ELSE n[2]

\* The visit of an operation, from the pass and from the rules of another.
RECURSIVE Simplified(_, _, _)

Negated(r) == Simplified("neg", r, r)

VisitADD(lval, rval) ==
  LET f == TryFormatize(lval, rval) l == f[1] r == f[2]
  IN  CASE l = r -> Simplified("mul", l, K(2))
        [] IsConst(r) /\ IsConst(l) -> Plus(l, r)
        [] r = K(0) -> l
        [] IsConst(r) /\ ByConst(l, "add") -> Simplified("add", l[2], Plus(l[3], r))
        [] IsConst(r) /\ OfConst(l, "sub") -> Simplified("sub", Plus(l[2], r), l[3])
        [] IsConst(r) -> SetResult("add", l, r)
        [] IsNegative(r) -> Simplified("sub", l, r[2])
        [] r[1] = "sub" /\ r[3] = l -> r[2]
        [] ByConst(r, "mul") /\ r[2] = l -> Simplified("mul", l, Plus(r[3], K(1)))
        [] ByConst(l, "mul") /\ ByConst(r, "mul") /\ l[2] = r[2] -> Simplified("mul", l[2], Plus(l[3], r[3]))
        [] IsNegative(l) -> Simplified("sub", r, l[2])
        [] l[1] = "sub" /\ l[3] = r -> l[2]
        [] ByConst(l, "mul") /\ l[2] = r -> Simplified("mul", r, Plus(l[3], K(1)))
        [] OTHER -> SetResult("add", l, r)

\* The rule on a negative number to the left does not ask what is subtracted.
VisitSUB(l, r) ==
  CASE IsConst(r) -> Simplified("add", l, K(-r[2]))
    [] l = K(0) -> Negated(r)
    [] l = r -> K(0)
    [] IsNegative(r) -> Simplified("add", l, r[2])
    [] r[1] = "sub" /\ r[2] = l -> r[3]
    [] Has(r, "add", l) -> Negated(Other(r, l))
    [] ByConst(r, "mul") /\ r[2] = l -> Simplified("mul", l, Minus(K(1), r[3]))
    [] IsConst(l) /\ ByConst(r, "add") -> Simplified("sub", Minus(l, r[3]), r[2])
    [] IsConst(l) /\ OfConst(r, "sub") -> Simplified("add", r[3], Minus(l, r[2]))
    [] ByConst(l, "mul") /\ ByConst(r, "mul") /\ l[2] = r[2] -> Simplified("mul", l[2], Minus(l[3], r[3]))
    [] IsNegative(l) -> Simplified("mul", l[2], K(-2))
    [] l[1] = "sub" /\ l[2] = r -> Negated(l[3])
    [] Has(l, "add", r) -> Other(l, r)
    [] ByConst(l, "mul") /\ l[2] = r -> Simplified("mul", r, Minus(l[3], K(1)))
    [] OTHER -> SetResult("sub", l, r)

VisitNEG(r) ==
  CASE IsConst(r) -> K(-r[2])
    [] ByConst(r, "add") -> Simplified("sub", K(-r[3][2]), r[2])
    [] r[1] = "sub" -> Simplified("sub", r[3], r[2])
    [] ByConst(r, "mul") -> Simplified("mul", r[2], K(-r[3][2]))
    [] OfConst(r, "shl") -> SetResult("shl", K(-r[2][2]), r[3])
    [] OTHER -> SetResult("mul", r, K(-1))

VisitMUL(lval, rval) ==
  LET f == TryFormatize(lval, rval) l == f[1] r == f[2]
  IN  CASE r = K(0) -> r
        [] r = K(1) -> l
        [] r = K(-1) -> Negated(l)
        [] IsConst(r) /\ IsConst(l) -> Times(l, r)
        [] IsConst(r) /\ ByConst(l, "mul") -> Simplified("mul", l[2], Times(l[3], r))
        [] IsConst(r) /\ ByConst(l, "shl") -> Simplified("mul", l[2], Shifted(l[3], r))
        [] IsConst(r) /\ OfConst(l, "shl") -> Simplified("shl", Times(l[2], r), l[3])
        [] IsConst(r) /\ ByConst(l, "ashr") /\ Shifted(K(1), l[3]) = r -> Simplified("and", l[2], K(-r[2]))
        [] ~IsConst(r) /\ IsNegative(l) /\ IsNegative(r) -> Simplified("mul", l[2], r[2])
        [] OTHER -> SetResult("mul", l, r)

\* What a pattern bound before it failed is still used: -1 for (0 - x) / (x * c).
VisitDIV(l, r) ==
  CASE l = r -> K(1)
    [] r = K(1) -> l
    [] r = K(0) -> K(0)
    [] r = K(-1) -> Negated(l)
    [] IsConst(r) /\ IsConst(l) -> K(Quotient(l[2], r[2]))
    [] IsConst(r) /\ ByConst(l, "mul") /\ Divides(r, l[3]) -> Simplified("mul", l[2], K(Quotient(l[3][2], r[2])))
    [] IsConst(r) /\ ByConst(l, "sdiv") -> Simplified("sdiv", l[2], Times(l[3], r))
    [] IsConst(r) /\ IsNegative(l) -> Simplified("sdiv", l[2], K(-r[2]))
    [] IsConst(r) -> SetResult("sdiv", l, r)
    [] l[1] = "mul" /\ l[3] = r -> l[2]
    [] l[1] = "mul" /\ l[2] = r -> l[3]
    [] (IsNegative(l) \/ IsNegative(r)) /\ l[1] = "mul" /\ r[1] = "mul" /\ l[2] = r[2] -> K(-1)
    [] IsNegative(r) /\ IsConst(l) -> Simplified("sdiv", K(-l[2]), r[2])
    [] IsNegative(l) /\ IsNegative(r) -> Simplified("sdiv", l[2], r[2])
    [] OTHER -> SetResult("sdiv", l, r)

VisitMOD(l, r) ==
  CASE l = r -> K(0)
    [] r \in {K(0), K(1), K(-1)} -> K(0)
    [] IsConst(r) /\ IsConst(l) -> K(l[2] - r[2] * Quotient(l[2], r[2]))
    [] IsConst(r) /\ ByConst(l, "mul") /\ Divides(r, l[3]) -> K(0)
    [] IsConst(r) -> SetResult("srem", l, r)
    [] IsNegative(r) -> Simplified("srem", l, r[2])
    [] Has(l, "mul", r) -> K(0)
    [] OTHER -> SetResult("srem", l, r)

\* The first rule on two shifts loses the amount that is not constant.
VisitSHL(l, r) ==
  CASE l = K(0) -> l
    [] ~IsConst(r) -> SetResult("shl", l, r)
    [] r = K(0) -> l
    [] r[2] >= Width -> K(0)
    [] IsConst(l) -> Shifted(l, r)
    [] OfConst(l, "shl") -> Shifted(l[2], r)
    [] ByConst(l, "shl") -> Simplified("shl", l[2], Plus(l[3], r))
    [] l[1] = "ashr" /\ l[3] = r -> Simplified("and", l[2], Shifted(K(-1), r))
    [] OTHER -> SetResult("shl", l, r)

VisitSHR(l, r) ==
  LET shifted(c) == K(c[2] \div 2 ^ (r[2] % Width))
  IN  CASE l = K(0) -> l
        [] ~IsConst(r) -> SetResult("ashr", l, r)
        [] r = K(0) -> l
        [] IsConst(l) -> shifted(l)
        [] OfConst(l, "ashr") -> shifted(l[2])
        [] ByConst(l, "ashr") -> Simplified("ashr", l[2], Plus(l[3], r))
        [] OTHER -> SetResult("ashr", l, r)

BitsOf(op, a, b) == K(Operation(op, a[2], b[2]))
Complement(c)    == K(-1 - c[2])

VisitAND(lval, rval) ==
  LET f == TryFormatize(lval, rval) l == f[1] r == f[2]
  IN  CASE l = r -> l
        [] r = K(0) -> r
        [] r = K(-1) -> l
        [] IsConst(r) /\ IsConst(l) -> BitsOf("and", l, r)
        [] IsConst(r) /\ ByConst(l, "and") -> Simplified("and", l[2], BitsOf("and", l[3], r))
        [] IsConst(r) -> SetResult("and", l, r)
        [] Has(l, "and", r) -> Simplified("and", r, Other(l, r))
        [] Has(l, "or", r) -> r
        [] ByConst(l, "xor") /\ l[2] = r -> Simplified("and", r, Complement(l[3]))
        [] Has(r, "and", l) -> Simplified("and", l, Other(r, l))
        [] Has(r, "or", l) -> l
        [] ByConst(r, "xor") /\ r[2] = l -> Simplified("and", l, Complement(r[3]))
        [] OTHER -> SetResult("and", l, r)

VisitOR(lval, rval) ==
  LET f == TryFormatize(lval, rval) l == f[1] r == f[2]
  IN  CASE l = r -> l
        [] r = K(0) -> l
        [] r = K(-1) -> r
        [] IsConst(r) /\ IsConst(l) -> BitsOf("or", l, r)
        [] IsConst(r) /\ ByConst(l, "or") -> Simplified("or", l[2], BitsOf("or", l[3], r))
        [] IsConst(r) -> SetResult("or", l, r)
        [] Has(l, "or", r) -> Simplified("or", r, Other(l, r))
        [] Has(l, "and", r) -> r
        [] l[1] = "xor" /\ l[2] = r -> Simplified("or", r, l[3])
        [] Has(r, "or", l) -> Simplified("or", l, Other(r, l))
        [] Has(r, "and", l) -> l
        [] r[1] = "xor" /\ r[2] = l -> Simplified("or", l, r[3])
        [] OTHER -> SetResult("or", l, r)

VisitXOR(lval, rval) ==
  LET f == TryFormatize(lval, rval) l == f[1] r == f[2]
  IN  CASE l = r -> K(0)
        [] r = K(0) -> l
        [] IsConst(r) /\ IsConst(l) -> BitsOf("xor", l, r)
        [] IsConst(r) /\ ByConst(l, "xor") -> Simplified("xor", l[2], BitsOf("xor", l[3], r))
        [] IsConst(r) -> SetResult("xor", l, r)
        [] Has(l, "xor", r) -> Other(l, r)
        [] ByConst(l, "and") /\ l[2] = r -> Simplified("and", r, Complement(l[3]))
        [] Has(r, "xor", l) -> Other(r, l)
        [] ByConst(r, "and") /\ r[2] = l -> Simplified("and", l, Complement(r[3]))
        [] OTHER -> SetResult("xor", l, r)

Simplified(op, x, y) ==
  CASE op = "add" -> VisitADD(x, y)
    [] op = "sub" -> VisitSUB(x, y)
    [] op = "neg" -> VisitNEG(x)
    [] op = "mul" -> VisitMUL(x, y)
    [] op = "sdiv" -> VisitDIV(x, y)
    [] op = "srem" -> VisitMOD(x, y)
    [] op = "shl" -> VisitSHL(x, y)
    [] op = "ashr" -> VisitSHR(x, y)
    [] op = "and" -> VisitAND(x, y)
    [] op = "or" -> VisitOR(x, y)
    [] op = "xor" -> VisitXOR(x, y)

=============================================================================

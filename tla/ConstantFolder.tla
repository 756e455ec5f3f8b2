--------------------------- MODULE ConstantFolder ---------------------------
(***************************************************************************)
(* constantFolder: operators on literals are done on the tree.  Fold gives *)
(* the tree that a visit leaves in place of a node; where the code sets a  *)
(* replacement, that is the result.  Literals are changed in place, each   *)
(* belongs to one node.  What the host gives for an operation that is      *)
(* undefined on it, any word, is a parameter.                              *)
(***************************************************************************)
EXTENDS Syntax

IsLiteral(n) == n.k = "literal"

\* visitArithDouble, on the host's int.  Only a division by zero is left as it is.
VisitArithDouble(n, op, l, r, host) ==
  LET value == Operation(Arithmetic[op], l.v, r.v)
  IN  CASE op \in {"/", "%"} /\ r.v = 0 -> n
        [] value # Null -> IntLit(value)
        [] OTHER -> IntLit(host)

\* visitArithSingle: l is no literal.
VisitArithSingle(n, op, l, r) ==
  CASE r.v = 0 /\ op \in {"+", "-", "|", "^", "<<", ">>"} -> l
    [] r.v = 0 /\ op \in {"*", "&"} -> r
    [] r.v = 1 /\ op \in {"*", "/"} -> l
    [] r.v \in {1, -1} /\ op = "%" -> IntLit(0)
    [] r.v = -1 /\ op = "&" -> l
    [] r.v = -1 /\ op = "|" -> r
    [] OTHER -> n

\* visitShortCircuit: of two literals, and of one.
VisitShortCircuit(n, isOr, l, r) ==
  CASE IsLiteral(l) /\ IsLiteral(r) -> BoolLit(Truth(l.v + r.v + Truth(isOr) > 1))
    [] IsLiteral(l) -> IF isOr = (l.v = 1) THEN l ELSE r
    [] OTHER -> IF isOr = (r.v = 1) THEN n ELSE l

VisitCompare(n, op, l, r) ==
  IF IsLiteral(l) /\ IsLiteral(r) THEN BoolLit(Operation(Comparison[op], l.v, r.v)) ELSE n

Commutes(op) == op \notin {"-", "/", "%", "<<", ">>"}

\* A literal to the left of an operator that commutes goes to the right.
VisitBinary(n, host) ==
  LET l == n.e[1] r == n.e[2] op == n.op
  IN  CASE (~IsLiteral(l) /\ ~IsLiteral(r)) \/ op = "=" -> n
        [] op \in Logical -> VisitShortCircuit(n, op = "||", l, r)
        [] op \in DOMAIN Comparison -> VisitCompare(n, op, l, r)
        [] IsLiteral(l) /\ IsLiteral(r) -> VisitArithDouble(n, op, l, r, host)
        [] IsLiteral(r) -> VisitArithSingle(n, op, l, r)
        [] Commutes(op) -> VisitArithSingle([n EXCEPT !.e = <<r, l>>], op, r, l)
        [] OTHER -> n

VisitUnary(n) ==
  LET l == n.e[1]
  IN  CASE ~IsLiteral(l) -> n
        [] n.op = "+" -> l
        [] n.op = "-" -> IntLit(Wrapped(-l.v))
        [] n.op = "~" -> IntLit(-1 - l.v)
        [] n.op = "!" -> BoolLit(1 - l.v)

RECURSIVE Fold(_, _)

Fold(n, host) ==
  LET m == [n EXCEPT !.e = [i \in DOMAIN n.e |-> Fold(n.e[i], host)]]
  IN  CASE n.k = "bracket" -> m.e[1]
        [] n.k = "unary" -> VisitUnary(m)
        [] n.k = "binary" -> VisitBinary(m, host)
        [] n.k = "ternary" /\ IsLiteral(m.e[1]) -> IF m.e[1].v = 1 THEN m.e[2] ELSE m.e[3]
        [] OTHER -> m

=============================================================================

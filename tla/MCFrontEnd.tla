------------------------------ MODULE MCFrontEnd ------------------------------
(***************************************************************************)
(* Instances of FrontEnd for TLC: small functions.                         *)
(***************************************************************************)
EXTENDS FrontEnd

MCBlock == 1..30
MCEntry == 1
MCDummy == 0
MCInputs == [1..4 -> {0, 1}]

MCFunctions ==
  [ask |-> [t |-> "bool", args |-> <<"int">>], number |-> [t |-> "int", args |-> <<"int">>],
   tell |-> [t |-> "void", args |-> <<"int">>], given |-> [t |-> "bool", args |-> <<"bool">>],
   take |-> [t |-> "void", args |-> <<"node", "int[]">>], get |-> [t |-> "int", args |-> <<"int">>]]

MCMethods ==
  [get |-> [t |-> "int", args |-> <<"int">>], put |-> [t |-> "void", args |-> <<>>]]

MCLayout == <<<<"m", "int">>, <<"next", "node">>>>

Apply(f, args) == Invoke(Id(f), args)
Ask(n)    == Apply("ask", <<IntLit(n)>>)
Number(n) == Apply("number", <<IntLit(n)>>)
Tell(e)   == Simple(<<Apply("tell", <<e>>)>>)
Is(l, r)  == Simple(<<Binary("=", l, r)>>)

Body(list) == CodeBlock(Append(list, Flow("return", Id("x"))))
Main(list) == Function("int", "main", 0, <<>>, Body(list))

X == Id("x")
One == IntLit(1)
And(a, b) == Binary("&&", a, b)
Or(a, b)  == Binary("||", a, b)

\* All pairs from two sequences.
Pairs(s, t, F(_, _)) ==
  [i \in 1..Len(s) * Len(t) |-> F(s[((i - 1) \div Len(t)) + 1], t[((i - 1) % Len(t)) + 1])]

Each(s, F(_)) == [i \in DOMAIN s |-> F(s[i])]

(***************************************************************************)
(* Conditions of up to three parts, with any part negated or a literal, in *)
(* an if, a loop, and where their value is asked for.                      *)
(***************************************************************************)
Parts == <<Ask(1), BoolLit(1), BoolLit(0), Binary("==", X, One), Unary("!", Ask(2))>>

Two == Pairs(Parts, Parts, And) \o Pairs(Parts, Parts, Or)

Three ==
  Pairs(Two, <<Ask(3), Unary("!", Ask(4))>>, And) \o Pairs(<<Ask(3), Unary("!", Ask(4))>>, Two, Or)

InIf(cond) == Main(<<Def("int", "x", Number(0)), If(<<cond, Tell(One)>>, Tell(IntLit(2)))>>)

InWhile(cond) == Main(<<Def("int", "x", Number(0)), While(cond, Tell(Unary("x++", X)))>>)

AsValue(cond) ==
  Main(<<Def("int", "x", Number(0)), Def("bool", "b", cond),
         Is(Id("b"), Unary("!", Bracket(Binary("==", Id("b"), cond)))),
         If(<<Id("b"), Tell(One)>>, None)>>)

AsChoice(cond) ==
  Main(<<Def("int", "x", Number(0)), Tell(Ternary(cond, Binary("+", Unary("++", X), X), Ternary(Ask(2), Unary("x--", X), X))),
         Simple(<<Ternary(cond, Apply("tell", <<X>>), Apply("tell", <<One>>))>>)>>)

(***************************************************************************)
(* Loops: what the condition and the step are, and what the body does.     *)
(***************************************************************************)
Bodies ==
  <<Tell(X), Flow("continue", None), Flow("break", None),
    CodeBlock(<<If(<<Ask(1), Flow("break", None), Ask(2), Flow("continue", None)>>, None), Tell(X)>>),
    CodeBlock(<<While(Ask(3), Flow("break", None)), Flow("continue", None), Tell(One)>>),
    Flow("return", X)>>

Heads ==
  <<<<None, Ask(0), None>>, <<None, None, Tell(IntLit(3))>>,
    <<Def("int", "i", IntLit(0)), Binary("<", Id("i"), IntLit(2)), Unary("++", Id("i"))>>,
    <<Binary("=", X, One), And(Ask(4), Binary("!=", X, IntLit(3))), Unary("x++", X)>>>>

Looping(h, body) == Main(<<Def("int", "x", IntLit(0)), For(h[1], h[2], h[3], body), Tell(X)>>)

(***************************************************************************)
(* Every operator on literals, a variable and a value that is known late.  *)
(***************************************************************************)
Operators ==
  <<"+", "-", "*", "/", "%", "&", "|", "^", "<<", ">>", "==", "!=", "<", "<=", ">", ">=">>

Operands ==
  <<IntLit(0), One, IntLit(-1), IntLit(2), X, Bracket(Unary("-", One)), Unary("~", X), Unary("+", X), Unary("~", Unary("+", IntLit(3)))>>

Operating(op, l, r) ==
  Main(<<Def("int", "x", Number(0)),
         IF op \in DOMAIN Comparison THEN Def("bool", "b", Binary(op, l, r))
         ELSE Is(X, Binary(op, l, r))>>)

Operations ==
  Pairs(Operators, Pairs(Operands, Operands, LAMBDA l, r : <<l, r>>), LAMBDA op, p : Operating(op, p[1], p[2]))

(***************************************************************************)
(* Names that are hidden, declared twice or not at all, and wrong types.   *)
(***************************************************************************)
DefX == Def("int", "x", Number(5))

Pieces ==
  <<DefX, Def("int", "x", Binary("+", X, One)), Def("bool", "x", Ask(1)), Def("bool", "x", X),
    CodeBlock(<<DefX, Tell(X)>>), CodeBlock(<<Tell(X), Def("int", "x", X), Tell(X)>>),
    If(<<Ask(1), DefX>>, DefX), For(DefX, Ask(2), Tell(X), Tell(X)), For(DefX, Ask(2), None, DefX),
    While(X, DefX), While(Ask(3), DefX), Simple(<<Binary("=", X, One)>>), Simple(<<Binary("=", One, X)>>),
    Simple(<<And(Ask(1), Binary("==", X, Ask(2)))>>), Flow("break", None), Flow("return", Ask(1)),
    Simple(<<Unary("++", Unary("x++", X))>>), Simple(<<Unary("++", Unary("--", X))>>),
    Simple(<<Unary("++", Unary("+", X))>>), Is(X, Unary("+", Ask(1))),
    Tell(Ternary(Ask(1), X, Ask(2))), Def("void", "y", None), Def("int", "y", None)>>

(***************************************************************************)
(* Arrays: elements that are read, written, stepped and replaced.  A is    *)
(* array of two, B one of arrays.                                          *)
(***************************************************************************)
A == Id("a")
B == Id("b")
At(e, i) == Subscript(e, <<i>>)
Size(e)  == Invoke(Member(e, "size"), <<>>)
Null_(t) == Ternary(Ask(1), NullLit, t)

WithArrays(list) ==
  Main(<<Def("int", "x", One), Def("int[]", "a", New("int[]", <<IntLit(2)>>)), Is(At(A, IntLit(0)), Number(0)), Is(At(A, X), IntLit(3)),
         Def("int[][]", "b", New("int[][]", <<IntLit(2), IntLit(1)>>)), Is(At(At(B, X), IntLit(0)), Number(1))>>
       \o list \o
       <<Tell(At(A, IntLit(0))), Tell(Subscript(B, <<One, IntLit(0)>>)), Tell(Size(At(B, IntLit(0))))>>)

ArrayPieces ==
  <<Is(At(A, Unary("x--", X)), X), Is(At(A, X), Binary("=", X, IntLit(0))), Simple(<<Unary("++", At(A, At(A, IntLit(0))))>>),
    Tell(Unary("x++", At(A, IntLit(0)))), Tell(At(Bracket(Binary("=", A, At(B, X))), Number(2))), Is(At(B, One), A),
    Is(A, At(B, One)), Is(A, NullLit), Def("int[]", "a", NullLit), Is(B, New("int[][]", <<X, Number(2)>>)),
    Is(B, New("int[][]", <<IntLit(1)>>)), If(<<Binary("==", At(B, X), A), Tell(One), Binary("!=", NullLit, A), Tell(X)>>, None),
    Is(A, Ternary(Ask(1), A, NullLit)), Tell(Size(Ternary(Ask(1), New("int[]", <<X>>), A))),
    While(Binary("<", At(A, IntLit(0)), Size(A)), Simple(<<Unary("++", At(A, IntLit(0)))>>)),
    Is(A, B), Is(At(B, X), One), Tell(At(X, X)), Tell(At(A, A)), Is(NullLit, A), Is(A, Binary("+", A, A)), Is(Size(A), One),
    Tell(Subscript(A, <<One, One>>)), Tell(Member(A, "m")), Tell(Invoke(Member(X, "size"), <<>>)), Is(Null_(A), A),
    Simple(<<Binary("==", A, B)>>), Def("bool", "c", Binary("<", A, A)), Is(X, NullLit)>>

(***************************************************************************)
(* Objects and calls of functions.  P is an object that leads to itself.   *)
(***************************************************************************)
P == Id("p")
M(e) == Member(e, "m")
N(e) == Member(e, "next")

WithObjects(list) ==
  Main(<<Def("int", "x", One), Def("node", "p", New("node", <<>>)), Is(M(P), Number(0)), Is(N(P), P)>>
       \o list \o <<Tell(M(N(P))), Tell(M(P))>>)

ObjectPieces ==
  <<Is(M(N(N(P))), Unary("++", X)), Is(N(P), New("node", <<>>)), Is(M(N(P)), Binary("+", M(P), One)), Is(P, N(P)),
    Is(P, NullLit), Is(N(P), NullLit), Tell(Invoke(Member(P, "get"), <<Unary("x++", M(P))>>)),
    Simple(<<Invoke(Member(N(P), "put"), <<>>)>>), If(<<Binary("==", N(P), P), Tell(One)>>, Tell(X)),
    While(And(Binary("!=", P, NullLit), Ask(1)), Is(P, N(P))), Def("node[]", "q", New("node[]", <<IntLit(2)>>)),
    Tell(M(Ternary(Ask(1), P, NullLit))), Simple(<<Apply("take", <<NullLit, NullLit>>)>>), Simple(<<Apply("take", <<P, NullLit>>)>>),
    Tell(Invoke(Bracket(Id("number")), <<One>>)), Tell(Invoke(Bracket(Ternary(Ask(1), Id("number"), Id("get"))), <<One>>)),
    Def("int", "number", Number(1)),
    Simple(<<Apply("take", <<NullLit, P>>)>>), Simple(<<Apply("take", <<P>>)>>), Simple(<<Invoke(P, <<>>)>>), Is(Member(P, "get"), One),
    Is(P, One), Tell(Apply("get", <<One>>)), Simple(<<Apply("put", <<>>)>>), Tell(Id("m")), Tell(Member(P, "x")), Is(Id("this"), P), Tell(At(P, One)),
    Def("bool", "c", Binary("==", P, One)), Tell(Invoke(Member(P, "get"), <<>>)), Tell(Invoke(Member(P, "put"), <<>>))>>

(***************************************************************************)
(* Functions with parameters, with and without a result, and member        *)
(* functions, whose members may be hidden.                                 *)
(***************************************************************************)
This == Id("this")

Signatures ==
  <<<<"int", 0, <<Def("int", "x", None), Def("bool", "y", None)>>>>, <<"void", 0, <<Def("int", "x", None)>>>>,
    <<"int", 1, <<Def("int", "x", None)>>>>, <<"void", 1, <<Def("int", "m", None)>>>>, <<"int", 1, <<>>>>>>

FunctionPieces ==
  <<Tell(X), Is(X, Ternary(Id("y"), One, X)), Def("int", "x", X), Def("int", "m", IntLit(3)), Def("int", "get", One),
    Is(Id("m"), Number(1)), Is(M(This), IntLit(2)), Is(Id("next"), NullLit), Is(M(Id("next")), X), Is(Id("next"), New("node", <<>>)),
    Tell(Apply("get", <<Id("m")>>)), Simple(<<Invoke(Member(Id("next"), "put"), <<>>)>>), Is(This, NullLit),
    If(<<Binary("==", This, Id("next")), Flow("return", Id("m"))>>, Flow("return", One)), Flow("return", None),
    Flow("return", Apply("tell", <<One>>)), Flow("return", X), Flow("return", This),
    For(Def("int", "i", IntLit(0)), Ask(1), Unary("++", M(This)), Tell(Id("m")))>>

OfSignature(sig, list) == Function(sig[1], "f", sig[2], sig[3], CodeBlock(list))

Defining ==
  Pairs(Signatures, Pairs(FunctionPieces, FunctionPieces, LAMBDA a, b : <<a, b>>), OfSignature)

MCPrograms ==
  Each(Three, InIf) \o Each(Two, InWhile) \o Each(Two, AsValue) \o Each(Two \o Parts, AsChoice)
    \o Pairs(Heads, Bodies, Looping) \o Operations
    \o Pairs(Pieces, Pieces, LAMBDA a, b : Main(<<a, b>>)) \o Pairs(ArrayPieces, ArrayPieces, LAMBDA a, b : WithArrays(<<a, b>>))
    \o Pairs(ObjectPieces, ObjectPieces, LAMBDA a, b : WithObjects(<<a, b>>)) \o Defining

(***************************************************************************)
(* What the builder gets wrong: a condition that is negated as a whole,    *)
(* and one inside of an argument.                                          *)
(***************************************************************************)
Guarded(cond) == InIf(Apply("given", <<cond>>))

MCNegated == Each(Each(Two, LAMBDA cond : Unary("!", Bracket(cond))), InIf) \o Each(Two \o Parts, Guarded)

=============================================================================

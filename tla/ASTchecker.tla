----------------------------- MODULE ASTchecker -----------------------------
(***************************************************************************)
(* ASTchecker: the scopes of names and the types of expressions, in one    *)
(* walk over a function.  Each name that is declared gets a variable of    *)
(* its own, numbered in the order of the walk, and each use of a name      *)
(* refers to the variable of the innermost scope that has it.              *)
(*                                                                         *)
(* The walk hands on a state: the scopes that are open, outermost first,   *)
(* the number of variables, the depth of loop_stack, what the function     *)
(* returns, whether no semantic_check failed, and of the node visited last *)
(* its new form, its type, the function of which that is the type, if it   *)
(* is one, and whether it is assignable.  A failed check ends the walk.    *)
(***************************************************************************)
EXTENDS Syntax

Checked(s, p) == [s EXCEPT !.ok = @ /\ p]

Left(s, n, t, assignable) == [s EXCEPT !.node = [n EXCEPT !.t = t], !.t = t, !.func = "", !.lv = assignable]

(***************************************************************************)
(* What a name may stand for.  Variables have numbers; the type of a       *)
(* function is where it belongs, and the function itself.                  *)
(***************************************************************************)
Identifier(id, t) == [id |-> id, t |-> t]
NoIdentifier      == Identifier(0, "none")
This              == Identifier(-1, "node")
MemberVariable(x) == Identifier(-2, TypeAt(x))

FunctionTypes == {"global function", "member function", "array function"}

Signature(t, f) ==
  CASE t = "global function" -> Functions[f]
    [] t = "member function" -> Methods[f]
    [] t = "array function" -> [t |-> "int", args |-> <<>>]

GlobalScope == [f \in DOMAIN Functions |-> Identifier(0, "global function")]
ClassScope  == [f \in DOMAIN Methods |-> Identifier(0, "member function")] @@ [x \in MemberVariables |-> MemberVariable(x)]
ArrayScope  == ("size" :> Identifier(0, "array function"))

Assignable(var) == var.t \notin FunctionTypes /\ var # This

\* scope::find
Find(scopes, x) ==
  LET holding == {i \in DOMAIN scopes : x \in DOMAIN scopes[i]}
  IN  IF holding = {} THEN NoIdentifier ELSE scopes[Max(holding)][x]

\* What a name is found to be, with the function.
LeftAs(s, n, var, x) ==
  [Left(s, n, var.t, Assignable(var)) EXCEPT !.func = IF var.t \in FunctionTypes THEN x ELSE ""]

Open(s)  == [s EXCEPT !.scopes = Append(@, <<>>)]
Close(s) == [s EXCEPT !.scopes = Front(@)]

IsConvertible(src, dst) == Fits(src, dst)

RECURSIVE Visit(_, _)

\* The children of a node one after the other, and the node with their new forms.
Children(s, n) ==
  FoldLeft(LAMBDA p, c : LET u == Visit(p.s, c)
                         IN  [s |-> u, n |-> [p.n EXCEPT !.e = Append(@, u.node)],
                              ts |-> Append(p.ts, u.t), funcs |-> Append(p.funcs, u.func), lvs |-> Append(p.lvs, u.lv)],
           [s |-> s, n |-> [n EXCEPT !.e = <<>>], ts |-> <<>>, funcs |-> <<>>, lvs |-> <<>>], n.e)

(***************************************************************************)
(* Expressions.                                                            *)
(***************************************************************************)
\* type_checker: the operators of a type, and what they give.
Allowed(op, t) ==
  CASE t = "int" -> op \notin Logical
    [] t = "bool" -> op \in Logical \cup {"==", "!="}
    [] OTHER -> op \in {"==", "!="}

ResultOf(op, t) == IF op \in DOMAIN Comparison THEN "bool" ELSE t

VisitBinary(c, op) ==
  LET l == c.ts[1] r == c.ts[2]
      values == \A t \in {l, r} : t \notin FunctionTypes \cup {"void"}
  IN  IF op = "="
      THEN Left(Checked(c.s, values /\ c.lvs[1] /\ IsConvertible(r, l)), c.n, l, c.lvs[1])
      ELSE Left(Checked(c.s, /\ values
                             /\ IsConvertible(r, l) \/ IsConvertible(l, r)
                             /\ Allowed(op, IF l = r THEN l ELSE "other")),
                c.n, ResultOf(op, l), FALSE)

\* Steps, +, - and ~ are of integers.
VisitUnary(c, op) ==
  LET steps == op \in {"++", "--", "x++", "x--"}
  IN  Left(Checked(c.s, /\ c.ts[1] = (IF op = "!" THEN "bool" ELSE "int")
                        /\ steps => c.lvs[1]),
           c.n, c.ts[1], op \in {"++", "--"})

\* Two functions have different types.
VisitTernary(c) ==
  LET l == c.ts[2] r == c.ts[3]
      fit == (IsConvertible(r, l) \/ IsConvertible(l, r)) /\ (l = r => c.funcs[2] = c.funcs[3])
      from == IF IsConvertible(r, l) THEN 2 ELSE 3
  IN  [Left(Checked(c.s, c.ts[1] = "bool" /\ fit), c.n, c.ts[from], FALSE) EXCEPT !.func = c.funcs[from]]

\* The subscripts first, then the array; its type without as many dimensions.
VisitSubscript(s, n) ==
  LET c == Children(s, [n EXCEPT !.e = Append(Tail(@), Head(@))])
      inner(t, i) == IF t \in DOMAIN ElementOf THEN ElementOf[t] ELSE "none"
      type == FoldLeft(inner, Last(c.ts), Front(c.ts))
  IN  Left(Checked(c.s, (\A t \in Range(Front(c.ts)) : t = "int") /\ type # "none"),
           [c.n EXCEPT !.e = <<Last(@)>> \o Front(@)], type, TRUE)

\* The class's scope lies in the global one, the array's in none.  Other types
\* have no scope: the search through a null pointer ends the compiler.
VisitMember(c) ==
  LET scopes == CASE c.ts[1] \in DOMAIN ElementOf -> <<ArrayScope>>
                  [] c.ts[1] = "node" -> <<GlobalScope, ClassScope>>
                  [] OTHER -> <<>>
      var == Find(scopes, c.n.op)
  IN  LeftAs(Checked(c.s, var # NoIdentifier), c.n, var, c.n.op)

VisitAtomic(s, n) ==
  LET var == Find(s.scopes, n.op)
  IN  LeftAs(Checked(s, var # NoIdentifier), [n EXCEPT !.v = var.id], var, n.op)

VisitFunction(c) ==
  LET isFunction == c.ts[1] \in FunctionTypes
      sig  == IF isFunction THEN Signature(c.ts[1], c.funcs[1]) ELSE [t |-> "none", args |-> <<>>]
      args == Tail(c.ts)
  IN  Left(Checked(c.s, /\ isFunction
                        /\ Len(args) = Len(sig.args)
                        /\ \A i \in DOMAIN args : i \in DOMAIN sig.args => IsConvertible(args[i], sig.args[i])),
           c.n, sig.t, FALSE)

VisitConstruct(c) == Left(Checked(c.s, \A t \in Range(c.ts) : t = "int"), c.n, c.n.t, FALSE)

(***************************************************************************)
(* Statements.                                                             *)
(***************************************************************************)
Redeclared(scopes, x) == FALSE   \* a slip

Duplicate(scopes, x) == x \in DOMAIN Last(scopes)

VisitVariableDef(s, n) ==
  LET c   == Children(s, n)
      var == Identifier(c.s.count + 1, n.t)
      ok  == /\ n.t # "void"
             /\ n.e # <<None>> => IsConvertible(c.ts[1], n.t)
             /\ ~Duplicate(c.s.scopes, n.op)
  IN  Left([Checked(c.s, ok) EXCEPT !.count = var.id, !.scopes[Len(c.s.scopes)] = (n.op :> var) @@ @],
           [c.n EXCEPT !.v = var.id], "void", FALSE)

VisitFor(s, n) ==
  LET head == Children(Open(s), [n EXCEPT !.e = SubSeq(@, 1, 3)])
      body == Visit([head.s EXCEPT !.loops = @ + 1], n.e[4])
  IN  Left(Close([Checked(body, n.e[2] = None \/ head.ts[2] = "bool") EXCEPT !.loops = @ - 1]),
           [head.n EXCEPT !.e = Append(@, body.node)], "void", FALSE)

VisitWhile(s, n) ==
  LET cond == Visit(Open(s), n.e[1])
      body == Visit([cond EXCEPT !.loops = @ + 1], n.e[2])
  IN  Left(Close([Checked(body, cond.t = "bool") EXCEPT !.loops = @ - 1]),
           [n EXCEPT !.e = <<cond.node, body.node>>], "void", FALSE)

\* Each body has a scope of its own, the conditions that of the statement.
VisitBranch(s, n) ==
  FoldLeft(LAMBDA u, i :
             LET isBody == i = Len(n.e) \/ i % 2 = 0
                 w == IF isBody THEN Close(Visit(Open(u), n.e[i])) ELSE Visit(u, n.e[i])
             IN  Left(Checked(w, isBody \/ w.t = "bool"), [u.node EXCEPT !.e[i] = w.node], "void", FALSE),
           [s EXCEPT !.node = n], [i \in DOMAIN n.e |-> i])

VisitFlow(s, n) ==
  LET c == Children(s, n)
  IN  Left(Checked(c.s, CASE n.op # "return" -> s.loops > 0
                          [] n.e = <<None>> -> s.result = "void"
                          [] OTHER -> IsConvertible(c.ts[1], s.result)),
           c.n, "void", FALSE)

Visit(s, n) ==
  CASE ~s.ok -> s
    [] n.k = "none" -> Left(s, n, "", FALSE)
    [] n.k = "literal" -> Left(s, n, n.t, FALSE)
    [] n.k = "atomic" -> VisitAtomic(s, n)
    [] n.k = "bracket" -> LET c == Children(s, n)
                          IN  [Left(c.s, c.n, c.ts[1], c.lvs[1]) EXCEPT !.func = c.funcs[1]]
    [] n.k = "unary" -> VisitUnary(Children(s, n), n.op)
    [] n.k = "binary" -> VisitBinary(Children(s, n), n.op)
    [] n.k = "ternary" -> VisitTernary(Children(s, n))
    [] n.k = "subscript" -> VisitSubscript(s, n)
    [] n.k = "member" -> VisitMember(Children(s, n))
    [] n.k = "function" -> VisitFunction(Children(s, n))
    [] n.k = "construct" -> VisitConstruct(Children(s, n))
    [] n.k = "simple" -> LET c == Children(s, n) IN Left(c.s, c.n, "void", FALSE)
    [] n.k = "block" -> LET c == Children(Open(s), n) IN Left(Close(c.s), c.n, "void", FALSE)
    [] n.k = "def" -> VisitVariableDef(s, n)
    [] n.k = "branch" -> VisitBranch(s, n)
    [] n.k = "for" -> VisitFor(s, n)
    [] n.k = "while" -> VisitWhile(s, n)
    [] n.k = "flow" -> VisitFlow(s, n)

\* visitFunctionDef: a member function's scope has this and lies in the class's.
VisitFunctionDef(f) ==
  LET scopes == IF f.v = 0 THEN <<GlobalScope, <<>>>> ELSE <<GlobalScope, ClassScope, ("this" :> This)>>
      start  == [scopes |-> scopes, count |-> 0, loops |-> 0, result |-> f.t, ok |-> TRUE,
                 node |-> None, t |-> "void", func |-> "", lv |-> FALSE]
      c      == Children(start, f)
  IN  [c.s EXCEPT !.node = c.n]

=============================================================================

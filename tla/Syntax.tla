------------------------------- MODULE Syntax -------------------------------
(***************************************************************************)
(* The source language, as far as the models of the front end go: one      *)
(* function that calls others, with integers, booleans, arrays and objects *)
(* of one class, and what it means.                                        *)
(*                                                                         *)
(* A node of the tree has its kind, an operator or name, a type, a number  *)
(* and its children.  The meaning is what calls are given, in their order. *)
(* The n-th call returns the n-th input; a run stops when there is no more *)
(* input or when it does what is undefined, and goes wrong on a name that  *)
(* is not declared, a value of the wrong type or a break without a loop.   *)
(***************************************************************************)
EXTENDS Execution, TLC

CONSTANTS
  Functions,   \* of each global function what it returns and what it is given
  Methods,     \* the same of the member functions of the class
  Layout       \* the names of the class's member variables, and their types

Tree(k, op, t, v, e) == [k |-> k, op |-> op, t |-> t, v |-> v, e |-> e]

None            == Tree("none", "", "", 0, <<>>)
IntLit(n)       == Tree("literal", "", "int", n, <<>>)
BoolLit(n)      == Tree("literal", "", "bool", n, <<>>)
NullLit         == Tree("literal", "", "null", 0, <<>>)
Id(x)           == Tree("atomic", x, "", 0, <<>>)
Bracket(e)      == Tree("bracket", "", "", 0, <<e>>)
Unary(op, e)    == Tree("unary", op, "", 0, <<e>>)
Binary(op, l, r) == Tree("binary", op, "", 0, <<l, r>>)
Ternary(c, l, r) == Tree("ternary", "", "", 0, <<c, l, r>>)
Subscript(e, list) == Tree("subscript", "", "", 0, <<e>> \o list)
Member(e, x)    == Tree("member", x, "", 0, <<e>>)
Invoke(e, args) == Tree("function", "", "", 0, <<e>> \o args)
New(t, sizes)   == Tree("construct", "", t, 0, sizes)

Simple(list)       == Tree("simple", "", "", 0, list)
Def(t, x, init)    == Tree("def", x, t, 0, <<init>>)
CodeBlock(list)    == Tree("block", "", "", 0, list)
If(list, other)    == Tree("branch", "", "", 0, Append(list, other))
For(i, c, s, body) == Tree("for", "", "", 0, <<i, c, s, body>>)
While(c, body)     == Tree("while", "", "", 0, <<c, body>>)
Flow(op, value)    == Tree("flow", op, "", 0, <<value>>)

\* A function of the program: parameters and a body.  A member function has 1.
Function(t, x, isMember, params, body) == Tree("definition", x, t, isMember, Append(params, body))
Parameters(f) == Front(f.e)
IsMain(f)     == f.op = "main" /\ f.v = 0

-----------------------------------------------------------------------------

(***************************************************************************)
(* Types: node is the class.  An array type has that of its elements.      *)
(***************************************************************************)
ElementOf == ("int[]" :> "int") @@ ("int[][]" :> "int[]") @@ ("node[]" :> "node")

\* is_convertible: null stands for no array and for no object.
Fits(src, dst) == src = dst \/ (src = "null" /\ dst \notin {"void", "int", "bool"})

MemberVariables == {Layout[i][1] : i \in DOMAIN Layout}
Offset(x)  == CHOOSE i \in 0..Len(Layout) - 1 : Layout[i + 1][1] = x
TypeAt(x)  == Layout[Offset(x) + 1][2]

Arithmetic == ("+" :> "add") @@ ("-" :> "sub") @@ ("*" :> "mul") @@ ("/" :> "sdiv") @@
  ("%" :> "srem") @@ ("&" :> "and") @@ ("|" :> "or") @@ ("^" :> "xor") @@
  ("<<" :> "shl") @@ (">>" :> "ashr")

Comparison == ("==" :> "eq") @@ ("!=" :> "ne") @@ ("<" :> "slt") @@ ("<=" :> "sle") @@
  (">" :> "sgt") @@ (">=" :> "sge")

Logical == {"&&", "||"}

(***************************************************************************)
(* The meaning.  A state has the values of each name, those of outer       *)
(* blocks first, how many of them outer blocks own, the cells of memory,   *)
(* the object of a member function, what is left of the input, the         *)
(* outputs, how it goes on, the last expression's value, and the name or   *)
(* cell it is in.  A value has its type; what is not initialized is Null.  *)
(***************************************************************************)
Nowhere == <<"none", Null>>

Going(s)       == s.st = "go"
Now(s, st)     == [s EXCEPT !.st = st]
Gives(s, t, v) == [s EXCEPT !.v = <<t, v>>, !.at = Nowhere]
Unplaced(s)    == [s EXCEPT !.at = Nowhere]
In(s, cell)    == [s EXCEPT !.v = s.heap[cell], !.at = <<"cell", cell>>]

\* F of the state whose value fits a type.
On(s, t, F(_)) ==
  IF ~Going(s) THEN s ELSE IF ~Fits(s.v[1], t) THEN Now(s, "wrong") ELSE F([s EXCEPT !.v[1] = t])

RECURSIVE Meaning(_, _)

InOrder(list, s) == FoldLeft(LAMBDA u, n : IF Going(u) THEN Meaning(n, u) ELSE u, s, list)

\* The state and the values of expressions that have to fit these types.
Values(list, ts, s) ==
  FoldLeft(LAMBDA p, i : LET u == On(Meaning(list[i], p[1]), ts[i], LAMBDA w : w)
                         IN  IF ~Going(p[1]) THEN p ELSE <<u, Append(p[2], u.v[2])>>,
           <<IF Len(list) = Len(ts) THEN s ELSE Now(s, "wrong"), <<>>>>, [i \in DOMAIN list |-> i])

\* A block hides the names it declares from what is behind it.
Scoped(list, s) ==
  LET own(u)   == [x \in DOMAIN u.env |-> Len(u.env[x])]
      done     == InOrder(list, [s EXCEPT !.owned = own(s)])
  IN  [done EXCEPT !.owned = s.owned, !.env = [x \in DOMAIN @ |-> SubSeq(@[x], 1, Len(s.env[x]))]]

Called(s, t, args) ==
  LET u == [s EXCEPT !.out = Append(@, args)]
  IN  IF s.in = <<>> THEN Now(u, "stop") ELSE Gives([u EXCEPT !.in = Tail(@)], t, IF t = "void" THEN Null ELSE Head(s.in))

\* What is done if a condition holds, and if it does not.
Choice(cond, s, Yes(_), No(_)) ==
  On(Meaning(cond, s), "bool",
     LAMBDA c : IF c.v[2] = Null THEN Now(c, "stop") ELSE IF c.v[2] = 1 THEN Yes(c) ELSE No(c))

(***************************************************************************)
(* Names, elements, members, and what is assigned to them.                 *)
(***************************************************************************)
Within(s, object, x) == In(s, object + Offset(x))

Used(x, s) ==
  CASE s.env[x] # <<>> -> [s EXCEPT !.v = Last(s.env[x]), !.at = <<"name", x>>]
    [] s.this # Null /\ x = "this" -> Gives(s, "node", s.this)
    [] s.this # Null /\ x \in MemberVariables -> Within(s, s.this, x)
    [] OTHER -> Now(s, "wrong")

IsAddress(v) == v \notin {Null, 0}

\* The array's value is taken before the subscript's.
Indexed(list, s) ==
  FoldLeft(LAMBDA u, i :
             LET w == On(Meaning(i, u), "int", LAMBDA y : y) a == u.v
             IN  CASE ~Going(w) -> w
                   [] a[1] \notin DOMAIN ElementOf \cup {"null"} -> Now(w, "wrong")
                   [] ~IsAddress(a[2]) -> Now(w, "stop")
                   [] w.v[2] \notin 0..w.heap[a[2] - 1][2] - 1 -> Now(w, "stop")
                   [] OTHER -> In(w, a[2] + w.v[2]),
           s, list)

Selected(x, s) ==
  CASE ~Going(s) -> s
    [] s.v[1] = "null" -> Now(s, "stop")
    [] s.v[1] # "node" \/ x \notin MemberVariables -> Now(s, "wrong")
    [] ~IsAddress(s.v[2]) -> Now(s, "stop")
    [] OTHER -> Within(s, s.v[2], x)

\* A value is put where it fits.
Assigned(s, at, value) ==
  LET old == IF at[1] = "name" THEN Last(s.env[at[2]]) ELSE s.heap[at[2]]
      new == <<old[1], value[2]>>
  IN  CASE at = Nowhere -> Now(s, "wrong")
        [] ~Fits(value[1], old[1]) -> Now(s, "wrong")
        [] at[1] = "name" -> [s EXCEPT !.env[at[2]] = Append(Front(@), new), !.v = new, !.at = at]
        [] OTHER -> [s EXCEPT !.heap[at[2]] = new, !.v = new, !.at = at]

(***************************************************************************)
(* Calls: of a function, of a member function on an object, of size on an  *)
(* array.  What is called by its name alone may be a member function.      *)
(***************************************************************************)
RECURSIVE Invoked(_, _, _)

Invoked(f, args, s) ==
  LET object == IF f.k = "member" THEN Meaning(f.e[1], s) ELSE s
      given(u, sig, this) ==
        LET p == Values(args, sig.args, u) IN IF Going(p[1]) THEN Called(p[1], sig.t, this \o p[2]) ELSE p[1]
      free == f.k = "atomic" /\ s.env[f.op] = <<>>
  IN  CASE ~Going(object) -> object
        [] f.k = "bracket" -> Invoked(f.e[1], args, s)
        [] free /\ s.this # Null /\ f.op \in DOMAIN Methods -> given(s, Methods[f.op], <<s.this>>)
        [] free /\ f.op \in DOMAIN Functions -> given(s, Functions[f.op], <<>>)
        [] f.k = "member" /\ object.v[1] = "null" -> Now(object, "stop")
        [] f.k = "member" /\ object.v[1] = "node" /\ f.op \in DOMAIN Methods ->
             IF IsAddress(object.v[2]) THEN given(object, Methods[f.op], <<object.v[2]>>) ELSE Now(object, "stop")
        [] f.k = "member" /\ object.v[1] \in DOMAIN ElementOf /\ f.op = "size" /\ args = <<>> ->
             IF IsAddress(object.v[2]) THEN Gives(object, "int", object.heap[object.v[2] - 1][2]) ELSE Now(object, "stop")
        [] OTHER -> Now(s, "wrong")

(***************************************************************************)
(* new: memory for an array, and for each of its elements if those are     *)
(* arrays with a length too; or for an object, which is then constructed.  *)
(***************************************************************************)
WithMemory(s, t, len, F(_)) ==
  LET a == NextPiece(DOMAIN s.heap)
  IN  Gives([s EXCEPT !.heap = @ @@ [c \in a - 1..a + PieceSize - 2 |-> IF c = a - 1 THEN <<"int", len>> ELSE F(c - a)]], t, a)

RECURSIVE Arrays(_, _, _)

Arrays(t, sizes, s) ==
  LET len == Head(sizes)
      one == WithMemory(s, t, len, LAMBDA i : <<ElementOf[t], Null>>)
      a   == one.v[2]
      put(u, i) ==
        LET w == IF Going(u) THEN Arrays(ElementOf[t], Tail(sizes), u) ELSE u
        IN  IF Going(w) THEN [w EXCEPT !.heap[a + len - i] = w.v] ELSE w
      all == FoldLeft(put, one, [i \in 1..len |-> i])
  IN  CASE ~HasRoom(len) -> Now(s, "stop")
        [] Len(sizes) = 1 -> one
        [] OTHER -> IF Going(all) THEN Gives(all, t, a) ELSE all

Object(s) ==
  LET new == WithMemory(s, "node", Len(Layout), LAMBDA i : IF i < Len(Layout) THEN <<Layout[i + 1][2], Null>> ELSE <<"int", Null>>)
      done == Called(new, "void", <<new.v[2]>>)
  IN  IF Going(done) THEN Gives(done, "node", new.v[2]) ELSE done

Constructed(n, s) ==
  LET p == Values(n.e, [i \in DOMAIN n.e |-> "int"], s)
  IN  IF n.e = <<>> THEN Object(s) ELSE IF Going(p[1]) THEN Arrays(n.t, p[2], p[1]) ELSE p[1]

(***************************************************************************)
(* Operators.                                                              *)
(***************************************************************************)
\* Whether operands of these types may be compared or combined.
Combine(op, l, r) ==
  IF op \in {"==", "!="} THEN l # "void" /\ (Fits(l, r) \/ Fits(r, l)) ELSE l = "int" /\ r = "int"

Defined(op, l, r) == IF Null \in {l, r} THEN Null ELSE Operation(op, l, r)

Operated(n, s) ==
  LET l == Meaning(n.e[1], s)
      r == IF Going(l) THEN Meaning(n.e[2], l) ELSE l
      second(u) == On(Meaning(n.e[2], u), "bool", LAMBDA w : w)
  IN  CASE n.op = "||" -> Unplaced(Choice(n.e[1], s, LAMBDA u : u, second))
        [] n.op = "&&" -> Unplaced(Choice(n.e[1], s, second, LAMBDA u : u))
        [] ~Going(r) -> r
        [] n.op = "=" -> Assigned(r, l.at, r.v)
        [] ~Combine(n.op, l.v[1], r.v[1]) -> Now(r, "wrong")
        [] n.op \in DOMAIN Comparison -> Gives(r, "bool", Defined(Comparison[n.op], l.v[2], r.v[2]))
        [] OTHER -> Gives(r, "int", Defined(Arithmetic[n.op], l.v[2], r.v[2]))

Signed(n, s) ==
  LET u == Meaning(n.e[1], s)
      stepped(w) == Assigned(w, w.at, <<"int", Defined("add", w.v[2], IF n.op \in {"++", "x++"} THEN 1 ELSE -1)>>)
  IN  CASE n.op = "!" -> On(u, "bool", LAMBDA w : Gives(w, "bool", Defined("eq", w.v[2], 0)))
        [] n.op = "+" -> On(u, "int", LAMBDA w : Gives(w, "int", w.v[2]))
        [] n.op = "-" -> On(u, "int", LAMBDA w : Gives(w, "int", Defined("sub", 0, w.v[2])))
        [] n.op = "~" -> On(u, "int", LAMBDA w : Gives(w, "int", Defined("xor", -1, w.v[2])))
        [] n.op \in {"++", "--"} -> On(u, "int", stepped)
        [] OTHER -> On(u, "int", LAMBDA w : Gives(stepped(w), "int", w.v[2]))

Chosen(n, s) ==
  Unplaced(Choice(n.e[1], s, LAMBDA u : Meaning(n.e[2], u), LAMBDA u : Meaning(n.e[3], u)))

(***************************************************************************)
(* Statements.                                                             *)
(***************************************************************************)
\* The turns of a loop: its condition, its body, its step.
RECURSIVE Looped(_, _, _, _)

Looped(cond, step, body, s) ==
  LET turn(u) ==
        LET b == Scoped(<<body>>, u)
            d == InOrder(<<step>>, IF b.st = "continue" THEN Now(b, "go") ELSE b)
        IN  IF d.st = "break" THEN Now(d, "go") ELSE IF Going(d) THEN Looped(cond, step, body, d) ELSE d
  IN  IF cond = None THEN turn(s) ELSE Choice(cond, s, turn, LAMBDA u : u)

RECURSIVE Branched(_, _)

Branched(list, s) ==
  IF Len(list) = 1 THEN Scoped(list, s)
  ELSE Choice(list[1], s, LAMBDA u : Scoped(<<list[2]>>, u), LAMBDA u : Branched(SubSeq(list, 3, Len(list)), u))

\* A name is declared once per block; the initial value still sees the outer one.
Declared(n, s) ==
  LET u == IF n.e[1] = None THEN Gives(s, n.t, Null) ELSE Meaning(n.e[1], s)
  IN  On(u, n.t, LAMBDA w : IF Len(w.env[n.op]) > w.owned[n.op] THEN Now(w, "wrong")
                            ELSE [w EXCEPT !.env[n.op] = Append(@, w.v)])

Returned(s) == Now([s EXCEPT !.out = Append(@, <<s.v[2]>>)], "return")

Flown(n, s) ==
  CASE n.op # "return" -> Now(s, n.op)
    [] n.e[1] = None -> IF s.result = "void" THEN Returned(Gives(s, "void", Null)) ELSE Now(s, "wrong")
    [] OTHER -> On(Meaning(n.e[1], s), s.result, Returned)

Meaning(n, s) ==
  CASE ~Going(s) \/ n.k = "none" -> s
    [] n.k = "literal" -> Gives(s, n.t, n.v)
    [] n.k = "atomic" -> Used(n.op, s)
    [] n.k = "bracket" -> Meaning(n.e[1], s)
    [] n.k = "subscript" -> Indexed(Tail(n.e), Meaning(n.e[1], s))
    [] n.k = "member" -> Selected(n.op, Meaning(n.e[1], s))
    [] n.k = "unary" -> Signed(n, s)
    [] n.k = "binary" -> Operated(n, s)
    [] n.k = "ternary" -> Chosen(n, s)
    [] n.k = "function" -> Invoked(n.e[1], Tail(n.e), s)
    [] n.k = "construct" -> Constructed(n, s)
    [] n.k = "simple" -> InOrder(n.e, s)
    [] n.k = "block" -> Scoped(n.e, s)
    [] n.k = "def" -> Declared(n, s)
    [] n.k = "branch" -> Branched(n.e, s)
    [] n.k = "for" -> Scoped(<<n.e[1], Tree("loop", "", "", 0, Tail(n.e))>>, s)
    [] n.k = "loop" -> Looped(n.e[1], n.e[2], n.e[3], s)
    [] n.k = "while" -> Looped(n.e[1], None, n.e[2], s)
    [] n.k = "flow" -> Flown(n, s)

\* The names that are used or declared in a tree.
RECURSIVE Names(_)

Names(n) ==
  (IF n.k \in {"atomic", "def"} THEN {n.op} ELSE {}) \cup UNION {Names(c) : c \in Range(n.e)}

\* A member function runs on an object that leads to itself.
Self == NextPiece({})

Memory(f) ==
  LET member(i) == IF Layout[i + 1][2] = "node" THEN <<"node", Self>> ELSE <<Layout[i + 1][2], 1>>
      cells == Self - 1..Self + PieceSize - 2
  IN  IF f.v = 0 THEN <<>>
      ELSE [c \in cells |-> IF c - Self \in 0..Len(Layout) - 1 THEN member(c - Self) ELSE <<"int", Len(Layout)>>]

\* A function is given the first inputs.  Behind its end main returns 0, one
\* without a result returns, and what another does is undefined.
MeaningOf(f, input) ==
  LET params  == Parameters(f)
      isA(x)  == \E i \in DOMAIN params : params[i].op = x
      its(x)  == CHOOSE i \in DOMAIN params : params[i].op = x
      start   == [env |-> [x \in Names(f) |-> IF isA(x) THEN <<<<params[its(x)].t, input[its(x)]>>>> ELSE <<>>],
                  owned |-> [x \in Names(f) |-> 0], heap |-> Memory(f), this |-> IF f.v = 0 THEN Null ELSE Self,
                  result |-> f.t, in |-> SubSeq(input, Len(params) + 1, Len(input)), out |-> <<>>,
                  st |-> "go", v |-> <<"void", Null>>, at |-> Nowhere]
      done    == Meaning(Last(f.e), start)
  IN  CASE ~Going(done) -> done
        [] IsMain(f) -> Returned(Gives(done, "int", 0))
        [] f.t = "void" -> Returned(Gives(done, "void", Null))
        [] OTHER -> Now(done, "stop")

=============================================================================

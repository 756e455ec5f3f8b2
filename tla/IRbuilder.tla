------------------------------ MODULE IRbuilder ------------------------------
(***************************************************************************)
(* IRbuilder: the statements and blocks of a function from its checked     *)
(* tree.  An expression in a condition is lowered to branches: the stack   *)
(* of branch settings holds where a value that is false and one that is    *)
(* true leads.                                                             *)
(*                                                                         *)
(* The builder b holds what was made so far: of each block its phi         *)
(* statements, its statements, its flow statement and the condition or     *)
(* result of that, the list of the blocks (function::data), the current    *)
(* block, the value visited last, the two stacks, and the number of        *)
(* temporaries.  Blocks are numbers; what is put into the dummy is lost.   *)
(* Temporaries are odd names, variables even ones.  Of the types of        *)
(* temporaries it holds those which have that of the null literal.  A      *)
(* failed assertion ends the walk.                                         *)
(***************************************************************************)
EXTENDS Syntax

CONSTANT FormatLimit   \* a loop condition shorter than that is built twice: 114

NoFlow == [op |-> "none", to |-> <<>>]

Variable(id)  == Named(2 * id)
Temporary(id) == Named(2 * id + 1)
NullPointer   == [k |-> "null", v |-> 0]

This == Argument(-1)   \* arguments have negative names

(***************************************************************************)
(* Values.  A visit leaves a value or an address; get_value loads the one  *)
(* behind an address.                                                      *)
(***************************************************************************)
SetValue(b, o)   == [b EXCEPT !.value = o, !.lvalue = FALSE, !.ready = TRUE]
SetAddress(b, o) == [b EXCEPT !.value = o, !.lvalue = TRUE, !.ready = TRUE]
SetInvalid(b)    == [b EXCEPT !.ready = FALSE]
Asserted(b, p)     == [b EXCEPT !.failed = @ \/ ~p]

PushBack(b, stmt) == IF b.top = Dummy THEN b ELSE [b EXCEPT !.data[b.top] = Append(@, stmt)]

\* A statement whose result is a new temporary.
Emit(b, op, args) ==
  LET t == Temporary(b.temps)
  IN  SetValue([PushBack(b, Stmt(op, t.v, args)) EXCEPT !.temps = @ + 1], t)

\* A variable is an address the function knows, others are in temporaries.
IsVariable(o) == o.v % 2 = 0

GetValue(b) ==
  LET c == Asserted(b, b.ready)
  IN  SetInvalid(IF b.lvalue THEN Emit(c, IF IsVariable(b.value) THEN "load" ELSE "read", <<b.value>>) ELSE c)

GetAddress(b) == SetInvalid(Asserted(b, b.ready /\ b.lvalue))

StoreTo(b, address, operand) ==
  PushBack(b, IF IsVariable(address) THEN Stmt("store", address.v, <<operand>>) ELSE Write(address, operand))

\* get_stmt, to which a base of the type of null is an error.
AddressIn(b, op, base, offset) ==
  LET e == Emit(Asserted(b, base.k # "null" /\ base.v \notin b.untyped), op, <<base, offset>>)
  IN  SetAddress(e, e.value)

(***************************************************************************)
(* Blocks.                                                                 *)
(***************************************************************************)
NewBlock(b) == Len(b.data) + 1

Allocated(b, k) ==
  LET more(s, x) == s \o [i \in 1..k |-> x]
  IN  [b EXCEPT !.data = more(@, <<>>), !.phi = more(@, <<>>), !.flow = more(@, NoFlow), !.cond = more(@, Undefined)]

AddBlock(b, n) == [b EXCEPT !.list = Append(@, n), !.top = n]

EndBlock(b, flow, operand) ==
  IF b.top = Dummy THEN b
  ELSE [Asserted(b, b.flow[b.top] = NoFlow) EXCEPT !.flow[b.top] = flow, !.cond[b.top] = operand, !.top = Dummy]

JumpTo(b, n) == EndBlock(b, Jump(n), Undefined)

PushBranch(b, setting) == [b EXCEPT !.branches = Append(@, setting)]
Negate(b) == [b EXCEPT !.branches[Len(b.branches)] = <<@[2], @[1]>>]

\* end_block(get_branch()), branch_stack.pop_back()
EndBranch(b) ==
  LET g == GetValue(b)
      s == Last(b.branches)
  IN  [EndBlock(g, Branch(s[1], s[2]), g.value) EXCEPT !.branches = Front(@)]

PushPhi(b, from) ==
  LET t == Temporary(b.temps)
  IN  [b EXCEPT !.phi[b.top] = Append(@, Phi(t.v, from)), !.temps = @ + 1, !.value = t, !.lvalue = FALSE, !.ready = TRUE]

-----------------------------------------------------------------------------

RECURSIVE Visit(_, _)

\* The values of expressions, one after the other.
GotAll(b, list) ==
  FoldLeft(LAMBDA p, n : LET g == GetValue(Visit(p[1], n)) IN <<g, Append(p[2], g.value)>>, <<b, <<>>>>, list)

\* A member function is given the object first.
VisitFunction(b, n) ==
  LET callee == n.e[1].t
      p == GotAll(b, IF callee = "global function" THEN Tail(n.e) ELSE n.e)
  IN  CASE n.t = "void" -> SetInvalid(PushBack(p[1], Call(Null, p[2])))
        [] callee = "array function" -> Emit(p[1], "size", p[2])
        [] OTHER -> Emit(p[1], "call", p[2])

IsFunction(t) == t \in {"global function", "member function", "array function"}

VisitSubscript(b, n) ==
  FoldLeft(LAMBDA c, i :
             LET base == GetValue(c) index == GetValue(Visit(base, i))
             IN  AddressIn(index, "getarray", base.value, index.value),
           Visit(b, n.e[1]), Tail(n.e))

VisitMember(b, n) ==
  LET c == Visit(b, n.e[1]) g == GetValue(c)
  IN  IF IsFunction(n.t) THEN c ELSE AddressIn(g, "getmember", g.value, Const(Offset(n.op)))

\* A name may be this, or a member of it.
VisitAtomic(b, n) ==
  CASE n.t = "member function" -> SetValue(b, This)
    [] IsFunction(n.t) -> SetInvalid(b)
    [] n.op = "this" -> SetValue(b, This)
    [] n.v < 0 -> AddressIn(b, "getmember", This, Const(Offset(n.op)))
    [] OTHER -> SetAddress(b, Variable(n.v))

VisitLiteral(b, n) == SetValue(b, IF n.t = "null" THEN NullPointer ELSE Const(n.v))

\* ! in a condition exchanges where the branch leads.
VisitNot(b) ==
  IF b.branches # <<>> THEN Negate(b)
  ELSE LET g == GetValue(b) IN Emit(g, "eq", <<g.value, Const(0)>>)

VisitStep(b, op) ==
  LET a   == GetAddress(b)
      old == GetValue(SetAddress(a, b.value))
      new == Emit(old, IF op \in {"++", "x++"} THEN "add" ELSE "sub", <<old.value, Const(1)>>)
      s   == StoreTo(new, b.value, new.value)
  IN  IF op \in {"x++", "x--"} THEN SetValue(s, old.value) ELSE SetAddress(s, b.value)

VisitUnary(c, op) ==
  LET g == GetValue(c)
  IN  CASE op = "!" -> VisitNot(c)
        [] op = "+" -> SetValue(g, g.value)
        [] op = "-" -> Emit(g, "sub", <<Const(0), g.value>>)
        [] op = "~" -> Emit(g, "xor", <<Const(-1), g.value>>)
        [] OTHER -> VisitStep(c, op)

Decided(isOr) == IF isOr THEN 2 ELSE 1   \* a slip

\* branch[!__op]: where the left operand does not decide.
Undecided(isOr) == IF isOr THEN 1 ELSE 2

VisitShortCircuitIn(b, n) ==
  LET tmp  == NewBlock(b)
      left == [Last(b.branches) EXCEPT ![Undecided(n.op = "||")] = tmp]
      done == EndBranch(Visit(PushBranch(Allocated(b, 1), left), n.e[1]))
  IN  Visit(AddBlock(done, tmp), n.e[2])

VisitShortCircuitPhi(b, n) ==
  LET yes == NewBlock(b) no == yes + 1 end == yes + 2
      done == EndBranch(VisitShortCircuitIn(PushBranch(Allocated(b, 3), <<no, yes>>), n))
      both == JumpTo(AddBlock(JumpTo(AddBlock(done, yes), end), no), end)
  IN  PushPhi(AddBlock(both, end), (no :> Const(0)) @@ (yes :> Const(1)))

VisitShortCircuit(b, n) ==
  IF b.branches = <<>> THEN VisitShortCircuitPhi(b, n) ELSE VisitShortCircuitIn(b, n)

VisitAssign(b, n) ==
  LET l == GetAddress(Visit(b, n.e[1]))
      r == GetValue(Visit(l, n.e[2]))
  IN  SetAddress(StoreTo(r, l.value, r.value), l.value)

VisitBinary(b, n) ==
  CASE n.op = "=" -> VisitAssign(b, n)
    [] n.op \in Logical -> VisitShortCircuit(b, n)
    [] OTHER -> LET p == GotAll(b, n.e) IN Emit(p[1], (Arithmetic @@ Comparison)[n.op], p[2])

ComesFromFirst(first, visited) == first   \* a slip

\* top_block: a value comes from where its expression ends.
ComesFrom(first, visited) == visited.top

VisitTernary(b, n) ==
  LET yes  == NewBlock(b) no == yes + 1
      cond == EndBranch(Visit(PushBranch(Allocated(b, 2), <<no, yes>>), n.e[1]))
      void == n.t = "void"
      got(c) == IF void THEN c ELSE GetValue(c)
      end  == NewBlock(cond)
      l    == Visit(AddBlock(Allocated(cond, 1), yes), n.e[2])
      r    == Visit(AddBlock(JumpTo(got(l), end), no), n.e[3])
      last == AddBlock(JumpTo(got(r), end), end)
      value == got(l).value
      phi  == PushPhi(last, (ComesFrom(no, r) :> got(r).value) @@ (ComesFrom(yes, l) :> value))
      isNull == value.k = "null" \/ value.v \in last.untyped
  IN  IF void THEN SetInvalid(last)
      ELSE [phi EXCEPT !.untyped = @ \cup (IF isNull THEN {phi.value.v} ELSE {})]

\* visitNewArray: the last length is that of this dimension.  The elements are
\* made and stored from the last to the first.
RECURSIVE VisitNewArray(_, _)

VisitNewArray(b, args) ==
  LET len  == Last(args)
      new  == Emit(b, "allocate", <<len>>)
      data == new.value
      tail == Emit(new, "getarray", <<data, len>>)
      cond == NewBlock(b) body == cond + 1 exit == cond + 2
      iter == Temporary(tail.temps)
      in   == AddBlock(JumpTo(Allocated([tail EXCEPT !.temps = @ + 1], 3), cond), body)
      sub  == VisitNewArray(in, Front(args))
      next == Emit(GetValue(sub), "getarray", <<iter, Const(-1)>>)
      put  == StoreTo(next, next.value, sub.value)
      phi  == [put EXCEPT !.phi[cond] = <<Phi(iter.v, (tail.top :> tail.value) @@ (body :> next.value))>>]
      test == Emit(AddBlock(JumpTo(phi, cond), cond), "ne", <<iter, data>>)
  IN  IF Len(args) = 1 THEN new
      ELSE SetValue(AddBlock(EndBlock(test, Branch(exit, body), test.value), exit), data)

\* One object is constructed, those of an array are not.
VisitConstruct(b, n) ==
  LET p   == GotAll(b, Reverse(n.e))
      new == Emit(Asserted(b, n.t = "node"), "allocate", <<Const(Len(Layout))>>)
  IN  IF n.e = <<>> THEN PushBack(new, Call(Null, <<new.value>>)) ELSE VisitNewArray(p[1], p[2])

(***************************************************************************)
(* Statements.  After each of them the last value is invalid.              *)
(***************************************************************************)
RECURSIVE ExpressionLength(_)

ExpressionLength(n) ==
  LET own == CASE n.k \in {"none", "bracket", "subscript", "function"} -> 0
               [] n.k = "ternary" -> 3
               [] OTHER -> 1
  IN  FoldLeft(LAMBDA sum, c : sum + ExpressionLength(c), own, n.e)

VisitAll(b, list) == FoldLeft(LAMBDA c, n : SetInvalid(Visit(c, n)), b, list)

VisitCond(b, cond, body, end) ==
  IF cond = None THEN JumpTo(b, body) ELSE EndBranch(Visit(PushBranch(b, <<end, body>>), cond))

LoopSetting(head, step, end) == <<step, end>>

\* visitFor; visitWhile has neither init nor step.
VisitFor(b, init, cond, step, body) ==
  LET begin == VisitAll(b, <<init>>)
      loop  == NewBlock(begin) next == loop + 1 end == loop + 2 head == loop + 3
      first == VisitCond(AddBlock(JumpTo(Allocated(begin, 4), head), head), cond, loop, end)
      in    == [AddBlock(first, loop) EXCEPT !.loops = Append(@, LoopSetting(head, next, end))]
      out   == [Visit(in, body) EXCEPT !.loops = Front(@)]
      last  == VisitAll(AddBlock(JumpTo(out, next), next), <<step>>)
  IN  AddBlock(IF ExpressionLength(cond) < FormatLimit THEN VisitCond(last, cond, loop, end) ELSE JumpTo(last, head), end)

VisitFlow(b, n) ==
  LET c == Visit(b, n.e[1]) g == GetValue(c)
  IN  CASE n.op = "continue" -> JumpTo(b, Last(b.loops)[1])
        [] n.op = "break" -> JumpTo(b, Last(b.loops)[2])
        [] n.e[1] = None \/ n.e[1].t = "void" -> EndBlock(c, Return, Undefined)
        [] OTHER -> EndBlock(g, Return, g.value)

\* Each branch: its condition and body; what fails goes on behind them.
VisitBranch(b, n) ==
  LET exit == NewBlock(b)
      count == Len(n.e) \div 2
      one(c, i) ==
        LET body == NewBlock(c) fail == body + 1
            cond == VisitCond(Allocated(c, 2), n.e[2 * i - 1], body, fail)
        IN  AddBlock(JumpTo(Visit(AddBlock(cond, body), n.e[2 * i]), exit), fail)
      all == FoldLeft(one, Allocated(b, 1), [i \in 1..count |-> i])
  IN  AddBlock(JumpTo(Visit(all, Last(n.e)), exit), exit)

VisitVariableDef(b, n) ==
  LET g == GetValue(Visit(b, n.e[1]))
  IN  IF n.e[1] = None THEN StoreTo(b, Variable(n.v), Undefined) ELSE StoreTo(g, Variable(n.v), g.value)

Visit(b, n) ==
  CASE b.failed -> b
    [] n.k = "none" -> b
    [] n.k = "literal" -> VisitLiteral(b, n)
    [] n.k = "atomic" -> VisitAtomic(b, n)
    [] n.k = "subscript" -> VisitSubscript(b, n)
    [] n.k = "member" -> VisitMember(b, n)
    [] n.k = "bracket" -> Visit(b, n.e[1])
    [] n.k = "unary" -> VisitUnary(Visit(b, n.e[1]), n.op)
    [] n.k = "binary" -> VisitBinary(b, n)
    [] n.k = "ternary" -> VisitTernary(b, n)
    [] n.k = "function" -> VisitFunction(b, n)
    [] n.k = "construct" -> VisitConstruct(b, n)
    [] n.k \in {"simple", "block"} -> VisitAll(b, n.e)
    [] n.k = "def" -> VisitVariableDef(b, n)
    [] n.k = "branch" -> VisitBranch(b, n)
    [] n.k = "for" -> VisitFor(b, n.e[1], n.e[2], n.e[3], n.e[4])
    [] n.k = "while" -> VisitFor(b, None, n.e[1], None, n.e[2])
    [] n.k = "flow" -> VisitFlow(b, n)

(***************************************************************************)
(* create_function: the entry stores what the function is given into       *)
(* variables of its own.  visitFunctionDef: a function without result      *)
(* returns where it ends, and main returns 0.                              *)
(***************************************************************************)
CreateFunction(f) ==
  LET b == AddBlock(Allocated([data |-> <<>>, phi |-> <<>>, flow |-> <<>>, cond |-> <<>>, list |-> <<>>, top |-> Dummy,
                               value |-> Undefined, lvalue |-> FALSE, ready |-> FALSE, failed |-> FALSE, untyped |-> {},
                               branches |-> <<>>, loops |-> <<>>, temps |-> 0], 1), Entry)
  IN  FoldLeft(LAMBDA c, i : StoreTo(c, Variable(f.e[i].v), Argument(-i - f.v)), b, [i \in DOMAIN Parameters(f) |-> i])

VisitFunctionDef(f) ==
  LET c == Visit(CreateFunction(f), Last(f.e))
      open(n) == n \in Range(c.list) /\ c.flow[n] = NoFlow /\ (IsMain(f) \/ f.t = "void")
  IN  [Asserted(c, c.branches = <<>>) EXCEPT
         !.cond = [n \in DOMAIN @ |-> IF open(n) /\ IsMain(f) THEN Const(0) ELSE @[n]],
         !.flow = [n \in DOMAIN @ |-> IF open(n) THEN Return ELSE @[n]]]

=============================================================================

------------------------- MODULE MCConstantPropagator -------------------------
(***************************************************************************)
(* Instances of ConstantPropagator for TLC: blocks are numbers, block 1 is *)
(* the entry, 0 the dummy.                                                 *)
(***************************************************************************)
EXTENDS ConstantPropagator, TLC

CONSTANTS ta, tc, tp, tq, tr   \* the temporaries

MCBlock == 1..4
MCEntry == 1
MCDummy == 0

Diamond == <<Branch(2, 3), Jump(4), Jump(4), Return>>
Exit    == <<Jump(2), Branch(2, 3), Jump(4), Return>>
Loop    == <<Jump(2), Branch(4, 3), Jump(2), Return>>

DomOf == [f \in {Diamond, Loop, Exit} |->
            LET answer == Answer(ForwardEdges(f), MCEntry) IN [b \in MCBlock |-> answer[b].dom]]

Function(f, cond, phi, body, inputs) ==
  [flow |-> f, dom |-> DomOf[f], order |-> <<1, 2, 3, 4>>, temps |-> {ta, tc, tp, tq, tr}, inputs |-> inputs,
   cond |-> [b \in MCBlock |-> IF f[b].op = "branch" THEN cond ELSE Undefined],
   phi |-> phi, data |-> body]

\* Each operator on 0, 1, -1, 2, the least word, an argument and an undefined temporary.
Operands == {Const(0), Const(1), Const(-1), Const(2), Const(Least), Named(ta), Undefined}

Operators == {"add", "sub", "mul", "sdiv", "srem", "and", "or", "xor", "shl", "ashr",
              "eq", "ne", "slt", "sle", "sgt", "sge"}

Arithmetic ==
  {Function(Diamond, Const(0), <<<<>>, <<>>, <<>>, <<>>>>,
     <<<<Call(ta, <<>>), Stmt(op, tq, <<x, y>>)>>, <<Call(Null, <<Named(tq)>>)>>, <<>>, <<>>>>, Word) :
     op \in Operators, x \in Operands, y \in Operands}

\* A diamond: a value from each side, on a condition of any kind.
Diamonds ==
  {Function(Diamond, cond,
     <<<<>>, <<Phi(tr, [b \in {1} |-> Named(ta)])>>, <<>>, <<Phi(tp, (2 :> x) @@ (3 :> y))>>>>,
     <<<<Call(ta, <<>>), Stmt(op, tq, <<Named(ta), z>>)>>, <<Stmt("add", tc, <<Named(tr), Const(0)>>)>>,
       <<>>, <<Call(Null, <<Named(tp), Named(tq)>>)>>>>, {0, 1}) :
     cond \in {Const(0), Const(1), Named(ta), Named(tq)}, op \in {"eq", "and"},
     x \in {Named(ta), Named(tq), Named(tc), Const(1)}, y \in {Named(ta), Named(tq), Const(1)},
     z \in {Const(1), Const(0), Named(ta)}}

\* A loop whose body calls or calculates; old values meet new ones in the head.
Loops(entries) ==
  {Function(Loop, cond,
     <<<<>>, <<Phi(tp, (1 :> x) @@ (3 :> y)), Phi(tr, (1 :> z) @@ (3 :> Named(tp)))>>, <<>>, <<>>>>,
     <<<<Call(ta, <<>>)>>, <<Stmt("eq", tc, <<Named(tr), Const(0)>>)>>,
       <<body, Call(Null, <<Named(tp), Named(tq)>>)>>,
       <<Call(Null, <<Named(tp), Named(tr)>>)>>>>, {0, 1}) :
     cond \in {Named(ta), Named(tc), Named(tp), Const(0)},
     x \in entries, y \in {Named(tq), Named(tp), Named(ta), Const(0), Const(1)}, z \in entries,
     body \in {Call(tq, <<>>), Stmt("add", tq, <<Named(tp), Const(0)>>),
               Stmt("mul", tq, <<Named(tr), Named(tp)>>)}}


\* A loop whose value tp is known behind it by two phi statements of one operand.
Exits ==
  {Function(Exit, Named(ta),
     <<<<>>, <<Phi(tp, (1 :> Const(0)) @@ (2 :> Named(ta)))>>, <<Phi(tc, [b \in {2} |-> x])>>,
       <<Phi(tr, [b \in {3} |-> Named(tc)])>>>>,
     <<<<>>, <<Call(ta, <<>>)>>, <<>>, <<Stmt(op, tq, <<Named(tr), z>>), Call(Null, <<Named(tq)>>)>>>>,
     {0, 1}) :
     op \in {"add", "eq"}, x \in {Named(ta), Named(tp)}, z \in {Const(1), Named(tp)}}

AllPrograms == Arithmetic \cup Diamonds \cup Exits \cup Loops({Const(0), Const(1), Named(ta)})

MCPrograms == AllPrograms

\* Loops in which tr is defined, and used, only once the loop has run; tc is 1
\* at first, so that the loop does.
LateDefinitions ==
  {Function(Loop, Named(tc),
     <<<<>>, <<Phi(tc, (1 :> Const(1)) @@ (3 :> Named(ta))), Phi(tr, (1 :> Undefined) @@ (3 :> y))>>,
       <<>>, <<>>>>,
     <<<<>>, <<Call(tq, <<>>)>>, <<Call(ta, <<>>), Stmt("add", tp, <<Named(tq), z>>)>>,
       <<Call(Null, <<Named(tr)>>)>>>>, {0, 1}) :
     y \in {Named(tq), Named(tp), Const(0)}, z \in {Const(0), Const(1)}}

MCLate == LateDefinitions

=============================================================================

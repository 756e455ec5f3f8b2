------------------------------ MODULE MCLastPart ------------------------------
(***************************************************************************)
(* Instances of LastPart for TLC.  Blocks, temporaries, arguments and the  *)
(* cells of memory are numbers: temporaries from 1, arguments from 51,     *)
(* global variables from 1000, other memory from 2000.                     *)
(***************************************************************************)
EXTENDS LastPart, TLC

MCBlock == 1..6
MCEntry == 1
MCDummy == 0

A == Argument(51)  B == Argument(52)
G == Global(1000)  H == Global(1001)  P == Global(1002)
One == Const(1)
T(i) == Named(i)

\* makeRpo: depth first, the targets in their order.
RECURSIVE Dfs(_, _, _)

Dfs(f, s, b) ==
  IF b \in s.seen THEN s
  ELSE LET t == FoldLeft(LAMBDA u, c : Dfs(f, u, c), [s EXCEPT !.seen = @ \cup {b}], f[b].to)
       IN  [t EXCEPT !.rpo = <<b>> \o @]

Shape(f) ==
  LET answer == Answer(ForwardEdges(f), MCEntry)
  IN  [flow |-> f, dom |-> [b \in MCBlock |-> answer[b].dom], idom |-> [b \in MCBlock |-> answer[b].idom],
       rpo |-> Dfs(f, [seen |-> {}, rpo |-> <<>>], MCEntry).rpo]

NoPhi == [b \in MCBlock |-> <<>>]

Plain ==
  [phi |-> NoPhi, cond |-> [b \in MCBlock |-> Undefined], temps |-> 1..20, type |-> <<>>,
   init |-> [g \in {} |-> Null], heap |-> {}, start |-> <<>>, elsewhere |-> {}, swaps |-> {TRUE},
   args |-> {[x \in {} |-> Null]}, inputs |-> {0}]

(***************************************************************************)
(* Loops: a nest of three, two side by side, none, and all graphs of the   *)
(* blocks 2 to 4 with one more loop around them.  What a call returns, a   *)
(* sum and a product of it, and two uses.                                  *)
(***************************************************************************)
Nesting == <<Jump(2), Branch(3, 6), Branch(4, 2), Branch(5, 3), Jump(4), Return>>
Diamond == <<Branch(2, 3), Jump(4), Jump(4), Branch(5, 6), Jump(6), Return>>
Beside  == <<Jump(2), Branch(3, 4), Jump(2), Branch(5, 6), Branch(4, 5), Return>>

Inner == {Jump(b) : b \in 2..4} \cup {Branch(e[1], e[2]) : e \in {e \in (2..4) \X (2..4) : e[1] < e[2]}}

Flows ==
  {f \in {<<Jump(2), g[2], g[3], Branch(5, 2), Jump(6), Return>> : g \in [2..3 -> Inner]} : WellFormed(f)}

Shapes == {Shape(f) : f \in Flows \cup {Nesting, Beside, Diamond}}

PredsIn(s, b) == {p \in MCBlock : b \in Range(s.flow[p].to)}

\* The condition of a branch is asked for in its block.
Asked(s, b) == IF s.flow[b].op = "branch" THEN <<Call(10 + b, <<>>)>> ELSE <<>>

LoopProgram(s, call, sum, product, use, join) ==
  [flow |-> s.flow, dom |-> s.dom, idom |-> s.idom, rpo |-> s.rpo,
   cond |-> [b \in MCBlock |-> IF s.flow[b].op = "branch" THEN T(10 + b) ELSE Undefined],
   phi |-> [b \in MCBlock |->
      IF b = join
      THEN <<Phi(5, [p \in PredsIn(s, b) |-> IF product \in s.dom[p] THEN T(3) ELSE One])>> ELSE <<>>],
   data |-> [b \in MCBlock |->
      (IF b = call THEN <<Call(1, <<>>)>> ELSE <<>>)
        \o (IF b = sum THEN <<Stmt("add", 2, <<T(1), One>>)>> ELSE <<>>)
        \o (IF b = product THEN <<Stmt("mul", 3, <<T(2), T(2)>>)>> ELSE <<>>)
        \o Asked(s, b)
        \o (IF b = use THEN <<Call(Null, <<T(3)>>)>> ELSE <<>>)
        \o (IF b = join THEN <<Call(Null, <<T(5)>>)>> ELSE <<>>)],
   inputs |-> {0, 1}] @@ Plain

Joins(s, product) ==
  {b \in MCBlock : Cardinality(PredsIn(s, b)) > 1 /\ \E p \in PredsIn(s, b) : product \in s.dom[p]}

LoopPrograms ==
  UNION {UNION {{LoopProgram(s, call, d[1], d[2], use, join) :
                   call \in {1, s.idom[d[1]]} \ {Null},
                   use \in {b \in MCBlock : d[2] \in s.dom[b]}, join \in Joins(s, d[2]) \cup {0}} :
                d \in {d \in (1..4) \X (1..5) : d[1] \in s.dom[d[2]]}} : s \in Shapes}

\* The same sum in two blocks.
TwicePrograms ==
  {[LoopProgram(s, 1, first, second, second, 0) EXCEPT
      !.data[second] = [i \in DOMAIN @ |-> IF @[i].dest = 3 THEN Stmt("add", 3, <<T(1), One>>) ELSE @[i]],
      !.data[first] = @ \o <<Call(Null, <<T(2)>>)>>] : s \in {Shape(Nesting), Shape(Diamond)}, first \in 1..5, second \in 1..5}

(***************************************************************************)
(* Straight code: two blocks; the others are not part of the function.     *)
(***************************************************************************)
Line ==
  [flow |-> <<Jump(2), Return, Return, Return, Return, Return>>,
   dom  |-> <<{1}, {1, 2}, {3}, {4}, {5}, {6}>>,
   idom |-> <<Null, 1, Null, Null, Null, Null>>,
   rpo  |-> <<1, 2>>]

Straight(first, second) ==
  Line @@ [data |-> <<first, second, <<>>, <<>>, <<>>, <<>>>>] @@ Plain

(***************************************************************************)
(* Expressions of two operators, on small values: the rules for quotients  *)
(* take it that no product overflows.                                      *)
(***************************************************************************)
Commutative == {"add", "mul", "and", "or", "xor"}

Operators == Commutative \cup {"sub", "sdiv", "srem", "shl", "ashr"}

Outer == <<A, B, One, Const(2), Const(-1), Const(3), T(2)>>

IsConstant(o) == o.k = "const"

\* What the code gets wrong: op2 on x op y and z.
Wrong(op, x, y, op2, z) ==
  \/ op = op2 /\ op \in {"shl", "ashr"} /\ IsConstant(x)
  \/ op = "shl" /\ op2 = "mul" /\ IsConstant(y)
  \/ op \in {"mul", "sdiv"} /\ op2 = "sub" /\ Const(-1) \in {x, y} /\ ~IsConstant(z) /\ z \notin {x, y}
  \/ op = "mul" /\ op2 = "sdiv" /\ Const(-1) \in {x, y} /\ z = T(2)

\* x op y, x op 3, and what op2 makes of them.
Expressions(op, x, y, op2) ==
  LET both(z) == IF Wrong(op, x, y, op2, z) THEN <<>> ELSE <<<<T(1), z>>, <<z, T(1)>>>>
      made    == FlattenSeq([j \in DOMAIN Outer |-> both(Outer[j])])
      second  == [i \in DOMAIN made |-> Stmt(op2, 2 + i, made[i])]
      results == [i \in 1..2 + Len(second) |-> T(i)]
  IN  Straight(<<Stmt(op, 1, <<x, y>>), Stmt(op, 2, <<x, Const(3)>>)>>, second \o <<Call(Null, results)>>)

Values == {51 :> -3 @@ 52 :> 5, 51 :> 2 @@ 52 :> -1, 51 :> 0 @@ 52 :> 1, 51 :> 7 @@ 52 :> 3}

Algebra ==
  {[swaps |-> IF op2 \in Commutative THEN BOOLEAN ELSE {TRUE}, args |-> Values] @@ Expressions(op, x, y, op2) :
     op \in Operators, x \in {A, Const(2)}, y \in {A, B, Const(2), Const(-1)}, op2 \in Operators}

(***************************************************************************)
(* Memory: two addresses that may be the same, got in the first block, and *)
(* a global variable; three statements on them in the second.  What a user *)
(* call does to memory stands behind it, as stores to cells.               *)
(***************************************************************************)
Cells == <<1000, 2000, 2010, 2011>>

Somewhere(t) == <<UserCall(t, [i \in DOMAIN Cells |-> Cell(Cells[i])])>> \o [i \in DOMAIN Cells |-> Store(Cells[i], T(t))]

Get(op, t, object, index) == Stmt(op, t, <<object, index>>)

Gettings ==
  {<<Get("getmember", 1, A, Const(0)), Get("getmember", 2, B, Const(0))>>,
   <<Get("getarray", 1, A, Const(0)), Get("getarray", 2, B, Const(1))>>,
   <<Stmt("new", 3, <<Const(2000)>>), Write(P, T(3))>> \o Somewhere(5)
     \o <<Read(4, P), Get("getmember", 1, T(3), Const(0)), Get("getmember", 2, T(4), Const(0))>>}

Addresses == {T(1), T(2), G}

Writes(n) == {<<Write(a, Const(n))>> : a \in Addresses}
Reads(t)  == {<<Read(t, a)>> : a \in Addresses}

MemoryProgram(getting, first, second, third) ==
  LET reads == {s.dest : s \in Range(first \o second \o third)} \cap 11..13
  IN  [type |-> [a \in {1, 2, 1000} |-> "int"] @@ [a \in {51, 52, 3, 4, 1002} |-> "object"],
       init |-> 1000 :> Const(0) @@ 1002 :> Const(0), heap |-> {2000, 2010, 2011}, elsewhere |-> {1000}, inputs |-> {5},
       args |-> {51 :> 2010 @@ 52 :> b : b \in {2000, 2010}}] @@
      Straight(getting, first \o second \o third \o Somewhere(6) \o <<Call(Null, [i \in 1..Cardinality(reads) |-> T(SetToSeq(reads)[i])] \o <<T(1), T(2)>>)>>)

Memory ==
  {MemoryProgram(getting, first, second, third) :
     getting \in Gettings, first \in Writes(1) \cup Reads(11),
     second \in Writes(1) \cup Writes(2) \cup Reads(12) \cup {Somewhere(7)},
     third \in Writes(1) \cup Writes(2) \cup Reads(13)}

(***************************************************************************)
(* Globals: what ._Global_Init stores, whether main stores too, and uses   *)
(* of what main loads with other operands before and behind.               *)
(***************************************************************************)
Starts ==
  {<<>>, <<Write(G, One)>>, <<Write(G, One), Write(G, Const(2))>>, <<Write(G, One), Write(H, Const(2))>>,
   <<Call(20, <<>>), Write(G, T(20))>>, <<Call(20, <<>>), Write(G, T(20)), Write(G, One), Write(H, One)>>,
   <<Write(G, One), Read(20, G), Write(H, T(20))>>, <<Write(H, One), Read(20, H), Write(G, One), Write(G, T(20))>>}

GlobalProgram(start, store, x, y, z) ==
  [init |-> 1000 :> Const(7) @@ 1001 :> Const(8), start |-> start, inputs |-> {5}, args |-> {51 :> 3},
   phi |-> [NoPhi EXCEPT ![2] = <<Phi(6, 1 :> z)>>],
   cond |-> [b \in MCBlock |-> IF b = 2 THEN T(3) ELSE Undefined]] @@
  Straight(<<Read(2, G), Read(3, H)>>,
           <<Stmt("add", 4, <<x, y>>)>> \o store \o <<Read(5, G), Call(Null, <<T(2), T(4), T(5), T(6)>>)>>)

Globals ==
  {GlobalProgram(start, store, x, y, z) :
     start \in Starts, store \in {<<>>, <<Write(G, Const(3))>>, <<Write(H, T(2))>>},
     x \in {T(2), T(3), A, One}, y \in {T(2), T(3), A}, z \in {T(2), T(3)}}

MCPrograms == LoopPrograms \cup TwicePrograms \cup Algebra \cup Memory \cup Globals

=============================================================================

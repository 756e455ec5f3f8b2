------------------------------ MODULE MCMem2Reg ------------------------------
(***************************************************************************)
(* Instances of Mem2Reg for TLC: blocks are numbers, block 1 is the entry, *)
(* block 6 returns, 0 is the dummy; two locals.                            *)
(***************************************************************************)
EXTENDS Mem2Reg, TLC

CONSTANTS
  lx, ly     \* the locals

MCBlock == 1..6
MCEntry == 1
MCDummy == 0
MCLocal == {lx, ly}

T(b) == <<"t", b>>

\* What a block may do: nothing, or a store, or a load whose value is used by a
\* call, after another store, or by a store to the other local.
Bodies(b) ==
  {<<>>,
   <<Store(lx, Const(b))>>,
   <<Load(T(b), lx), Call(Null, <<Named(T(b))>>)>>,
   <<Load(T(b), lx), Store(lx, Const(b)), Call(Null, <<Named(T(b))>>)>>,
   <<Load(T(b), lx), Store(ly, Named(T(b)))>>,
   <<Load(T(b), ly), Store(lx, Named(T(b)))>>}

SomeBodies(b) == {<<>>, <<Load(T(b), lx), Call(Null, <<Named(T(b))>>)>>}

First == {<<>>, <<Store(ly, Const(1)), Load(T(1), ly), Store(lx, Named(T(1)))>>}

Inner == {Jump(b) : b \in 2..4} \cup {Branch(e[1], e[2]) : e \in {e \in (2..4) \X (2..4) : e[1] < e[2]}}

\* All graphs of four blocks, the others behind them.
Flows ==
  {f \in {g @@ (4 :> Jump(5)) @@ (5 :> Jump(6)) @@ (6 :> Return) : g \in [1..3 -> Inner]} :
     /\ f[1] \in {Jump(2), Branch(2, 3), Branch(2, 4)}
     /\ WellFormed(f)}

\* Three loops in one another.
Nest == <<Jump(2), Branch(3, 6), Branch(4, 2), Branch(5, 3), Jump(4), Return>>

\* The value of a condition joins in block 4 if each way to it loads one.
Join(f, body) ==
  LET preds == {p \in MCBlock : 4 \in Range(f[p].to)}
  IN  IF \A p \in preds : \E i \in DOMAIN body[p] : body[p][i].dest = T(p)
      THEN <<Phi(T(0), [p \in preds |-> Named(T(p))])>>
      ELSE <<>>

\* makeRpo, the targets of a branch in their order or in the other.
RECURSIVE Dfs(_, _, _, _)

Dfs(f, swapped, s, b) ==
  IF b \in s.seen THEN s
  ELSE LET to == IF swapped THEN Reverse(f[b].to) ELSE f[b].to
           t  == FoldLeft(LAMBDA u, c : Dfs(f, swapped, u, c), [s EXCEPT !.seen = @ \cup {b}], to)
       IN  [t EXCEPT !.rpo = <<b>> \o @]

\* A graph with its frontiers, and an order.
ShapesOf(f) ==
  LET answer == Answer(ForwardEdges(f), MCEntry)
  IN  {[flow |-> f, rpo |-> order, fro |-> [b \in MCBlock |-> answer[b].fro]] :
         order \in {Dfs(f, swapped, [seen |-> {}, rpo |-> <<>>], MCEntry).rpo : swapped \in BOOLEAN}}

Shapes == UNION {ShapesOf(f) : f \in Flows}

Nests == ShapesOf(Nest)

Program(shape, body) ==
  shape @@
  [phi |-> [b \in MCBlock |-> IF b = 4 THEN Join(shape.flow, body) ELSE <<>>],
   data |-> [b \in MCBlock |->
              CASE b \in DOMAIN body -> body[b]
                [] b = 5 /\ Join(shape.flow, body) # <<>> -> <<Call(Null, <<Named(T(0))>>)>>
                [] b = 6 -> <<Load(T(b), lx), Call(Null, <<Named(T(b))>>)>>
                [] OTHER -> <<>>],
   temps |-> {T(b) : b \in 0..6}]

AllPrograms ==
  {Program(s, <<a, b, c, <<>>>>) : s \in Shapes, a \in First, b \in Bodies(2), c \in Bodies(3)}
    \cup {Program(s, <<a, <<>>, b, c, d>>) :
            s \in Nests, a \in First, b \in SomeBodies(3), c \in SomeBodies(4), d \in Bodies(5)}

MCPrograms == AllPrograms

=============================================================================

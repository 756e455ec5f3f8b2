---------------------------- MODULE ValueNumbering ----------------------------
(***************************************************************************)
(* GlobalValueNumberPass: a walk of the dominator tree that numbers the    *)
(* values of definitions, replaces operands by the definition that had     *)
(* their number first, and drops dead stores.  An operand of a phi is not  *)
(* replaced.                                                               *)
(*                                                                         *)
(* The walk hands on a state: the number of each definition (defMap), the  *)
(* best definition of each number or Null (cseMap), what is known of the   *)
(* memory (memMap), the dead stores, and the function as it is now.        *)
(***************************************************************************)
EXTENDS AlgebraicSimplifier, MemorySimplifier, TLC

\* getNumber: a definition that has no number yet gets one of its own.
Numbered(s, o) ==
  IF o.k = "const" \/ o \in DOMAIN s.number THEN s
  ELSE [s EXCEPT !.number = (o :> <<"unknown", o>>) @@ @, !.best = (<<"unknown", o>> :> o) @@ @]

NumberOf(s, o) == IF o.k = "const" THEN K(o.v) ELSE s.number[o]

Best(s, n) == IF IsConst(n) THEN Const(n[2]) ELSE s.best[n]

PickBest(s, o) == IF o \in DOMAIN s.number THEN Best(s, s.number[o]) ELSE o

PickAll(s, operands) == [i \in DOMAIN operands |-> PickBest(s, operands[i])]

InsertCSE(s, e, dest) ==
  LET best == IF e \in DOMAIN s.best /\ s.best[e] # Null THEN s.best[e] ELSE Named(dest)
  IN  [s EXCEPT !.number = (Named(dest) :> e) @@ @, !.best = (e :> best) @@ @]

SetArgs(s, site, args) == [s EXCEPT !.code.data[site[1]][site[2]].args = args]

\* visitGet
VisitGet(s, site, stmt) ==
  LET t == Numbered(Numbered(s, stmt.args[1]), stmt.args[2])
      u == InsertCSE(t, <<stmt.op, NumberOf(t, stmt.args[1]), NumberOf(t, stmt.args[2])>>, stmt.dest)
  IN  SetArgs(u, site, PickAll(u, stmt.args))

\* visitBinary: a statement whose value is another number stays as it is, and dead.
VisitBinary(s, site, stmt) ==
  LET t == Numbered(Numbered(s, stmt.args[1]), stmt.args[2])
      e == Simplified(stmt.op, NumberOf(t, stmt.args[1]), NumberOf(t, stmt.args[2]))
      u == InsertCSE(t, Tail(e), stmt.dest)
  IN  IF e[1] # "expression" THEN [t EXCEPT !.number = (Named(stmt.dest) :> e) @@ @]
      ELSE [SetArgs(u, site, <<Best(u, e[3]), Best(u, e[4])>>) EXCEPT !.code.data[site[1]][site[2]].op = e[2]]

VisitLoad(s, site, stmt) ==
  LET addr == PickBest(s, stmt.args[1])
      val  == InfoOf(s.mem, addr).val
      t    == SetArgs([s EXCEPT !.mem = AnalyzeLoad(s.code, @, addr, Named(stmt.dest))], site, <<addr>>)
      u    == Numbered(t, val)
  IN  IF val = Null THEN t ELSE [u EXCEPT !.number = (Named(stmt.dest) :> NumberOf(u, val)) @@ @]

VisitStore(s, site, stmt) ==
  LET args == PickAll(s, stmt.args)
  IN  [SetArgs(s, site, args) EXCEPT
         !.dead = @ \cup DeadStore(s.mem, args[1], args[2], site),
         !.mem = AnalyzeStore(s.code, @, args[1], args[2], site)]

VisitStmt(s, site) ==
  LET stmt   == s.code.data[site[1]][site[2]]
      picked == SetArgs(s, site, PickAll(s, stmt.args))
  IN  CASE stmt.op \in {"getmember", "getarray"} -> VisitGet(s, site, stmt)
        [] stmt.op \in BinaryOps -> VisitBinary(s, site, stmt)
        [] stmt.op = "read" -> VisitLoad(s, site, stmt)
        [] stmt.op = "write" -> VisitStore(s, site, stmt)
        [] stmt.op = "usercall" -> [picked EXCEPT !.mem = <<>>]
        [] OTHER -> picked

VisitFlow(s, b) == [s EXCEPT !.code.cond[b] = PickBest(s, @)]

\* removeHash: behind the blocks it dominates a definition is out of reach.
RemoveHash(s, b) ==
  LET dests == {Named(stmt.dest) : stmt \in Range(s.code.data[b]) \cup Range(s.code.phi[b])} \cap DOMAIN s.number
  IN  [s EXCEPT !.best = [n \in DOMAIN @ |-> IF @[n] \in {d \in dests : s.number[d] = n} THEN Null ELSE @[n]]]

\* visitGVN: a block, and then those it is the immediate dominator of.
RECURSIVE VisitGVN(_, _)

VisitGVN(s, b) ==
  LET stmts == FoldLeft(LAMBDA t, i : VisitStmt(t, <<b, i>>), [s EXCEPT !.mem = <<>>],
                        [i \in DOMAIN s.code.data[b] |-> i])
      below == SelectSeq(s.code.rpo, LAMBDA c : s.code.idom[c] = b)
  IN  RemoveHash(FoldLeft(VisitGVN, VisitFlow(stmts, b), below), b)

\* removeDead
RemoveDead(s) ==
  [s.code EXCEPT !.data = [b \in Block |->
     LET kept == SelectSeq([i \in DOMAIN @[b] |-> i], LAMBDA i : <<b, i>> \notin s.dead)
     IN  [j \in DOMAIN kept |-> @[b][kept[j]]]]]

NumberValues(code) ==
  RemoveDead(VisitGVN([code |-> code, number |-> <<>>, best |-> <<>>, mem |-> <<>>, dead |-> {}], Entry))

=============================================================================

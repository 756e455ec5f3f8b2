------------------------------ MODULE IRFunction ------------------------------
(***************************************************************************)
(* A function as unreachableRemover and the passes behind it see it, and   *)
(* what one call of unreachableRemover is to make of it.  A function is a  *)
(* record: the blocks in it, their flow statements, the predecessors each  *)
(* block's phi statements have an entry for, and what is known of a block: *)
(*   "ub"     it holds undefined behaviour, or branches on an undefined    *)
(*   "zero"   it branches on the constant false                            *)
(*   "one"    it branches on the constant true                             *)
(*   "open"   nothing                                                      *)
(* A block that is not in the function has no flow and no phi.             *)
(***************************************************************************)
EXTENDS FlowGraph

Fate == {"open", "zero", "one", "ub"}

Function ==
  [data : SUBSET Block, flow : [Block -> FlowStmt], phi : [Block -> SUBSET Block],
   fate : [Block -> Fate]]

\* The flow statement with what is known of the block taken into account.
Marked(stmt, fate) ==
  CASE fate = "ub" -> Unreachable
    [] fate = "zero" /\ stmt.op = "branch" -> Jump(stmt.to[1])
    [] fate = "one"  /\ stmt.op = "branch" -> Jump(stmt.to[2])
    [] OTHER -> stmt

MarkedEdges(f) ==
  LET flow == [b \in Block |-> Marked(f.flow[b], f.fate[b])]
  IN  {e \in ForwardEdges(flow) : e[1] \in f.data}

Backwards(edges) == {<<e[2], e[1]>> : e \in edges}

\* The blocks on some way from the entry to a return.
Useful(edges) ==
  Reachable(edges, Entry) \cap Reachable(Backwards(edges), Dummy) \cap Block

\* A branch with one target left is a jump.
Trimmed(stmt, keep) ==
  IF stmt.op = "branch" /\ \E c \in keep : Range(stmt.to) \cap keep = {c}
  THEN Jump(CHOOSE c \in keep : Range(stmt.to) \cap keep = {c})
  ELSE stmt

Reduced(f) ==
  LET edges == MarkedEdges(f)
      keep  == Useful(edges)
  IN  [data |-> keep,
       flow |-> [b \in Block |-> IF b \in keep
                                 THEN Trimmed(Marked(f.flow[b], f.fate[b]), keep)
                                 ELSE Unreachable],
       phi  |-> [b \in Block |-> IF b \in keep
                                 THEN f.phi[b] \cap {p \in keep : <<p, b>> \in edges}
                                 ELSE {}]]

\* Between two calls other passes learn at most one more fact about a block.
Learned(f, b, fate) ==
  [data |-> f.data, flow |-> f.flow, phi |-> f.phi,
   fate |-> [c \in Block |-> IF c = b THEN fate ELSE "open"]]

=============================================================================

------------------------------ MODULE FlowGraph ------------------------------
(***************************************************************************)
(* The control-flow skeleton of one IR function, and the reference notions *)
(* the optimizer's analyses are measured against.                          *)
(*                                                                         *)
(* A function is a map flow from its blocks to their flow statement.  Of a *)
(* flow statement only its kind and its targets, in the order of           *)
(* branch[0], branch[1], are kept.  The analyses add one node to the       *)
(* blocks, the pool's static __dummy__ block, which every return leads to. *)
(*                                                                         *)
(* The reference notions are defined by sets of nodes that no edge leaves, *)
(* instead of by paths: a node is reachable iff it lies in every such set  *)
(* that holds the root.  So no definition is recursive.                    *)
(***************************************************************************)
EXTENDS Naturals, Sequences, FiniteSets, Functions

CONSTANTS
  Block,   \* the blocks of the function (function::data)
  Entry,   \* its first block, data[0]
  Dummy,   \* IRpool::__dummy__
  Null     \* the null block pointer

ASSUME BlockAssumption ==
  /\ Entry \in Block
  /\ Dummy \notin Block
  /\ Null \notin Block \cup {Dummy}

Node == Block \cup {Dummy}

(***************************************************************************)
(* The flow statements.                                                    *)
(***************************************************************************)
Return       == [op |-> "return", to |-> <<>>]
Unreachable  == [op |-> "unreachable", to |-> <<>>]
Jump(b)      == [op |-> "jump", to |-> <<b>>]
Branch(b, c) == [op |-> "branch", to |-> <<b, c>>]

FlowStmt ==
  {Return, Unreachable} \cup {Jump(b) : b \in Block}
    \cup {Branch(b, c) : b, c \in Block}

(***************************************************************************)
(* The edges an analysis walks: forward they are those of the flow, with   *)
(* the dummy behind every return; for a post-dominator analysis they are   *)
(* turned around.  Relations between nodes are sets of pairs.              *)
(***************************************************************************)
Targets(stmt) == IF stmt.op = "return" THEN {Dummy} ELSE Range(stmt.to)

ForwardEdges(flow) == UNION {{b} \X Targets(flow[b]) : b \in Block}

Edges(flow, post) ==
  IF post THEN {<<e[2], e[1]>> : e \in ForwardEdges(flow)} ELSE ForwardEdges(flow)

Root(post) == IF post THEN Dummy ELSE Entry

SuccOf(edges, n) == {m \in Node : <<n, m>> \in edges}
PredOf(edges, n) == {m \in Node : <<m, n>> \in edges}

(***************************************************************************)
(* Reachability and dominance.  A set avoids d if no edge leaves it except *)
(* into d, and it holds the root unless that is d.  What is reachable from *)
(* the root without entering d lies in every such set; d dominates a node  *)
(* that one of them misses.                                                *)
(***************************************************************************)
Closed(edges, S) == \A e \in edges : e[1] \in S => e[2] \in S

Reachable(edges, root) ==
  LET closed == {S \in SUBSET Node : root \in S /\ Closed(edges, S)}
  IN  {n \in Node : \A S \in closed : n \in S}

Avoids(edges, root, d, S) ==
  /\ d \notin S
  /\ root \in S \cup {d}
  /\ \A e \in edges : e[1] \in S => e[2] \in S \cup {d}

\* The pairs of a dominator and a node it dominates.
Dominance(edges, root) ==
  UNION {{d} \X UNION {Node \ S : S \in {T \in SUBSET Node : Avoids(edges, root, d, T)}} :
           d \in Node}

DominatorsOf(domi, n) == {d \in Node : <<d, n>> \in domi}

\* The strict dominator of n that all its others dominate.
ImmediateDominator(domi, root, n) ==
  IF n = root THEN Null
  ELSE CHOOSE d \in DominatorsOf(domi, n) \ {n} :
         \A e \in DominatorsOf(domi, n) \ {n} : <<e, d>> \in domi

\* The nodes where the dominance of n ends.
Frontier(edges, domi, n) ==
  {m \in Node : /\ m = n \/ <<n, m>> \notin domi
                /\ \E p \in Node : <<p, m>> \in edges /\ <<n, p>> \in domi}

\* What a dominator analysis says of every block.  It speaks of blocks only,
\* except that the immediate post-dominator of a block may be the dummy.
Answer(edges, root) ==
  LET domi == Dominance(edges, root)
  IN  [b \in Block |->
         [dom  |-> DominatorsOf(domi, b) \cap Block,
          fro  |-> Frontier(edges, domi, b) \cap Block,
          idom |-> ImmediateDominator(domi, root, b)]]

(***************************************************************************)
(* Loops.  A loop is named by its header.  A latch is a block that leads   *)
(* to a header by which it is dominated; the blocks of the loop are those  *)
(* from which a latch is reached before the header.                        *)
(***************************************************************************)
Latches(flow, dom, h) == {l \in Block : h \in Range(flow[l].to) /\ h \in dom[l]}

WithoutNode(edges, h) == {e \in edges : h \notin {e[1], e[2]}}

LoopOf(flow, dom, h) ==
  {b \in Block : \E l \in Latches(flow, dom, h) :
     b = h \/ l \in Reachable(WithoutNode(ForwardEdges(flow), h), b)}

LoopsAround(flow, dom, b) == {h \in Block : b \in LoopOf(flow, dom, h)}

(***************************************************************************)
(* What unreachableRemover leaves: every block is reachable from the entry *)
(* and reaches a return.  No set but the whole holds the root and is closed.*)
(***************************************************************************)
Connected(edges, root) ==
  \A S \in SUBSET Node : root \in S /\ Closed(edges, S) => S = Node

WellFormed(flow) ==
  \A post \in BOOLEAN : Connected(Edges(flow, post), Root(post))

=============================================================================

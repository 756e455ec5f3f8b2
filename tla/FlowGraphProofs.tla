--------------------------- MODULE FlowGraphProofs ---------------------------
(***************************************************************************)
(* Facts about flow graphs, dominance and frontiers that the proofs about  *)
(* the passes rest on.                                                     *)
(***************************************************************************)
EXTENDS FlowGraph, WellFoundedInduction, TLAPS

\* Induction along the numbers, in the form of a set that holds them.
LEMMA Induction ==
  ASSUME NEW S, 0 \in S, \A k \in Nat : k \in S => k + 1 \in S
  PROVE  Nat \subseteq S
<1> DEFINE U == Nat \ S
           less == {ss \in Nat \X Nat : ss[1] < ss[2]}
<1> SUFFICES ASSUME U # {} PROVE FALSE
  OBVIOUS
<1>1. less = OpToRel(<, Nat)
  BY DEF OpToRel
<1>2. IsWellFoundedOn(less, Nat)
  BY <1>1, NatLessThanWellFounded
<1>3. PICK u \in U : \A v \in U : <<v, u>> \notin less
  <2> U \subseteq Nat
    OBVIOUS
  <2> HIDE DEF U, less
  <2> QED
    BY <1>2, WFMin
<1>4. u \in Nat /\ u # 0 /\ u - 1 \in Nat /\ u - 1 < u
  OBVIOUS
<1>5. u - 1 \in S
  BY <1>3, <1>4
<1>6. (u - 1) + 1 \in S
  BY <1>4, <1>5
<1> QED
  BY <1>4, <1>6

\* An edge of an analysis is a pair of nodes.
LEMMA EdgesArePairs ==
  ASSUME NEW f \in [Block -> FlowStmt], NEW p \in BOOLEAN
  PROVE  Edges(f, p) \subseteq Node \X Node
<1>1. \A b \in Block : Targets(f[b]) \subseteq Node
  BY DEF Targets, Range, FlowStmt, Return, Unreachable, Jump, Branch, Node
<1>2. ForwardEdges(f) \subseteq Node \X Node
  BY <1>1 DEF ForwardEdges, Node
<1> QED
  BY <1>2 DEF Edges

\* The edges from a block, and what is left of its targets without the dummy.
LEMMA TargetFacts ==
  ASSUME NEW f \in [Block -> FlowStmt], NEW b \in Block
  PROVE  /\ \A m : <<b, m>> \in ForwardEdges(f) <=> m \in Targets(f[b])
         /\ Targets(f[b]) \ {Dummy} = Range(f[b].to)
         /\ Range(f[b].to) \subseteq Block
<1>1. \A m : <<b, m>> \in ForwardEdges(f) <=> m \in Targets(f[b])
  BY DEF ForwardEdges
<1>2. /\ Range(f[b].to) \subseteq Block
      /\ f[b].op = "return" => Range(f[b].to) = {}
  BY DEF Range, FlowStmt, Return, Unreachable, Jump, Branch
<1>3. Targets(f[b]) \ {Dummy} = Range(f[b].to)
  BY <1>2, BlockAssumption DEF Targets
<1> QED BY <1>1, <1>2, <1>3

LEMMA EdgeBetween ==
  ASSUME NEW f, NEW p \in BOOLEAN, NEW m, NEW n
  PROVE  <<m, n>> \in Edges(f, p)
           <=> IF p THEN <<n, m>> \in ForwardEdges(f) ELSE <<m, n>> \in ForwardEdges(f)
<1>1. \A e \in ForwardEdges(f) : e = <<e[1], e[2]>>
  BY DEF ForwardEdges
<1> QED BY <1>1 DEF Edges

LEMMA RootIsNode == \A p \in BOOLEAN : Root(p) \in Node
BY BlockAssumption DEF Root, Node

\* Dominance unfolded: some set that avoids d misses n.
LEMMA DominanceWitness ==
  ASSUME NEW edges, NEW r, NEW d \in Node, NEW n \in Node
  PROVE  <<d, n>> \in Dominance(edges, r)
           <=> \E S \in SUBSET Node : n \notin S /\ Avoids(edges, r, d, S)
BY DEF Dominance

\* Only the root dominates the root.
LEMMA RootHasOneDominator ==
  ASSUME NEW edges, NEW r \in Node, NEW d \in Node, <<d, r>> \in Dominance(edges, r)
  PROVE  d = r
BY DominanceWitness DEF Avoids

LEMMA DominatesItself ==
  ASSUME NEW edges \in SUBSET (Node \X Node), NEW r \in Node, NEW d \in Node
  PROVE  <<d, d>> \in Dominance(edges, r)
<1>1. Avoids(edges, r, d, Node \ {d})
  BY DEF Avoids
<1> QED BY <1>1, DominanceWitness

\* The root dominates every node.
LEMMA RootDominatesAll ==
  ASSUME NEW edges, NEW r \in Node, NEW n \in Node
  PROVE  <<r, n>> \in Dominance(edges, r)
<1>1. Avoids(edges, r, r, {})
  BY DEF Avoids
<1> QED BY <1>1, DominanceWitness

\* Who strictly dominates a node dominates each of its predecessors.
LEMMA DominatesPredecessors ==
  ASSUME NEW edges, NEW r, NEW d \in Node, NEW n \in Node, NEW p \in Node,
         <<p, n>> \in edges, d # n, <<d, n>> \in Dominance(edges, r)
  PROVE  <<d, p>> \in Dominance(edges, r)
<1>1. PICK S \in SUBSET Node : n \notin S /\ Avoids(edges, r, d, S)
  BY DominanceWitness
<1>2. p \notin S
  BY <1>1 DEF Avoids
<1> QED
  BY <1>1, <1>2, DominanceWitness

LEMMA OneTarget == \A b : Range(Jump(b).to) = {b}
<1> TAKE b
<1>1. Jump(b).to = <<b>> /\ DOMAIN <<b>> = {1} /\ <<b>>[1] = b
  BY DEF Jump
<1> QED
  BY <1>1 DEF Range

\* The flow statements that are no branches.
LEMMA NoBranch ==
  ASSUME NEW stmt \in FlowStmt, stmt.op # "branch"
  PROVE  \/ Targets(stmt) = {Dummy}
         \/ Targets(stmt) = {}
         \/ \E q \in Block : Targets(stmt) = {q}
<1>1. CASE stmt = Return
  BY <1>1 DEF Return, Targets
<1>2. CASE stmt = Unreachable
  <2>1. stmt.op # "return" /\ DOMAIN stmt.to = {}
    BY <1>2 DEF Unreachable
  <2> QED
    BY <2>1 DEF Targets, Range
<1>3. CASE \E q \in Block : stmt = Jump(q)
  <2> PICK q \in Block : stmt = Jump(q)
    BY <1>3
  <2>1. stmt.op # "return" /\ Targets(stmt) = {q}
    BY OneTarget DEF Targets, Jump
  <2> QED
    BY <2>1
<1>4. CASE \E b, c \in Block : stmt = Branch(b, c)
  BY <1>4 DEF Branch
<1> QED
  BY <1>1, <1>2, <1>3, <1>4 DEF FlowStmt

\* The edges of a post-dominator analysis.
LEMMA PostEdge ==
  ASSUME NEW f \in [Block -> FlowStmt], NEW m \in Block, NEW t, <<t, m>> \in Edges(f, TRUE)
  PROVE  t \in Targets(f[m])
BY EdgeBetween, TargetFacts

\* A block in a post-dominance frontier decides something: it ends in a branch.
LEMMA FrontiersBranch ==
  ASSUME NEW f \in [Block -> FlowStmt], Connected(Edges(f, TRUE), Dummy),
         NEW b \in Block,
         NEW m \in Frontier(Edges(f, TRUE), Dominance(Edges(f, TRUE), Dummy), b) \cap Block
  PROVE  f[m].op = "branch"
<1> DEFINE edges == Edges(f, TRUE)
           domi == Dominance(edges, Dummy)
<1> SUFFICES ASSUME f[m].op # "branch" PROVE FALSE
  OBVIOUS
<1>1. b # Dummy /\ m # Dummy /\ b \in Node /\ m \in Node
  BY BlockAssumption DEF Node
<1>2. m = b \/ <<b, m>> \notin domi
  BY DEF Frontier
<1>3. PICK p \in Node : <<p, m>> \in edges /\ <<b, p>> \in domi
  BY DEF Frontier
<1>4. Targets(f[m]) = {p}
  <2>1. p \in Targets(f[m])
    BY <1>3, PostEdge
  <2>2. f[m] \in FlowStmt
    OBVIOUS
  <2> QED
    BY <2>1, <2>2, NoBranch
<1>5. PICK S \in SUBSET Node : p \notin S /\ Avoids(edges, Dummy, b, S)
  BY <1>1, <1>3, DominanceWitness
<1>6. Dummy \in S /\ b \notin S
  BY <1>1, <1>5 DEF Avoids
<1>7. ASSUME NEW e \in edges, e[1] \in S
      PROVE  e[2] \in S \cup {b} /\ e[2] # m
  <2>1. e = <<e[1], e[2]>>
    <3>1. e \in Node \X Node
      BY <1>7, EdgesArePairs
    <3> QED
      BY <3>1
  <2>2. e[2] = m => e[1] \in Targets(f[m])
    BY <2>1, PostEdge
  <2> QED
    BY <2>2, <1>4, <1>5, <1>7 DEF Avoids
<1>8. CASE m = b
  <2>1. Closed(edges, S)
    BY <1>7, <1>8 DEF Closed
  <2> QED
    BY <2>1, <1>1, <1>6 DEF Connected
<1>9. CASE m # b
  <2>1. Avoids(edges, Dummy, b, S \ {m})
    BY <1>1, <1>6, <1>7 DEF Avoids
  <2>2. S \ {m} \in SUBSET Node /\ m \notin S \ {m}
    OBVIOUS
  <2>3. <<b, m>> \in domi
    BY <2>1, <2>2, <1>1, DominanceWitness
  <2> QED
    BY <2>3, <1>2, <1>9
<1> QED
  BY <1>8, <1>9

(***************************************************************************)
(* Facts about reachability.                                               *)
(***************************************************************************)

\* Closed, in terms of the two ends of an edge.
LEMMA ClosedByEnds ==
  ASSUME NEW W \in SUBSET (Node \X Node), NEW S,
         \A m, n : <<m, n>> \in W /\ m \in S => n \in S
  PROVE  Closed(W, S)
<1>1. \A e \in W : e = <<e[1], e[2]>>
  OBVIOUS
<1> QED
  BY <1>1 DEF Closed

\* The edges turned around.
LEMMA TurnedAround ==
  ASSUME NEW W \in SUBSET (Node \X Node)
  PROVE  /\ {<<e[2], e[1]>> : e \in W} \in SUBSET (Node \X Node)
         /\ \A m, n : <<m, n>> \in {<<e[2], e[1]>> : e \in W} <=> <<n, m>> \in W
<1>1. \A e \in W : e = <<e[1], e[2]>> /\ e[1] \in Node /\ e[2] \in Node
  OBVIOUS
<1> QED
  BY <1>1

\* Any closed set that holds the root holds what is reachable.
LEMMA ReachableIsLeast ==
  ASSUME NEW W, NEW r, NEW S \in SUBSET Node, r \in S, Closed(W, S)
  PROVE  Reachable(W, r) \subseteq S
BY DEF Reachable

LEMMA ReachableIsClosed ==
  ASSUME NEW W \in SUBSET (Node \X Node), NEW r \in Node
  PROVE  /\ r \in Reachable(W, r)
         /\ Reachable(W, r) \subseteq Node
         /\ \A m, n : <<m, n>> \in W /\ m \in Reachable(W, r) => n \in Reachable(W, r)
<1>1. Closed(W, Reachable(W, r))
  BY DEF Reachable, Closed
<1>2. ASSUME NEW m, NEW n, <<m, n>> \in W, m \in Reachable(W, r) PROVE n \in Reachable(W, r)
  BY <1>1, <1>2 DEF Closed
<1> QED
  BY <1>2 DEF Reachable

\* Only a return leads to the dummy.
LEMMA DummyTarget ==
  ASSUME NEW stmt \in FlowStmt
  PROVE  /\ Dummy \in Targets(stmt) <=> stmt.op = "return"
         /\ Range(stmt.to) \subseteq Block
         /\ Targets(stmt) \ {Dummy} = Range(stmt.to)
<1> DEFINE g == [b \in Block |-> stmt]
<1>1. g \in [Block -> FlowStmt] /\ Entry \in Block /\ g[Entry] = stmt
  BY BlockAssumption
<1>2. Range(stmt.to) \subseteq Block /\ Targets(stmt) \ {Dummy} = Range(stmt.to)
  <2> HIDE DEF g
  <2> QED
    BY <1>1, TargetFacts
<1> QED
  BY <1>2, BlockAssumption DEF Targets

(***************************************************************************)
(* The order of the dominators of one node.  In a connected graph they are *)
(* a chain, and each set of them has a nearest and a farthest one, which   *)
(* makes up for an induction along the chain.                              *)
(***************************************************************************)

\* The nodes that d does not dominate can be reached without it.
LEMMA NotDominatedAvoids ==
  ASSUME NEW edges \in SUBSET (Node \X Node), NEW r \in Node, NEW d \in Node
  PROVE  Avoids(edges, r, d, {m \in Node : <<d, m>> \notin Dominance(edges, r)})
<1> DEFINE S == {m \in Node : <<d, m>> \notin Dominance(edges, r)}
<1>1. d \notin S
  BY DominatesItself
<1>2. r \in S \cup {d}
  BY RootHasOneDominator
<1>3. ASSUME NEW e \in edges, e[1] \in S PROVE e[2] \in S \cup {d}
  <2>1. e = <<e[1], e[2]>> /\ e[1] \in Node /\ e[2] \in Node
    OBVIOUS
  <2> QED BY <1>3, <2>1, DominatesPredecessors
<1> QED BY <1>1, <1>2, <1>3 DEF Avoids

\* Two dominators of a node: one dominates the other.
LEMMA DominatorsAreChained ==
  ASSUME NEW edges \in SUBSET (Node \X Node), NEW r \in Node, Connected(edges, r),
         NEW n \in Node, NEW d \in Node, NEW e \in Node,
         <<d, n>> \in Dominance(edges, r), <<e, n>> \in Dominance(edges, r),
         <<d, e>> \notin Dominance(edges, r)
  PROVE  <<e, d>> \in Dominance(edges, r)
<1> SUFFICES ASSUME <<e, d>> \notin Dominance(edges, r) PROVE FALSE
  OBVIOUS
<1> DEFINE D == {m \in Node : <<d, m>> \notin Dominance(edges, r)}
           E == {m \in Node : <<e, m>> \notin Dominance(edges, r)}
<1>1. Avoids(edges, r, d, D) /\ Avoids(edges, r, e, E)
  BY NotDominatedAvoids
<1>2. d \in E /\ e \in D
  OBVIOUS
<1>3. D \cup E \in SUBSET Node /\ r \in D \cup E /\ Closed(edges, D \cup E)
  BY <1>1, <1>2 DEF Avoids, Closed
<1>4. D \cup E = Node
  BY <1>3 DEF Connected
<1> QED BY <1>4

LEMMA DominanceIsTransitive ==
  ASSUME NEW edges \in SUBSET (Node \X Node), NEW r \in Node,
         NEW c \in Node, NEW d \in Node, NEW n \in Node,
         <<c, d>> \in Dominance(edges, r), <<d, n>> \in Dominance(edges, r)
  PROVE  <<c, n>> \in Dominance(edges, r)
<1>1. PICK C \in SUBSET Node : d \notin C /\ Avoids(edges, r, c, C)
  BY DominanceWitness
<1>2. PICK D \in SUBSET Node : n \notin D /\ Avoids(edges, r, d, D)
  BY DominanceWitness
<1>3. Avoids(edges, r, c, C \cap D)
  BY <1>1, <1>2 DEF Avoids
<1> QED
  BY <1>2, <1>3, DominanceWitness

LEMMA DominanceIsAntisymmetric ==
  ASSUME NEW edges \in SUBSET (Node \X Node), NEW r \in Node, Connected(edges, r),
         NEW c \in Node, NEW d \in Node,
         <<c, d>> \in Dominance(edges, r), <<d, c>> \in Dominance(edges, r)
  PROVE  c = d
<1> SUFFICES ASSUME c # d PROVE FALSE
  OBVIOUS
<1> DEFINE S == {m \in Node : <<c, m>> \notin Dominance(edges, r)
                                /\ <<d, m>> \notin Dominance(edges, r)}
<1>1. r \in S
  BY RootHasOneDominator
<1>2. ASSUME NEW m, NEW n, <<m, n>> \in edges, m \in S PROVE n \in S
  <2>1. m \in Node /\ n \in Node
    BY <1>2
  <2>2. n # c /\ n # d
    BY <1>2, <2>1, DominatesPredecessors
  <2> QED
    BY <1>2, <2>1, <2>2, DominatesPredecessors
<1>3. Closed(edges, S)
  BY <1>2, ClosedByEnds
<1>4. S = Node
  BY <1>1, <1>3 DEF Connected
<1> QED
  BY <1>4, DominatesItself

\* Of the dominators of a node, any set has one that all the others dominate
\* and one that dominates all the others.
LEMMA NearestAndFarthest ==
  ASSUME NEW edges \in SUBSET (Node \X Node), NEW r \in Node, Connected(edges, r),
         NEW n \in Node, NEW T \in SUBSET DominatorsOf(Dominance(edges, r), n), T # {}
  PROVE  /\ \E x \in T : \A y \in T : <<y, x>> \in Dominance(edges, r)
         /\ \E x \in T : \A y \in T : <<x, y>> \in Dominance(edges, r)
<1> DEFINE domi == Dominance(edges, r)
           Good(U) == /\ \E x \in U : \A y \in U : <<y, x>> \in domi
                      /\ \E x \in U : \A y \in U : <<x, y>> \in domi
           S == {m \in Node : \A U \in SUBSET DominatorsOf(domi, m) : U # {} => Good(U)}
<1>1. r \in S
  <2>1. DominatorsOf(domi, r) \subseteq {r} /\ <<r, r>> \in domi
    BY RootHasOneDominator, DominatesItself DEF DominatorsOf
  <2> HIDE DEF domi
  <2>2. ASSUME NEW U \in SUBSET DominatorsOf(domi, r), U # {} PROVE Good(U)
    <3>1. U = {r}
      BY <2>1, <2>2
    <3> QED
      BY <2>1, <3>1
  <2> QED
    BY <2>2
<1>2. ASSUME NEW k, NEW m, <<k, m>> \in edges, k \in S PROVE m \in S
  <2>1. k \in Node /\ m \in Node
    BY <1>2
  <2>2. DominatorsOf(domi, m) \subseteq DominatorsOf(domi, k) \cup {m}
    BY <1>2, <2>1, DominatesPredecessors DEF DominatorsOf
  <2>3. <<m, m>> \in domi
    BY <2>1, DominatesItself
  <2>4. \A U \in SUBSET DominatorsOf(domi, m) :
          /\ U \subseteq Node
          /\ \A y \in U : <<y, m>> \in domi
    BY DEF DominatorsOf
  <2> HIDE DEF domi
  <2>5. ASSUME NEW U \in SUBSET DominatorsOf(domi, m), U # {} PROVE Good(U)
    <3>1. CASE U = {m}
      BY <2>3, <3>1
    <3>2. CASE m \notin U
      <4>1. U \in SUBSET DominatorsOf(domi, k)
        BY <2>2, <3>2
      <4> QED
        BY <1>2, <2>5, <4>1
    <3>3. CASE m \in U /\ U # {m}
      <4> DEFINE V == U \ {m}
      <4>1. V \in SUBSET DominatorsOf(domi, k) /\ V # {}
        BY <2>2, <3>3
      <4>2. Good(V)
        BY <1>2, <4>1
      <4>3. PICK x \in V : \A y \in V : <<x, y>> \in domi
        BY <4>2
      <4>4. \A y \in U : <<x, y>> \in domi
        BY <2>4, <4>3
      <4> QED
        BY <2>4, <3>3, <4>4
    <3> QED
      BY <3>1, <3>2, <3>3
  <2> QED
    BY <2>1, <2>5
<1>3. S \in SUBSET Node /\ Closed(edges, S)
  <2>1. S \in SUBSET Node
    OBVIOUS
  <2> HIDE DEF S
  <2> QED
    BY <1>2, <2>1, ClosedByEnds
<1>4. n \in S
  <2> HIDE DEF S
  <2> QED
    BY <1>1, <1>3 DEF Connected
<1> QED
  BY <1>4

\* The dominators of a node are itself and those of its immediate dominator.
LEMMA ImmediateDominatorFacts ==
  ASSUME NEW edges \in SUBSET (Node \X Node), NEW r \in Node, Connected(edges, r),
         NEW n \in Node, n # r
  PROVE  /\ ImmediateDominator(Dominance(edges, r), r, n) \in Node \ {n}
         /\ DominatorsOf(Dominance(edges, r), n) = {n} \cup
              DominatorsOf(Dominance(edges, r), ImmediateDominator(Dominance(edges, r), r, n))
         /\ n \notin DominatorsOf(Dominance(edges, r),
                                  ImmediateDominator(Dominance(edges, r), r, n))
<1> DEFINE domi == Dominance(edges, r)
           strict == DominatorsOf(domi, n) \ {n}
           up == ImmediateDominator(domi, r, n)
<1>1. r \in strict
  BY RootDominatesAll DEF DominatorsOf
<1>2. \E x \in strict : \A y \in strict : <<y, x>> \in domi
  <2>1. strict \in SUBSET DominatorsOf(domi, n) /\ strict # {}
    BY <1>1
  <2> HIDE DEF strict
  <2> QED
    BY <2>1, NearestAndFarthest
<1>3. up = CHOOSE x \in strict : \A y \in strict : <<y, x>> \in domi
  BY DEF ImmediateDominator
<1>4. up \in strict /\ \A y \in strict : <<y, up>> \in domi
  <2> HIDE DEF strict, domi, up
  <2> QED
    BY <1>2, <1>3
<1>5. up \in Node /\ up # n /\ <<up, n>> \in domi
  BY <1>4 DEF DominatorsOf
<1>6. n \notin DominatorsOf(domi, up)
  <2> HIDE DEF up
  <2> QED
    BY <1>5, DominanceIsAntisymmetric DEF DominatorsOf
<1>7. DominatorsOf(domi, n) \subseteq {n} \cup DominatorsOf(domi, up)
  <2> HIDE DEF up, domi
  <2> QED
    BY <1>4 DEF DominatorsOf
<1>8. {n} \cup DominatorsOf(domi, up) \subseteq DominatorsOf(domi, n)
  <2> HIDE DEF up
  <2> QED
    BY <1>5, DominatesItself, DominanceIsTransitive DEF DominatorsOf
<1> QED
  BY <1>5, <1>6, <1>7, <1>8

(***************************************************************************)
(* The function that climbs the immediate dominators of a node up to the   *)
(* first in a set T, as a definition by recursion gives it.  It exists,    *)
(* and what it finds is the nearest dominator in T.                        *)
(***************************************************************************)

IsClimb(climb, T, up) ==
  climb = [m \in Node |-> IF m \in T THEN m ELSE climb[up[m]]]

LEMMA ClimbExists ==
  ASSUME NEW edges \in SUBSET (Node \X Node), NEW r \in Node, Connected(edges, r),
         NEW T \in SUBSET Node, r \in T, NEW up,
         \A m \in Node \ {r} : up[m] = ImmediateDominator(Dominance(edges, r), r, m)
  PROVE  \E climb : IsClimb(climb, T, up)
<1> DEFINE domi == Dominance(edges, r)
           In(n) == DominatorsOf(domi, n) \cap T
           Nearest(n, x) == x \in In(n) /\ \A y \in In(n) : <<y, x>> \in domi
           climb == [n \in Node |-> CHOOSE x : Nearest(n, x)]
<1>1. ASSUME NEW n \in T PROVE climb[n] = n
  <2>1. n \in Node /\ <<n, n>> \in domi
    BY DominatesItself
  <2>2. Nearest(n, n)
    BY <2>1 DEF DominatorsOf
  <2>3. ASSUME NEW x, Nearest(n, x) PROVE x = n
    <3>1. x \in Node /\ <<x, n>> \in domi /\ <<n, x>> \in domi
      BY <2>2, <2>3 DEF DominatorsOf
    <3> QED
      BY <2>1, <3>1, DominanceIsAntisymmetric
  <2> HIDE DEF Nearest
  <2> QED
    BY <2>1, <2>2, <2>3
<1>2. ASSUME NEW n \in Node \ T PROVE climb[n] = climb[up[n]]
  <2>1. up[n] \in Node /\ DominatorsOf(domi, n) = {n} \cup DominatorsOf(domi, up[n])
    <3>1. n \in Node /\ n # r /\ up[n] = ImmediateDominator(domi, r, n)
      BY <1>2
    <3> QED
      BY <3>1, ImmediateDominatorFacts
  <2>2. In(n) = In(up[n])
    BY <2>1, <1>2
  <2>3. \A x : Nearest(n, x) <=> Nearest(up[n], x)
    BY <2>2
  <2> HIDE DEF Nearest
  <2>4. (CHOOSE x : Nearest(n, x)) = (CHOOSE x : Nearest(up[n], x))
    BY <2>3
  <2>5. \A m \in Node : climb[m] = CHOOSE x : Nearest(m, x)
    OBVIOUS
  <2> HIDE DEF climb
  <2> QED
    BY <1>2, <2>1, <2>4, <2>5
<1>3. climb = [n \in Node |-> climb[n]]
  OBVIOUS
<1> HIDE DEF climb
<1>4. climb = [m \in Node |-> IF m \in T THEN m ELSE climb[up[m]]]
  BY <1>1, <1>2, <1>3
<1> QED
  BY <1>4 DEF IsClimb

LEMMA ClimbFindsNearest ==
  ASSUME NEW edges \in SUBSET (Node \X Node), NEW r \in Node, Connected(edges, r),
         NEW T \in SUBSET Node, r \in T, NEW up,
         \A m \in Node \ {r} : up[m] = ImmediateDominator(Dominance(edges, r), r, m),
         NEW climb, IsClimb(climb, T, up), NEW n \in Node
  PROVE  /\ climb[n] \in DominatorsOf(Dominance(edges, r), n) \cap T
         /\ \A y \in DominatorsOf(Dominance(edges, r), n) \cap T :
              <<y, climb[n]>> \in Dominance(edges, r)
<1> DEFINE domi == Dominance(edges, r)
           In(m) == DominatorsOf(domi, m) \cap T
           Right(m) == climb[m] \in In(m) /\ \A y \in In(m) : <<y, climb[m]>> \in domi
<1>1. ASSUME NEW m \in T PROVE Right(m)
  <2>1. m \in Node /\ climb[m] = m /\ <<m, m>> \in domi
    BY DominatesItself DEF IsClimb
  <2> QED
    BY <2>1 DEF DominatorsOf
<1>2. ASSUME NEW m \in Node \ T
      PROVE  /\ up[m] \in DominatorsOf(domi, m)
             /\ m \notin DominatorsOf(domi, up[m])
             /\ Right(up[m]) => Right(m)
  <2>1. /\ up[m] \in Node
        /\ DominatorsOf(domi, m) = {m} \cup DominatorsOf(domi, up[m])
        /\ m \notin DominatorsOf(domi, up[m])
    <3>1. m \in Node /\ m # r /\ up[m] = ImmediateDominator(domi, r, m)
      BY <1>2
    <3> QED
      BY <3>1, ImmediateDominatorFacts
  <2>2. <<up[m], up[m]>> \in domi
    BY <2>1, DominatesItself
  <2>3. In(m) = In(up[m])
    BY <2>1
  <2>4. climb[m] = climb[up[m]]
    BY DEF IsClimb
  <2> QED
    BY <2>1, <2>2, <2>3, <2>4 DEF DominatorsOf
<1> SUFFICES ASSUME ~Right(n) PROVE FALSE
  OBVIOUS
<1> DEFINE Wrong == {m \in DominatorsOf(domi, n) : ~Right(m)}
<1>3. Wrong \in SUBSET DominatorsOf(domi, n) /\ n \in Wrong
  BY DominatesItself DEF DominatorsOf
<1> HIDE DEF Right
<1>4. PICK x \in Wrong : \A y \in Wrong : <<x, y>> \in domi
  <2> HIDE DEF Wrong
  <2> QED
    BY <1>3, NearestAndFarthest
<1>5. x \in Node /\ <<x, n>> \in domi /\ ~Right(x)
  BY DEF DominatorsOf
<1>6. x \in Node \ T
  BY <1>1, <1>5
<1>7. /\ up[x] \in Node /\ <<up[x], x>> \in domi
      /\ <<x, up[x]>> \notin domi /\ ~Right(up[x])
  BY <1>2, <1>5, <1>6 DEF DominatorsOf
<1>8. up[x] \in Wrong
  BY <1>5, <1>7, DominanceIsTransitive DEF DominatorsOf
<1> QED
  BY <1>4, <1>7, <1>8

(***************************************************************************)
(* Facts about loops.                                                      *)
(***************************************************************************)

\* What is assumed of a function throughout, and what of its dominators.
IsAnalysed(f, dom) ==
  /\ f \in [Block -> FlowStmt] /\ WellFormed(f)
  /\ dom = [b \in Block |-> DominatorsOf(Dominance(ForwardEdges(f), Entry), b) \cap Block]

LEMMA AnalysedFacts ==
  ASSUME NEW f, NEW dom, IsAnalysed(f, dom)
  PROVE  /\ ForwardEdges(f) \in SUBSET (Node \X Node)
         /\ Connected(ForwardEdges(f), Entry)
         /\ Entry \in Node /\ Block \subseteq Node
         /\ \A b \in Block : /\ dom[b] \subseteq Block
                             /\ \A d \in Block : d \in dom[b] <=> <<d, b>> \in Dominance(ForwardEdges(f), Entry)
<1>1. FALSE \in BOOLEAN /\ Edges(f, FALSE) = ForwardEdges(f) /\ Root(FALSE) = Entry
  BY DEF Edges, Root
<1>2. ForwardEdges(f) \in SUBSET (Node \X Node)
  BY <1>1, EdgesArePairs DEF IsAnalysed
<1>3. Connected(ForwardEdges(f), Entry)
  BY <1>1 DEF IsAnalysed, WellFormed
<1>4. Entry \in Node /\ Block \subseteq Node
  BY BlockAssumption DEF Node
<1>5. ASSUME NEW b \in Block
      PROVE  /\ dom[b] \subseteq Block
             /\ \A d \in Block : d \in dom[b] <=> <<d, b>> \in Dominance(ForwardEdges(f), Entry)
  BY <1>4 DEF IsAnalysed, DominatorsOf
<1> QED
  BY <1>2, <1>3, <1>4, <1>5

\* The edges that do not touch h.
LEMMA EdgesWithout ==
  ASSUME NEW W \in SUBSET (Node \X Node), NEW h
  PROVE  /\ WithoutNode(W, h) \in SUBSET (Node \X Node)
         /\ \A m, n : <<m, n>> \in WithoutNode(W, h) <=> <<m, n>> \in W /\ m # h /\ n # h
BY DEF WithoutNode

\* What is reached from what is reached is reached.
LEMMA ReachesOn ==
  ASSUME NEW W \in SUBSET (Node \X Node), NEW a \in Node, NEW b \in Reachable(W, a)
  PROVE  Reachable(W, b) \subseteq Reachable(W, a)
BY ReachableIsClosed, ClosedByEnds, ReachableIsLeast

\* What does not touch h is reached by no one but h from h.
LEMMA ReachesNotWithout ==
  ASSUME NEW W \in SUBSET (Node \X Node), NEW h \in Node, NEW a \in Node, a # h
  PROVE  h \notin Reachable(WithoutNode(W, h), a)
<1> DEFINE E == WithoutNode(W, h)
<1>1. E \in SUBSET (Node \X Node) /\ \A m, n : <<m, n>> \in E => n # h
  BY EdgesWithout
<1> HIDE DEF E
<1>2. Node \ {h} \in SUBSET Node /\ a \in Node \ {h} /\ Closed(E, Node \ {h})
  BY <1>1, ClosedByEnds
<1>3. Reachable(E, a) \subseteq Node \ {h}
  BY <1>2, ReachableIsLeast
<1> QED
  BY <1>3 DEF E

\* A header dominates the blocks of its loop.
LEMMA HeaderDominates ==
  ASSUME NEW f, NEW dom, IsAnalysed(f, dom), NEW h \in Block, NEW b \in LoopOf(f, dom, h)
  PROVE  h \in dom[b]
<1> DEFINE W == ForwardEdges(f)
           domi == Dominance(W, Entry)
           E == WithoutNode(W, h)
           S == {m \in Node : <<h, m>> \notin domi}
<1>1. /\ W \in SUBSET (Node \X Node) /\ Entry \in Node /\ b \in Block /\ h \in Node /\ b \in Node
      /\ \A c \in Block : h \in dom[c] <=> <<h, c>> \in domi
  BY AnalysedFacts DEF LoopOf
<1>2. PICK l \in Latches(f, dom, h) : b = h \/ l \in Reachable(E, b)
  BY DEF LoopOf
<1>3. l \in Block /\ h \in dom[l] /\ <<h, l>> \in domi /\ l \notin S
  BY <1>1, <1>2 DEF Latches
<1>4. <<h, h>> \in domi
  BY <1>1, DominatesItself
<1>5. Avoids(W, Entry, h, S)
  BY <1>1, NotDominatedAvoids
<1>6. E \in SUBSET (Node \X Node) /\ \A m, n : <<m, n>> \in E => <<m, n>> \in W /\ n # h
  BY <1>1, EdgesWithout
<1>7. S \in SUBSET Node
  OBVIOUS
<1> HIDE DEF E, S, domi, W
<1>8. \A m, n : <<m, n>> \in E /\ m \in S => n \in S
  BY <1>5, <1>6 DEF Avoids
<1>9. b \in S => Reachable(E, b) \subseteq S
  BY <1>6, <1>7, <1>8, ClosedByEnds, ReachableIsLeast
<1>10. b \in S => b = h
  BY <1>2, <1>3, <1>9
<1>11. b \notin S
  BY <1>1, <1>4, <1>10 DEF S
<1> QED
  BY <1>1, <1>11 DEF S

\* What lies between a header and a block of its loop lies in the loop.
LEMMA BetweenIsInside ==
  ASSUME NEW f, NEW dom, IsAnalysed(f, dom), NEW h \in Block, NEW b \in LoopOf(f, dom, h),
         NEW d \in dom[b], h \in dom[d]
  PROVE  d \in LoopOf(f, dom, h)
<1> DEFINE W == ForwardEdges(f)
           domi == Dominance(W, Entry)
           E == WithoutNode(W, h)
           R == Reachable(E, d)
           S == {m \in Node : <<d, m>> \notin domi} \cup R
<1>1. /\ W \in SUBSET (Node \X Node) /\ Connected(W, Entry) /\ Entry \in Node
      /\ b \in Block /\ d \in Block /\ {h, b, d} \subseteq Node
      /\ <<d, b>> \in domi /\ <<h, d>> \in domi
  BY AnalysedFacts DEF LoopOf
<1>2. PICK l \in Latches(f, dom, h) : b = h \/ l \in Reachable(E, b)
  BY DEF LoopOf
<1>3. CASE d = h
  BY <1>1, <1>2, <1>3 DEF LoopOf
<1>4. CASE d # h
  <2>1. <<d, h>> \notin domi
    BY <1>1, <1>4, DominanceIsAntisymmetric
  <2>2. E \in SUBSET (Node \X Node) /\ \A m, n : <<m, n>> \in E <=> <<m, n>> \in W /\ m # h /\ n # h
    BY <1>1, EdgesWithout
  <2>3. /\ d \in R /\ R \subseteq Node /\ h \notin R
        /\ \A m, n : <<m, n>> \in E /\ m \in R => n \in R
    BY <1>1, <1>4, <2>2, ReachableIsClosed, ReachesNotWithout
  <2>4. \A m, n : <<m, n>> \in W /\ <<d, n>> \in domi /\ n # d => <<d, m>> \in domi
    BY <1>1, DominatesPredecessors
  <2>5. <<d, Entry>> \in domi => d = Entry
    BY <1>1, RootHasOneDominator
  <2> HIDE DEF R, E, domi, W
  <2>6. S \in SUBSET Node /\ Entry \in S
    BY <1>1, <2>3, <2>5
  <2>7. ASSUME NEW m, NEW n, <<m, n>> \in W, m \in S PROVE n \in S
    <3>1. m \in Node /\ n \in Node
      BY <1>1, <2>7
    <3>2. CASE m \in R
      BY <1>1, <2>1, <2>2, <2>3, <2>7, <3>1, <3>2
    <3>3. CASE m \notin R
      BY <2>3, <2>4, <2>7, <3>1, <3>3
    <3> QED
      BY <3>2, <3>3
  <2>8. Closed(W, S)
    <3> HIDE DEF S
    <3> QED
      BY <1>1, <2>7, ClosedByEnds
  <2>9. S = Node
    <3> HIDE DEF S
    <3> QED
      BY <1>1, <2>6, <2>8 DEF Connected
  <2>10. b \in R
    BY <1>1, <2>9
  <2>11. b # h
    BY <2>3, <2>10
  <2>12. l \in R
    BY <1>1, <1>2, <2>2, <2>10, <2>11, ReachesOn DEF R
  <2> QED
    BY <1>1, <1>2, <2>12 DEF LoopOf, R, E, W
<1> QED
  BY <1>3, <1>4

\* Loops around a header are around all blocks of its loop.
LEMMA LoopsAreNested ==
  ASSUME NEW f, NEW dom, IsAnalysed(f, dom), NEW k \in Block, NEW h \in LoopOf(f, dom, k),
         NEW b \in LoopOf(f, dom, h)
  PROVE  b \in LoopOf(f, dom, k)
<1> DEFINE W == ForwardEdges(f)
           domi == Dominance(W, Entry)
           H == WithoutNode(W, h)
           K == WithoutNode(W, k)
           R == Reachable(K, b)
           S == {m \in Node : <<h, m>> \notin domi} \cup R
<1>1. /\ W \in SUBSET (Node \X Node) /\ Connected(W, Entry) /\ Entry \in Node
      /\ {k, h, b} \subseteq Block /\ {k, h, b} \subseteq Node
      /\ <<k, h>> \in domi /\ <<h, b>> \in domi
  <2>1. h \in Block /\ b \in Block
    BY DEF LoopOf
  <2> QED
    BY <2>1, AnalysedFacts, HeaderDominates
<1>2. CASE b = h \/ k = h
  BY <1>2
<1>3. CASE b # h /\ k # h
  <2>1. PICK l \in Latches(f, dom, h) : l \in Reachable(H, b)
    BY <1>3 DEF LoopOf
  <2>2. PICK m \in Latches(f, dom, k) : m \in Reachable(K, h)
    BY <1>3 DEF LoopOf
  <2>3. l \in Block /\ l \in Node /\ <<h, l>> \in domi /\ <<l, h>> \in W
    <3>1. l \in Block /\ h \in Range(f[l].to) /\ h \in dom[l]
      BY DEF Latches
    <3>2. h \in Targets(f[l])
      BY <3>1, TargetFacts DEF IsAnalysed
    <3> QED
      BY <1>1, <3>1, <3>2, TargetFacts, AnalysedFacts DEF IsAnalysed
  <2>4. <<h, k>> \notin domi
    BY <1>1, <1>3, DominanceIsAntisymmetric
  <2>5. /\ H \in SUBSET (Node \X Node) /\ K \in SUBSET (Node \X Node)
        /\ \A x, y : <<x, y>> \in H <=> <<x, y>> \in W /\ x # h /\ y # h
        /\ \A x, y : <<x, y>> \in K <=> <<x, y>> \in W /\ x # k /\ y # k
    BY <1>1, EdgesWithout
  <2>6. /\ b \in R /\ R \subseteq Node
        /\ \A x, y : <<x, y>> \in K /\ x \in R => y \in R
    BY <1>1, <2>5, ReachableIsClosed
  <2>7. \A x, y : <<x, y>> \in W /\ <<h, y>> \in domi /\ y # h => <<h, x>> \in domi
    BY <1>1, DominatesPredecessors
  <2>8. h \in R => m \in R
    BY <1>1, <2>2, <2>5, ReachesOn
  <2>9. S \in SUBSET Node /\ b \in S
    BY <2>6
  <2> HIDE DEF R, H, K, domi, W
  <2>10. ASSUME NEW x, NEW y, <<x, y>> \in H, x \in S PROVE y \in S
    <3>1. x \in Node /\ y \in Node /\ <<x, y>> \in W /\ y # h
      BY <2>5, <2>10
    <3>2. CASE <<h, x>> \in domi /\ y # k
      <4>1. x \in R /\ x # k
        BY <2>4, <2>10, <3>2
      <4> QED
        BY <2>5, <2>6, <3>1, <3>2, <4>1
    <3>3. CASE <<h, x>> \notin domi
      BY <2>7, <3>1, <3>3
    <3>4. CASE y = k
      BY <2>4, <3>1, <3>4
    <3> QED
      BY <3>2, <3>3, <3>4
  <2>11. Closed(H, S)
    <3> HIDE DEF S
    <3> QED
      BY <2>5, <2>10, ClosedByEnds
  <2>12. l \in S
    <3> HIDE DEF S
    <3> QED
      BY <2>1, <2>9, <2>11, ReachableIsLeast
  <2>13. l \in R
    BY <2>3, <2>12
  <2>14. m \in R
    BY <1>3, <2>3, <2>4, <2>5, <2>6, <2>8, <2>13
  <2> QED
    BY <1>1, <2>2, <2>14 DEF LoopOf, R, K, W
<1> QED
  BY <1>2, <1>3

\* A block is the header of a loop iff it lies in its own loop.
LEMMA HeaderInside ==
  ASSUME NEW f, NEW dom, NEW h \in Block
  PROVE  /\ h \in LoopOf(f, dom, h) <=> Latches(f, dom, h) # {}
         /\ LoopOf(f, dom, h) # {} => Latches(f, dom, h) # {}
BY DEF LoopOf

\* The dominator of a block lies in all loops that the block does not begin.
LEMMA DominatorInside ==
  ASSUME NEW f, NEW dom, IsAnalysed(f, dom), NEW b \in Block, b # Entry,
         NEW d, d = ImmediateDominator(Dominance(ForwardEdges(f), Entry), Entry, b)
  PROVE  /\ d \in Block /\ d \in dom[b] /\ b \notin dom[d]
         /\ dom[d] \subseteq dom[b]
         /\ LoopsAround(f, dom, b) \ {b} \subseteq LoopsAround(f, dom, d)
<1> DEFINE W == ForwardEdges(f)
           domi == Dominance(W, Entry)
<1>1. /\ W \in SUBSET (Node \X Node) /\ Connected(W, Entry) /\ Entry \in Node /\ b \in Node
      /\ Block \subseteq Node
  BY AnalysedFacts
<1>2. /\ d \in Node \ {b}
      /\ DominatorsOf(domi, b) = {b} \cup DominatorsOf(domi, d)
      /\ b \notin DominatorsOf(domi, d)
  <2> HIDE DEF W
  <2>1. LET up == ImmediateDominator(Dominance(W, Entry), Entry, b)
        IN  /\ up \in Node \ {b}
            /\ DominatorsOf(Dominance(W, Entry), b) = {b} \cup DominatorsOf(Dominance(W, Entry), up)
            /\ b \notin DominatorsOf(Dominance(W, Entry), up)
    BY <1>1, ImmediateDominatorFacts
  <2> QED
    BY <2>1 DEF W
<1>3. d \in DominatorsOf(domi, b)
  BY <1>1, <1>2, DominatesItself DEF DominatorsOf
<1>4. d # Dummy
  <2>1. \A e \in W : e[1] # Dummy /\ e[2] \in Node
    BY <1>1, BlockAssumption DEF ForwardEdges
  <2>2. Dummy \in Node /\ b # Dummy
    BY BlockAssumption DEF Node
  <2> HIDE DEF W
  <2>3. ASSUME <<Dummy, b>> \in domi PROVE FALSE
    <3>1. PICK S \in SUBSET Node : b \notin S /\ Avoids(W, Entry, Dummy, S)
      BY <1>1, <2>2, <2>3, DominanceWitness
    <3>2. Entry \in S \cup {Dummy} /\ Closed(W, S \cup {Dummy})
      BY <2>1, <3>1 DEF Avoids, Closed
    <3>3. S \cup {Dummy} = Node
      BY <1>1, <2>2, <3>2 DEF Connected
    <3> QED
      BY <1>1, <2>2, <3>1, <3>3
  <2> QED
    BY <1>3, <2>3 DEF DominatorsOf
<1>5. d \in Block
  BY <1>2, <1>4 DEF Node
<1>6. dom[b] = {b} \cup dom[d] /\ b \notin dom[d] /\ d \in dom[b]
  BY <1>2, <1>3, <1>5 DEF IsAnalysed
<1>7. ASSUME NEW h \in LoopsAround(f, dom, b) \ {b} PROVE h \in LoopsAround(f, dom, d)
  <2>1. h \in Block /\ b \in LoopOf(f, dom, h)
    BY DEF LoopsAround
  <2>2. h \in dom[d]
    BY <1>6, <2>1, HeaderDominates
  <2> QED
    BY <1>6, <2>1, <2>2, BetweenIsInside DEF LoopsAround
<1> QED
  BY <1>5, <1>6, <1>7

\* A loop holds what leads to its blocks other than the header.
LEMMA PredecessorInside ==
  ASSUME NEW f, NEW dom, IsAnalysed(f, dom), NEW h \in Block, NEW x \in LoopOf(f, dom, h), x # h,
         NEW p \in Block, x \in Range(f[p].to)
  PROVE  p \in LoopOf(f, dom, h)
<1> DEFINE W == ForwardEdges(f)
           E == WithoutNode(W, h)
<1>1. W \in SUBSET (Node \X Node) /\ p \in Node /\ <<p, x>> \in W
  <2>1. x \in Targets(f[p])
    BY TargetFacts DEF IsAnalysed
  <2> QED
    BY <2>1, AnalysedFacts, TargetFacts DEF IsAnalysed
<1>2. PICK l \in Latches(f, dom, h) : l \in Reachable(E, x)
  BY DEF LoopOf
<1>3. E \in SUBSET (Node \X Node) /\ (p # h => <<p, x>> \in E)
  BY <1>1, EdgesWithout
<1> HIDE DEF E, W
<1>4. p # h => x \in Reachable(E, p)
  BY <1>1, <1>3, ReachableIsClosed
<1>5. p # h => l \in Reachable(E, p)
  BY <1>1, <1>2, <1>3, <1>4, ReachesOn
<1> QED
  BY <1>2, <1>5 DEF LoopOf, E, W

\* A set of blocks of a loop that holds its latches and what leads to any of it
\* but the header is the loop.
LEMMA ClosedIsWhole ==
  ASSUME NEW f, NEW dom, IsAnalysed(f, dom), NEW h \in Block, Latches(f, dom, h) # {},
         NEW B \in SUBSET LoopOf(f, dom, h), Latches(f, dom, h) \subseteq B,
         \A x \in B \ {h}, p \in Block : x \in Range(f[p].to) => p \in B
  PROVE  B = LoopOf(f, dom, h)
<1> DEFINE W == ForwardEdges(f)
           E == WithoutNode(W, h)
           S == Node \ B
<1>1. /\ W \in SUBSET (Node \X Node) /\ Connected(W, Entry) /\ Entry \in Node /\ Entry \in Block
      /\ Block \subseteq Node /\ B \subseteq Block
  BY AnalysedFacts, BlockAssumption DEF LoopOf
<1>2. ASSUME NEW m, NEW n, <<m, n>> \in W, m \in S, n # h PROVE n \in S
  <2>1. m \in Block /\ n \in Targets(f[m]) /\ n \in Node
    BY <1>1, <1>2 DEF ForwardEdges
  <2>2. n \in Range(f[m].to) \/ n = Dummy
    BY <2>1, TargetFacts DEF IsAnalysed
  <2>3. n \notin B
    BY <1>1, <1>2, <2>1, <2>2, BlockAssumption
  <2> QED
    BY <2>1, <2>3
<1>3. E \in SUBSET (Node \X Node) /\ \A m, n : <<m, n>> \in E => <<m, n>> \in W /\ n # h
  BY <1>1, EdgesWithout
<1>4. ASSUME NEW b \in LoopOf(f, dom, h), b # h PROVE b \in B
  <2>1. b \in Node
    BY <1>1 DEF LoopOf
  <2>2. PICK l \in Latches(f, dom, h) : l \in Reachable(E, b)
    BY <1>4 DEF LoopOf
  <2> HIDE DEF E, W
  <2>3. Closed(E, S)
    <3> HIDE DEF S
    <3> QED
      BY <1>2, <1>3, ClosedByEnds
  <2>4. b \in S => l \in S
    <3> HIDE DEF S
    <3>1. S \in SUBSET Node
      BY DEF S
    <3> QED
      BY <2>2, <2>3, <3>1, ReachableIsLeast
  <2> QED
    BY <2>1, <2>2, <2>4
<1>5. h \in B
  <2> SUFFICES ASSUME h \notin B PROVE FALSE
    OBVIOUS
  <2>1. h \in S
    BY <1>1
  <2>2. \A m, n : <<m, n>> \in W /\ m \in S => n \in S
    BY <1>2, <2>1
  <2>3. Entry \in S
    <3>1. Entry \in LoopOf(f, dom, h) => h = Entry
      <4>1. Entry \in LoopOf(f, dom, h) => <<h, Entry>> \in Dominance(W, Entry)
        BY <1>1, HeaderDominates, AnalysedFacts
      <4> QED
        BY <1>1, <4>1, RootHasOneDominator
    <3> QED
      BY <1>1, <2>1, <3>1
  <2> HIDE DEF W
  <2>4. Closed(W, S)
    <3> HIDE DEF S
    <3> QED
      BY <1>1, <2>2, ClosedByEnds
  <2>5. S = Node
    <3>1. S \in SUBSET Node
      OBVIOUS
    <3> HIDE DEF S
    <3> QED
      BY <1>1, <2>3, <2>4, <3>1 DEF Connected
  <2>6. PICK l : l \in Latches(f, dom, h)
    OBVIOUS
  <2> QED
    BY <1>1, <2>5, <2>6
<1> QED
  BY <1>4, <1>5

=============================================================================

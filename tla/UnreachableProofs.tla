--------------------------- MODULE UnreachableProofs ---------------------------
(***************************************************************************)
(* Theorems about unreachableRemover, for every function and any number of *)
(* calls: it implements Reduction, and what it leaves is what a dominator  *)
(* analysis needs.                                                         *)
(*                                                                         *)
(* Each search stays within what is reachable and ends on a closed set, so *)
(* it finds just that.  A block on a way from the entry to a kept block is *)
(* kept, so the ways of the function that is left are those of the one it  *)
(* was.                                                                    *)
(***************************************************************************)
EXTENDS UnreachableRemover, FlowGraphProofs, TLAPS

(***************************************************************************)
(* Facts about reachability.                                               *)
(***************************************************************************)

LEMMA BackwardsWays ==
  ASSUME NEW W \in SUBSET (Node \X Node)
  PROVE  /\ Backwards(W) \in SUBSET (Node \X Node)
         /\ \A m, n : <<m, n>> \in Backwards(W) <=> <<n, m>> \in W
BY TurnedAround DEF Backwards

\* Where the ways to a set of reachable nodes lead through that set only, it is
\* what can be reached by the ways within it.
LEMMA WaysWithin ==
  ASSUME NEW W \in SUBSET (Node \X Node), NEW A \in SUBSET (Node \X Node),
         NEW r \in Node, NEW K \in SUBSET Node,
         r \in K, K \subseteq Reachable(W, r),
         \A m, n : <<m, n>> \in W /\ m \in Reachable(W, r) /\ n \in K => m \in K,
         \A m, n : <<m, n>> \in A <=> <<m, n>> \in W /\ m \in K /\ n \in K
  PROVE  Reachable(A, r) = K
<1>1. Closed(A, K)
  BY ClosedByEnds
<1>2. Reachable(A, r) \subseteq K
  BY <1>1, ReachableIsLeast
<1> DEFINE T == {n \in Reachable(W, r) : n \in K => n \in Reachable(A, r)}
<1>3. Closed(W, T)
  <2> SUFFICES ASSUME NEW m, NEW n, <<m, n>> \in W, m \in T PROVE n \in T
    BY ClosedByEnds
  <2>1. n \in Reachable(W, r)
    BY ReachableIsClosed
  <2>2. n \in K => n \in Reachable(A, r)
    BY ReachableIsClosed
  <2> QED
    BY <2>1, <2>2
<1>4. r \in T /\ T \in SUBSET Node
  BY ReachableIsClosed
<1>5. Reachable(W, r) \subseteq T
  <2> HIDE DEF T
  <2> QED
    BY <1>3, <1>4, ReachableIsLeast
<1> QED
  BY <1>2, <1>5

(***************************************************************************)
(* The ways through a function that a call is given.                       *)
(***************************************************************************)

Stmts(f) == [b \in Block |-> Marked(f.flow[b], f.fate[b])]

Reached(f) == Reachable(MarkedEdges(f), Entry)

Returning(f) == Reachable(Backwards(MarkedEdges(f)), Dummy)

Keep(f) == Useful(MarkedEdges(f))

\* Marked takes a flow statement to one with no other targets.
LEMMA MarkedFacts ==
  ASSUME NEW stmt \in FlowStmt, NEW fate \in Fate
  PROVE  /\ Marked(stmt, fate) \in FlowStmt
         /\ fate = "ub" => Marked(stmt, fate) = Unreachable
<1>1. stmt.op = "branch" => stmt.to[1] \in Block /\ stmt.to[2] \in Block
  BY DEF FlowStmt, Return, Unreachable, Jump, Branch
<1> QED
  BY <1>1 DEF Marked, FlowStmt, Fate

LEMMA WayFacts ==
  ASSUME NEW f \in Function
  PROVE  /\ Stmts(f) \in [Block -> FlowStmt]
         /\ f.data \in SUBSET Block
         /\ MarkedEdges(f) \in SUBSET (Node \X Node)
         /\ Backwards(MarkedEdges(f)) \in SUBSET (Node \X Node)
         /\ \A m, n : <<m, n>> \in MarkedEdges(f) <=> m \in f.data /\ n \in Targets(Stmts(f)[m])
         /\ \A m, n : <<m, n>> \in Built(f.data, Stmts(f)) <=> <<m, n>> \in MarkedEdges(f) /\ n # Dummy
         /\ Built(f.data, Stmts(f)) \in SUBSET (Block \X Block)
<1>1. f.data \in SUBSET Block /\ f.flow \in [Block -> FlowStmt] /\ f.fate \in [Block -> Fate]
  BY DEF Function
<1>2. Stmts(f) \in [Block -> FlowStmt]
  BY <1>1, MarkedFacts DEF Stmts
<1>3. MarkedEdges(f) = {e \in ForwardEdges(Stmts(f)) : e[1] \in f.data}
  BY DEF Stmts, MarkedEdges
<1>4. ForwardEdges(Stmts(f)) \in SUBSET (Node \X Node)
  <2>1. Edges(Stmts(f), FALSE) = ForwardEdges(Stmts(f))
    BY DEF Edges
  <2> QED
    BY <1>2, <2>1, EdgesArePairs
<1>5. \A m, n : <<m, n>> \in MarkedEdges(f) <=> m \in f.data /\ n \in Targets(Stmts(f)[m])
  BY <1>1, <1>3 DEF ForwardEdges
<1>6. \A b \in f.data : /\ Targets(Stmts(f)[b]) \ {Dummy} = Range(Stmts(f)[b].to)
                        /\ Range(Stmts(f)[b].to) \subseteq Block
  BY <1>1, <1>2, TargetFacts
<1>7. \A m, n : <<m, n>> \in Built(f.data, Stmts(f)) <=> m \in f.data /\ n \in Range(Stmts(f)[m].to)
  BY DEF Built
<1>8. \A m, n : <<m, n>> \in Built(f.data, Stmts(f)) <=> <<m, n>> \in MarkedEdges(f) /\ n # Dummy
  BY <1>5, <1>6, <1>7, BlockAssumption
<1>9. Built(f.data, Stmts(f)) \in SUBSET (Block \X Block)
  BY <1>1, <1>6 DEF Built
<1> QED
  BY <1>1, <1>2, <1>3, <1>4, <1>5, <1>8, <1>9, BackwardsWays

\* What is kept is part of the function; a kept block returns or has a kept
\* target; none holds undefined behaviour.
LEMMA KeptFacts ==
  ASSUME NEW f \in Function
  PROVE  /\ Keep(f) \subseteq f.data
         /\ Keep(f) \subseteq Block
         /\ Keep(f) = Reached(f) \cap Returning(f) \cap Block
         /\ Reached(f) \subseteq Node /\ Returning(f) \subseteq Node
         /\ Entry \in Reached(f) /\ Dummy \in Returning(f)
         /\ \A m, n : <<m, n>> \in MarkedEdges(f) /\ m \in Reached(f) => n \in Reached(f)
         /\ \A m, n : <<m, n>> \in MarkedEdges(f) /\ n \in Returning(f) => m \in Returning(f)
         /\ \A b \in Keep(f) : \E n \in Keep(f) \cup {Dummy} : <<b, n>> \in MarkedEdges(f)
         /\ \A b \in Keep(f) : f.fate[b] # "ub"
<1> DEFINE W == MarkedEdges(f)
<1>1. W \in SUBSET (Node \X Node) /\ Backwards(W) \in SUBSET (Node \X Node)
  BY WayFacts
<1>2. Entry \in Node /\ Dummy \in Node /\ Dummy \notin Block
  BY BlockAssumption DEF Node
<1> HIDE DEF W
<1>3. /\ Reached(f) \subseteq Node /\ Entry \in Reached(f)
      /\ \A m, n : <<m, n>> \in W /\ m \in Reached(f) => n \in Reached(f)
  BY <1>1, <1>2, ReachableIsClosed DEF Reached, W
<1>4. /\ Returning(f) \subseteq Node /\ Dummy \in Returning(f)
      /\ \A m, n : <<m, n>> \in Backwards(W) /\ m \in Returning(f) => n \in Returning(f)
  BY <1>1, <1>2, ReachableIsClosed DEF Returning, W
<1>5. \A m, n : <<m, n>> \in W /\ n \in Returning(f) => m \in Returning(f)
  BY <1>1, <1>4, BackwardsWays
<1>6. Keep(f) = Reached(f) \cap Returning(f) \cap Block
  BY DEF Keep, Reached, Returning, Useful
<1>7. ASSUME NEW b \in Keep(f) PROVE \E n \in Keep(f) \cup {Dummy} : <<b, n>> \in W
  <2> SUFFICES ASSUME \A n \in Keep(f) \cup {Dummy} : <<b, n>> \notin W PROVE FALSE
    OBVIOUS
  <2> DEFINE S == Returning(f) \ {b}
  <2>1. \A n : <<b, n>> \in W => n \notin Returning(f)
    BY <1>1, <1>3, <1>6, <1>7 DEF Node
  <2>2. Closed(Backwards(W), S)
    <3>1. ASSUME NEW m, NEW n, <<m, n>> \in Backwards(W), m \in S PROVE n \in S
      <4>1. <<n, m>> \in W
        BY <1>1, <3>1, BackwardsWays
      <4> QED
        BY <1>5, <2>1, <3>1, <4>1
    <3> QED
      BY <1>1, <3>1, ClosedByEnds
  <2>3. Dummy \in S /\ S \in SUBSET Node
    BY <1>2, <1>4, <1>6
  <2>4. Returning(f) \subseteq S
    BY <2>2, <2>3, ReachableIsLeast DEF Returning, W
  <2> QED
    BY <1>6, <2>4
<1>8. Keep(f) \subseteq f.data
  BY <1>7, WayFacts DEF W
<1>9. ASSUME NEW b \in Keep(f), f.fate[b] = "ub" PROVE FALSE
  <2>1. b \in Block /\ f.flow[b] \in FlowStmt /\ f.fate[b] \in Fate
    BY <1>6 DEF Function
  <2>2. Stmts(f)[b] = Unreachable
    BY <1>9, <2>1, MarkedFacts DEF Stmts
  <2>3. Targets(Stmts(f)[b]) = {}
    <3>1. DOMAIN Stmts(f)[b].to = {} /\ Stmts(f)[b].op # "return"
      BY <2>2 DEF Unreachable
    <3> QED
      BY <3>1 DEF Targets, Range
  <2> QED
    BY <1>7, <2>3, WayFacts DEF W
<1> QED
  BY <1>3, <1>4, <1>5, <1>6, <1>7, <1>8, <1>9 DEF W

\* A kept block's flow, with the targets that are not kept taken away: the
\* code's updateCFG and Trimmed agree on it.
LEMMA TrimmedFacts ==
  ASSUME NEW K \in SUBSET Block, NEW stmt \in FlowStmt,
         NEW t \in K \cup {Dummy}, t \in Targets(stmt)
  PROVE  /\ Trimmed(stmt, K) \in FlowStmt
         /\ Targets(Trimmed(stmt, K)) = Targets(stmt) \cap (K \cup {Dummy})
         /\ Trimmed(Trimmed(stmt, K), K) = Trimmed(stmt, K)
         /\ visit0 = K => UpdatedFlow(stmt) = Trimmed(stmt, K)
<1>1. CASE stmt.op # "branch"
  <2>1. Trimmed(stmt, K) = stmt /\ UpdatedFlow(stmt) = stmt
    BY <1>1 DEF Trimmed, UpdatedFlow
  <2>2. Targets(stmt) = Targets(stmt) \cap (K \cup {Dummy})
    BY <1>1, NoBranch
  <2> QED
    BY <2>1, <2>2
<1>2. CASE stmt.op = "branch"
  <2>1. PICK b \in Block, c \in Block : stmt = Branch(b, c)
    BY <1>2 DEF FlowStmt, Return, Unreachable, Jump
  <2>2. /\ stmt.to = <<b, c>> /\ stmt.to[1] = b /\ stmt.to[2] = c
        /\ Range(stmt.to) = {b, c} /\ Targets(stmt) = {b, c}
    <3>1. stmt.to = <<b, c>> /\ DOMAIN stmt.to = {1, 2} /\ stmt.to[1] = b /\ stmt.to[2] = c
      BY <2>1 DEF Branch
    <3>2. Range(stmt.to) = {b, c}
      BY <3>1 DEF Range
    <3> QED
      BY <1>2, <3>1, <3>2 DEF Targets
  <2>3. b \in K \/ c \in K
    BY <2>2, BlockAssumption
  <2>4. \A d : /\ Jump(d).op = "jump" /\ Jump(d).to = <<d>>
               /\ Range(Jump(d).to) = {d} /\ Targets(Jump(d)) = {d}
    BY OneTarget DEF Jump, Targets
  <2>5. ASSUME NEW d \in K, {b, c} \cap K = {d}
        PROVE  /\ Trimmed(stmt, K) = Jump(d)
               /\ visit0 = K => UpdatedFlow(stmt) = Jump(d)
    <3>1. Trimmed(stmt, K) = Jump(d)
      <4> DEFINE only == CHOOSE e \in K : Range(stmt.to) \cap K = {e}
      <4>1. only = d
        BY <2>2, <2>5
      <4> QED
        BY <1>2, <2>2, <2>5, <4>1 DEF Trimmed
    <3>2. visit0 = K => UpdatedFlow(stmt) = Jump(d)
      BY <1>2, <2>2, <2>5 DEF UpdatedFlow
    <3> QED
      BY <3>1, <3>2
  <2>6. ASSUME NEW d \in K, {b, c} \cap K = {d} PROVE Trimmed(Jump(d), K) = Jump(d)
    BY <2>4 DEF Trimmed
  <2>7. CASE b = c \/ b \notin K \/ c \notin K
    <3>1. PICK d \in K : {b, c} \cap K = {d}
      BY <2>3, <2>7
    <3> QED
      BY <2>2, <2>4, <2>5, <2>6, <3>1, BlockAssumption DEF FlowStmt
  <2>8. CASE b # c /\ b \in K /\ c \in K
    <3>1. Trimmed(stmt, K) = stmt
      BY <2>2, <2>8 DEF Trimmed
    <3>2. visit0 = K => UpdatedFlow(stmt) = stmt
      BY <2>2, <2>8 DEF UpdatedFlow
    <3> QED
      BY <2>2, <2>8, <3>1, <3>2
  <2> QED
    BY <2>7, <2>8
<1> QED
  BY <1>1, <1>2

\* The ways of the reduced function are those between kept blocks and to the
\* end of it.
LEMMA ReducedFacts ==
  ASSUME NEW f \in Function
  PROVE  /\ Reduced(f).data = Keep(f)
         /\ Reduced(f).flow \in [Block -> FlowStmt]
         /\ Reduced(f).phi \in [Block -> SUBSET Block]
         /\ \A b \in Block : Reduced(f).flow[b] =
              IF b \in Keep(f) THEN Trimmed(Stmts(f)[b], Keep(f)) ELSE Unreachable
         /\ \A b \in Block : Reduced(f).phi[b] =
              IF b \in Keep(f) THEN f.phi[b] \cap {p \in Keep(f) : <<p, b>> \in MarkedEdges(f)}
              ELSE {}
         /\ \A b \in Keep(f) : /\ Stmts(f)[b] \in FlowStmt
                               /\ \E t \in Keep(f) \cup {Dummy} : t \in Targets(Stmts(f)[b])
         /\ \A b \in Keep(f) : Targets(Reduced(f).flow[b]) =
              Targets(Stmts(f)[b]) \cap (Keep(f) \cup {Dummy})
<1>1. /\ Reduced(f).data = Keep(f)
      /\ Reduced(f).flow = [b \in Block |-> IF b \in Keep(f)
                             THEN Trimmed(Marked(f.flow[b], f.fate[b]), Keep(f)) ELSE Unreachable]
      /\ Reduced(f).phi = [b \in Block |-> IF b \in Keep(f)
              THEN f.phi[b] \cap {p \in Keep(f) : <<p, b>> \in MarkedEdges(f)} ELSE {}]
  BY DEF Reduced, Keep
<1>2. Keep(f) \subseteq Block /\ f.phi \in [Block -> SUBSET Block]
  BY KeptFacts DEF Function
<1>3. \A b \in Block : Reduced(f).flow[b] =
         IF b \in Keep(f) THEN Trimmed(Stmts(f)[b], Keep(f)) ELSE Unreachable
  BY <1>1 DEF Stmts
<1>4. \A b \in Keep(f) : /\ Stmts(f)[b] \in FlowStmt
                         /\ \E t \in Keep(f) \cup {Dummy} : t \in Targets(Stmts(f)[b])
  BY <1>2, KeptFacts, WayFacts
<1>5. \A b \in Keep(f) :
        /\ Reduced(f).flow[b] \in FlowStmt
        /\ Targets(Reduced(f).flow[b]) = Targets(Stmts(f)[b]) \cap (Keep(f) \cup {Dummy})
  BY <1>2, <1>3, <1>4, TrimmedFacts
<1>6. Reduced(f).flow \in [Block -> FlowStmt]
  <2>1. \A b \in Block : Reduced(f).flow[b] \in FlowStmt
    BY <1>3, <1>5 DEF FlowStmt
  <2> QED
    BY <1>1, <2>1, Zenon
<1>7. Reduced(f).phi \in [Block -> SUBSET Block]
  BY <1>1, <1>2
<1> QED
  BY <1>1, <1>3, <1>4, <1>5, <1>6, <1>7

\* The ways of a reduced function, from the blocks in it.
Alive(f) == {e \in ForwardEdges(Reduced(f).flow) : e[1] \in Reduced(f).data}

\* What is left is empty or connected, from the entry and to the returns.
LEMMA ReducedIsConnected ==
  ASSUME NEW f \in Function, Reduced(f).data # {}
  PROVE  /\ Entry \in Reduced(f).data
         /\ Reachable(Alive(f), Entry) = Reduced(f).data \cup {Dummy}
         /\ Reachable(Backwards(Alive(f)), Dummy) = Reduced(f).data \cup {Dummy}
<1> DEFINE W == MarkedEdges(f)
           A == Alive(f)
           K == Keep(f) \cup {Dummy}
<1>1. /\ Reduced(f).data = Keep(f) /\ Keep(f) \subseteq Block /\ Keep(f) \subseteq f.data
      /\ W \in SUBSET (Node \X Node) /\ Backwards(W) \in SUBSET (Node \X Node)
  BY ReducedFacts, KeptFacts, WayFacts
<1>2. /\ Entry \in Block /\ Entry \in Node /\ Dummy \in Node /\ Dummy \notin Block
      /\ K \in SUBSET Node
  BY <1>1, BlockAssumption DEF Node
<1>3. A \in SUBSET (Node \X Node)
  <2> DEFINE g == Reduced(f).flow
  <2>1. g \in [Block -> FlowStmt]
    BY ReducedFacts
  <2>2. ForwardEdges(g) \subseteq Node \X Node
    <3> HIDE DEF g
    <3>1. ForwardEdges(g) = Edges(g, FALSE)
      BY DEF Edges
    <3> QED
      BY <2>1, <3>1, EdgesArePairs
  <2> QED
    BY <2>2 DEF Alive
<1>4. \A m, n : <<m, n>> \in A <=> <<m, n>> \in W /\ m \in K /\ n \in K
  <2>1. \A m, n : <<m, n>> \in A <=> m \in Keep(f) /\ n \in Targets(Reduced(f).flow[m])
    BY <1>1 DEF Alive, ForwardEdges
  <2>2. \A m, n : <<m, n>> \in W <=> m \in f.data /\ n \in Targets(Stmts(f)[m])
    BY WayFacts
  <2>3. f.data \subseteq Block
    BY WayFacts
  <2>4. \A m \in Keep(f) : Targets(Reduced(f).flow[m]) = Targets(Stmts(f)[m]) \cap K
    BY ReducedFacts
  <2>5. \A m, n : <<m, n>> \in A <=> m \in Keep(f) /\ n \in Targets(Stmts(f)[m]) \cap K
    BY <2>1, <2>4
  <2>6. \A m, n : <<m, n>> \in W /\ m \in K <=> m \in Keep(f) /\ n \in Targets(Stmts(f)[m])
    BY <1>1, <1>2, <2>2, <2>3
  <2> HIDE DEF A, W, K
  <2> QED
    BY <2>5, <2>6
<1>5. \A m, n : <<m, n>> \in Backwards(A) <=> <<m, n>> \in Backwards(W) /\ m \in K /\ n \in K
  BY <1>1, <1>3, <1>4, BackwardsWays
<1> HIDE DEF A, W
<1>6. Entry \in Keep(f)
  <2> SUFFICES ASSUME Entry \notin Returning(f) PROVE FALSE
    BY <1>2, KeptFacts
  <2>1. Closed(W, Node \ Returning(f))
    BY <1>1, KeptFacts, ClosedByEnds DEF W
  <2>2. Reached(f) \subseteq Node \ Returning(f)
    BY <1>2, <2>1, ReachableIsLeast DEF Reached, W
  <2> QED
    BY <1>1, <2>2, KeptFacts
<1>7. Dummy \in Reached(f)
  <2> SUFFICES ASSUME Dummy \notin Reached(f) PROVE FALSE
    OBVIOUS
  <2>1. \A m, n : <<m, n>> \in W /\ m \in Reached(f) => n \in Reached(f)
    BY KeptFacts DEF W
  <2>2. Closed(Backwards(W), Node \ Reached(f))
    <3>1. ASSUME NEW m, NEW n, <<m, n>> \in Backwards(W), m \in Node \ Reached(f)
          PROVE  n \in Node \ Reached(f)
      <4>1. <<n, m>> \in W
        BY <1>1, <3>1, BackwardsWays
      <4> QED
        BY <1>1, <2>1, <3>1, <4>1
    <3> QED
      BY <1>1, <3>1, ClosedByEnds
  <2>3. Returning(f) \subseteq Node \ Reached(f)
    BY <1>2, <2>2, ReachableIsLeast DEF Returning, W
  <2> QED
    BY <1>1, <2>3, KeptFacts
<1>8. Reachable(A, Entry) = K
  <2>1. K \subseteq Reached(f) /\ Entry \in K
    BY <1>6, <1>7, KeptFacts
  <2>2. ASSUME NEW m, NEW n, <<m, n>> \in W, m \in Reached(f), n \in K PROVE m \in K
    <3>1. n \in Returning(f)
      BY <2>2, KeptFacts
    <3>2. m \in Returning(f) /\ m \in Block
      BY <2>2, <3>1, KeptFacts, WayFacts DEF W
    <3> QED
      BY <2>2, <3>2, KeptFacts
  <2>3. Reached(f) = Reachable(W, Entry)
    BY DEF Reached, W
  <2> HIDE DEF K
  <2> QED
    BY <1>1, <1>2, <1>3, <1>4, <2>1, <2>2, <2>3, WaysWithin
<1>9. Reachable(Backwards(A), Dummy) = K
  <2>1. K \subseteq Returning(f) /\ Dummy \in K
    BY KeptFacts
  <2>2. ASSUME NEW m, NEW n, <<m, n>> \in Backwards(W), m \in Returning(f), n \in K
        PROVE  m \in K
    <3>1. <<n, m>> \in W
      BY <1>1, <2>2, BackwardsWays
    <3>2. n \in Block /\ n \in Reached(f)
      BY <1>2, <2>2, <3>1, KeptFacts, WayFacts DEF W
    <3>3. m \in Reached(f) /\ m \in Node
      BY <1>1, <3>1, <3>2, KeptFacts DEF W
    <3> QED
      BY <2>2, <3>3, KeptFacts DEF Node
  <2>3. Returning(f) = Reachable(Backwards(W), Dummy)
    BY DEF Returning, W
  <2>4. Backwards(A) \in SUBSET (Node \X Node)
    BY <1>3, BackwardsWays
  <2> HIDE DEF K
  <2> QED
    BY <1>1, <1>2, <1>5, <2>1, <2>2, <2>3, <2>4, WaysWithin
<1> QED
  BY <1>1, <1>6, <1>8, <1>9 DEF A

(***************************************************************************)
(* The invariant: what each stage of the constructor has done so far.      *)
(***************************************************************************)

\* Before the first stage: the blocks are the input's, and a function without
\* blocks has no flow either.
Marking ==
  stage = "mark" =>
    /\ data = input.data /\ flow = input.flow /\ phi = input.phi /\ edges = {}
    /\ data = {} => \A b \in Block : flow[b] = Unreachable /\ phi[b] = {}

\* During the searches: the CFG is that of the marked blocks, and the first
\* search stays within what the entry reaches.
Searching ==
  stage \in {"dfs0", "dfs1"} =>
    /\ data = input.data /\ flow = Stmts(input) /\ cfg = Built(data, flow) /\ edges = {}
    /\ \A b \in Block : phi[b] = IF input.fate[b] = "ub" THEN {} ELSE input.phi[b]
    /\ Entry \in visit0 /\ visit0 \subseteq Reached(input)

\* During the second search the first one is complete.
Backing ==
  stage = "dfs1" =>
    /\ visit0 = Reached(input) \cap Block
    /\ visit1 \subseteq Returning(input)
    /\ \A b \in data : flow[b].op = "return" => b \in visit1

\* Then the function has just the blocks that Reduction keeps.
Removing ==
  stage \in {"record", "phi", "cfg"} =>
    /\ data = Keep(input) /\ visit0 = Keep(input)
    /\ cfg = Built(input.data, Stmts(input))
    /\ \A b \in Block : flow[b] = IF b \in Keep(input) THEN Stmts(input)[b] ELSE Unreachable
    /\ stage = "record" => edges = {}
    /\ stage # "record" => edges = {e \in cfg : e[1] \in Keep(input) /\ e[2] \in Keep(input)}
    /\ stage # "cfg" =>
         \A b \in Block : phi[b] = IF b \in Keep(input) THEN input.phi[b] ELSE {}
    /\ stage = "cfg" => phi = Reduced(input).phi

\* In the end it is what Reduction says.
Ending ==
  stage = "done" =>
    /\ output = [data |-> data, flow |-> flow, phi |-> phi]
    /\ output = Reduced(input)
    /\ data # {} => cfg = Built(data, flow)

Inv ==
  /\ TypeOK
  /\ Marking
  /\ Searching
  /\ Backing
  /\ Removing
  /\ Ending

\* A way of the function, in the terms of the searches.
LEMMA SearchedWays ==
  ASSUME Inv, stage \in {"dfs0", "dfs1"}
  PROVE  /\ \A m, n : <<m, n>> \in cfg <=> <<m, n>> \in MarkedEdges(input) /\ n # Dummy
         /\ \A m : <<m, Dummy>> \in MarkedEdges(input) <=> m \in data /\ flow[m].op = "return"
<1>1. /\ input \in Function /\ data = input.data /\ flow = Stmts(input)
      /\ cfg = Built(input.data, Stmts(input))
  BY DEF Inv, TypeOK, Searching
<1>2. \A m : <<m, Dummy>> \in MarkedEdges(input) <=> m \in data /\ Dummy \in Targets(flow[m])
  BY <1>1, WayFacts
<1>3. \A m \in data : flow[m] \in FlowStmt
  BY <1>1, WayFacts
<1>4. \A m \in data : Dummy \in Targets(flow[m]) <=> flow[m].op = "return"
  BY <1>3, DummyTarget
<1> QED
  BY <1>1, <1>2, <1>4, WayFacts

LEMMA InitInv == ASSUME Init PROVE Inv
<1>1. input \in Function /\ Entry \in input.data
  BY ProgramAssumption DEF Init
<1>2. TypeOK
  BY <1>1, ProgramAssumption DEF Init, TypeOK, Function
<1> QED
  BY <1>1, <1>2 DEF Init, Inv, Marking, Searching, Backing, Removing, Ending

LEMMA MarkUBInv == ASSUME Inv, MarkUB PROVE Inv'
<1>1. /\ input \in Function /\ input' = input /\ data = input.data /\ flow = input.flow
      /\ phi = input.phi /\ edges = {} /\ stage' = "dfs0" /\ data' = data /\ edges' = edges
      /\ flow' = Stmts(input) /\ cfg' = Built(data, flow') /\ visit0' = {Entry}
      /\ phi' = [b \in Block |-> IF input.fate[b] = "ub" THEN {} ELSE phi[b]]
  BY DEF Inv, TypeOK, Marking, MarkUB, MarkedCFG, frame, Stmts
<1>2. TypeOK'
  <2>1. flow' \in [Block -> FlowStmt] /\ cfg' \in SUBSET (Block \X Block)
    BY <1>1, WayFacts
  <2>2. phi' \in [Block -> SUBSET Block]
    BY <1>1 DEF Inv, TypeOK
  <2> QED
    BY <1>1, <2>1, <2>2, BlockAssumption DEF Inv, TypeOK, MarkUB, frame
<1>3. Searching'
  BY <1>1, KeptFacts DEF Searching
<1> QED
  BY <1>1, <1>2, <1>3 DEF Inv, Marking, Backing, Removing, Ending

\* A function without blocks is reduced to itself.
LEMMA NothingToDoReduces == ASSUME Inv, NothingToDo PROVE output' = Reduced(input)
<1>1. /\ input \in Function /\ data = {} /\ input.data = {}
      /\ flow \in [Block -> FlowStmt] /\ phi \in [Block -> SUBSET Block]
      /\ \A b \in Block : flow[b] = Unreachable /\ phi[b] = {}
      /\ output' = [data |-> data, flow |-> flow, phi |-> phi]
  BY DEF Inv, TypeOK, Marking, NothingToDo
<1>2. Keep(input) = {}
  BY <1>1, KeptFacts
<1>3. Reduced(input).data = {} /\ Reduced(input).flow = flow /\ Reduced(input).phi = phi
  <2> DEFINE after == Reduced(input)
  <2>1. /\ after.data = {}
        /\ after.flow \in [Block -> FlowStmt] /\ after.phi \in [Block -> SUBSET Block]
        /\ \A b \in Block : after.flow[b] = Unreachable /\ after.phi[b] = {}
    BY <1>1, <1>2, ReducedFacts
  <2> HIDE DEF after
  <2>2. \A b \in Block : after.flow[b] = flow[b] /\ after.phi[b] = phi[b]
    BY <1>1, <2>1
  <2>3. after.flow = flow
    BY <1>1, <2>1, <2>2
  <2>4. after.phi = phi
    BY <1>1, <2>1, <2>2
  <2>5. after.data = {} /\ after.flow = flow /\ after.phi = phi
    BY <2>1, <2>3, <2>4
  <2> QED
    BY <2>5 DEF after
<1>4. Reduced(input) = [data |-> Reduced(input).data, flow |-> Reduced(input).flow,
                        phi |-> Reduced(input).phi]
  BY DEF Reduced
<1> QED
  BY <1>1, <1>3, <1>4

LEMMA NothingToDoInv == ASSUME Inv, NothingToDo PROVE Inv'
<1>1. /\ stage' = "done" /\ input' = input /\ data' = {} /\ flow' = flow /\ phi' = phi
      /\ output' = [data |-> data', flow |-> flow', phi |-> phi']
  BY DEF NothingToDo, body
<1>2. TypeOK'
  BY <1>1 DEF Inv, TypeOK, NothingToDo, body
<1>3. Ending'
  BY <1>1, NothingToDoReduces DEF Ending
<1> QED
  BY <1>1, <1>2, <1>3 DEF Inv, Marking, Searching, Backing, Removing

LEMMA Dfs0Inv == ASSUME Inv, NEW e \in cfg, Dfs0(e) PROVE Inv'
<1>1. /\ stage = "dfs0" /\ stage' = "dfs0" /\ input \in Function /\ input' = input
      /\ data' = data /\ flow' = flow /\ phi' = phi /\ cfg' = cfg /\ edges' = edges
      /\ visit0' = visit0 \cup {e[2]} /\ e[1] \in visit0
      /\ cfg \in SUBSET (Block \X Block)
  BY DEF Inv, TypeOK, Dfs0, frame, body
<1>2. e = <<e[1], e[2]>> /\ e[2] \in Block
  BY <1>1
<1>3. TypeOK'
  BY <1>1, <1>2 DEF Inv, TypeOK, Dfs0, frame, body
<1>4. e[2] \in Reached(input)
  <2>1. <<e[1], e[2]>> \in MarkedEdges(input)
    BY <1>1, <1>2, SearchedWays
  <2> QED
    BY <1>1, <2>1, KeptFacts DEF Inv, Searching
<1>5. Searching'
  BY <1>1, <1>4 DEF Inv, Searching
<1> QED
  BY <1>1, <1>3, <1>5 DEF Inv, Marking, Backing, Removing, Ending

\* The first search ends on what the entry reaches.
LEMMA FirstSearchEnds ==
  ASSUME Inv, stage = "dfs0", \A e \in cfg : e[1] \in visit0 => e[2] \in visit0
  PROVE  visit0 = Reached(input) \cap Block
<1>1. /\ input \in Function /\ visit0 \subseteq Block /\ visit0 \subseteq Reached(input)
      /\ Entry \in visit0
  BY DEF Inv, TypeOK, Searching
<1>2. Closed(MarkedEdges(input), visit0 \cup {Dummy})
  <2>1. ASSUME NEW m, NEW n, <<m, n>> \in MarkedEdges(input), m \in visit0 \cup {Dummy}
        PROVE  n \in visit0 \cup {Dummy}
    <3>1. m \in visit0
      BY <1>1, <2>1, WayFacts, BlockAssumption
    <3>2. CASE n # Dummy
      <4>1. <<m, n>> \in cfg
        BY <2>1, <3>2, SearchedWays
      <4> QED
        BY <3>1, <4>1
    <3> QED
      BY <3>2
  <2> QED
    BY <1>1, <2>1, WayFacts, ClosedByEnds
<1>3. Reached(input) \subseteq visit0 \cup {Dummy}
  BY <1>1, <1>2, BlockAssumption, ReachableIsLeast DEF Reached, Node
<1> QED
  BY <1>1, <1>3, BlockAssumption

LEMMA StartDfs1Inv == ASSUME Inv, StartDfs1 PROVE Inv'
<1>1. /\ stage = "dfs0" /\ stage' = "dfs1" /\ input \in Function /\ input' = input
      /\ data' = data /\ flow' = flow /\ phi' = phi /\ cfg' = cfg /\ edges' = edges
      /\ visit0' = visit0 /\ visit1' = {b \in data : flow[b].op = "return"}
      /\ data \in SUBSET Block
  BY DEF Inv, TypeOK, StartDfs1, frame, body
<1>2. TypeOK'
  BY <1>1 DEF Inv, TypeOK, StartDfs1, frame, body
<1>3. Searching'
  BY <1>1 DEF Inv, Searching
<1>4. Backing'
  <2>1. visit0 = Reached(input) \cap Block
    BY <1>1, FirstSearchEnds DEF StartDfs1
  <2>2. visit1' \subseteq Returning(input)
    BY <1>1, SearchedWays, KeptFacts
  <2> QED
    BY <1>1, <2>1, <2>2 DEF Backing
<1> QED
  BY <1>1, <1>2, <1>3, <1>4 DEF Inv, Marking, Removing, Ending

LEMMA Dfs1Inv == ASSUME Inv, NEW e \in cfg, Dfs1(e) PROVE Inv'
<1>1. /\ stage = "dfs1" /\ stage' = "dfs1" /\ input \in Function /\ input' = input
      /\ data' = data /\ flow' = flow /\ phi' = phi /\ cfg' = cfg /\ edges' = edges
      /\ visit0' = visit0 /\ visit1' = visit1 \cup {e[1]} /\ e[2] \in visit1
      /\ cfg \in SUBSET (Block \X Block)
  BY DEF Inv, TypeOK, Dfs1, frame, body
<1>2. e = <<e[1], e[2]>> /\ e[1] \in Block
  BY <1>1
<1>3. TypeOK'
  BY <1>1, <1>2 DEF Inv, TypeOK, Dfs1, frame, body
<1>4. e[1] \in Returning(input)
  <2>1. <<e[1], e[2]>> \in MarkedEdges(input)
    BY <1>1, <1>2, SearchedWays
  <2> QED
    BY <1>1, <2>1, KeptFacts DEF Inv, Backing
<1>5. Searching' /\ Backing'
  BY <1>1, <1>4 DEF Inv, Searching, Backing
<1> QED
  BY <1>1, <1>3, <1>5 DEF Inv, Marking, Removing, Ending

\* The second search ends on what reaches a return.
LEMMA SecondSearchEnds ==
  ASSUME Inv, stage = "dfs1", \A e \in cfg : e[2] \in visit1 => e[1] \in visit1
  PROVE  visit1 = Returning(input) \cap Block
<1>1. /\ input \in Function /\ visit1 \subseteq Block /\ visit1 \subseteq Returning(input)
      /\ \A b \in data : flow[b].op = "return" => b \in visit1
  BY DEF Inv, TypeOK, Backing
<1>2. Closed(Backwards(MarkedEdges(input)), visit1 \cup {Dummy})
  <2>1. ASSUME NEW m, NEW n, <<m, n>> \in Backwards(MarkedEdges(input)),
               m \in visit1 \cup {Dummy}
        PROVE  n \in visit1 \cup {Dummy}
    <3>1. <<n, m>> \in MarkedEdges(input)
      BY <1>1, <2>1, WayFacts, BackwardsWays
    <3>2. CASE m = Dummy
      BY <1>1, <3>1, <3>2, SearchedWays
    <3>3. CASE m # Dummy
      <4>1. <<n, m>> \in cfg
        BY <3>1, <3>3, SearchedWays
      <4> QED
        BY <2>1, <3>3, <4>1
    <3> QED
      BY <3>2, <3>3
  <2> QED
    BY <1>1, <2>1, WayFacts, ClosedByEnds
<1>3. Returning(input) \subseteq visit1 \cup {Dummy}
  BY <1>1, <1>2, ReachableIsLeast DEF Returning, Node
<1> QED
  BY <1>1, <1>3, BlockAssumption

LEMMA RemoveBlockInv == ASSUME Inv, RemoveBlock PROVE Inv'
<1>1. /\ stage = "dfs1" /\ stage' = "record" /\ input \in Function /\ input' = input
      /\ cfg' = cfg /\ edges' = edges /\ edges = {} /\ visit0' = visit0 \cap visit1
      /\ data' = data \cap visit0'
      /\ flow' = [b \in Block |-> IF b \in data' THEN flow[b] ELSE Unreachable]
      /\ phi' = [b \in Block |-> IF b \in data' THEN phi[b] ELSE {}]
  BY DEF Inv, TypeOK, Searching, RemoveBlock, Kept, frame
<1>2. TypeOK'
  <2>1. flow' \in [Block -> FlowStmt] /\ phi' \in [Block -> SUBSET Block]
    BY <1>1 DEF Inv, TypeOK, FlowStmt
  <2> QED
    BY <1>1, <2>1 DEF Inv, TypeOK, RemoveBlock, frame
<1>3. visit0' = Keep(input) /\ data' = Keep(input)
  <2>1. visit0 = Reached(input) \cap Block /\ visit1 = Returning(input) \cap Block
    BY <1>1, SecondSearchEnds DEF Inv, Backing, RemoveBlock
  <2>2. Keep(input) = Reached(input) \cap Returning(input) \cap Block
        /\ Keep(input) \subseteq input.data
    BY <1>1, KeptFacts
  <2> QED
    BY <1>1, <2>1, <2>2 DEF Inv, Searching
<1>4. /\ flow = Stmts(input) /\ cfg = Built(input.data, Stmts(input))
      /\ \A b \in Keep(input) : phi[b] = input.phi[b]
  BY <1>1, KeptFacts DEF Inv, Searching
<1>5. Removing'
  BY <1>1, <1>3, <1>4 DEF Removing
<1> QED
  BY <1>1, <1>2, <1>5 DEF Inv, Marking, Searching, Backing, Ending

LEMMA RecordCFGInv == ASSUME Inv, RecordCFG PROVE Inv'
<1>1. /\ stage = "record" /\ stage' = "phi" /\ input' = input
      /\ data' = data /\ flow' = flow /\ phi' = phi /\ cfg' = cfg /\ visit0' = visit0
      /\ edges' = {e \in cfg : e[1] \in data /\ e[2] \in visit0}
  BY DEF RecordCFG, frame, body
<1>2. TypeOK'
  BY <1>1 DEF Inv, TypeOK, RecordCFG, frame, body
<1>3. Removing'
  BY <1>1 DEF Inv, Removing
<1> QED
  BY <1>1, <1>2, <1>3 DEF Inv, Marking, Searching, Backing, Ending

LEMMA UpdatePhiInv == ASSUME Inv, UpdatePhi PROVE Inv'
<1>1. /\ stage = "phi" /\ stage' = "cfg" /\ input \in Function /\ input' = input
      /\ data' = data /\ flow' = flow /\ cfg' = cfg /\ visit0' = visit0 /\ edges' = edges
      /\ phi' = [b \in Block |-> IF b \in data THEN KeptPhi(b) ELSE phi[b]]
  BY DEF Inv, TypeOK, UpdatePhi, frame
<1>2. phi' \in [Block -> SUBSET Block]
  BY <1>1 DEF Inv, TypeOK, KeptPhi
<1>3. TypeOK'
  BY <1>1, <1>2 DEF Inv, TypeOK, UpdatePhi, frame
<1>4. /\ data = Keep(input) /\ Keep(input) \subseteq Block
      /\ edges = {e \in cfg : e[1] \in Keep(input) /\ e[2] \in Keep(input)}
      /\ \A b \in Block : phi[b] = IF b \in Keep(input) THEN input.phi[b] ELSE {}
      /\ \A m, n : <<m, n>> \in cfg <=> <<m, n>> \in MarkedEdges(input) /\ n # Dummy
  BY <1>1, KeptFacts, WayFacts DEF Inv, Removing
<1>5. \A b \in Block : phi'[b] = Reduced(input).phi[b]
  <2> SUFFICES ASSUME NEW b \in Block PROVE phi'[b] = Reduced(input).phi[b]
    OBVIOUS
  <2>1. CASE b \in Keep(input)
    <3>1. \A p : <<p, b>> \in edges <=> p \in Keep(input) /\ <<p, b>> \in MarkedEdges(input)
      BY <1>4, <2>1, BlockAssumption
    <3>2. phi'[b] = input.phi[b] \cap {p \in Block : <<p, b>> \in edges}
      BY <1>1, <1>4, <2>1 DEF KeptPhi
    <3>3. phi'[b] = input.phi[b] \cap {p \in Keep(input) : <<p, b>> \in MarkedEdges(input)}
      BY <1>4, <3>1, <3>2
    <3> QED
      BY <1>1, <2>1, <3>3, ReducedFacts
  <2>2. CASE b \notin Keep(input)
    BY <1>1, <1>4, <2>2, ReducedFacts
  <2> QED
    BY <2>1, <2>2
<1>6. phi' = Reduced(input).phi
  <2> DEFINE after == Reduced(input).phi
  <2>1. after \in [Block -> SUBSET Block]
    BY <1>1, ReducedFacts
  <2>2. \A b \in Block : phi'[b] = after[b]
    BY <1>5
  <2> HIDE DEF after
  <2>3. phi' = after
    BY <1>2, <2>1, <2>2
  <2> QED
    BY <2>3 DEF after
<1>7. Removing'
  BY <1>1, <1>6 DEF Inv, Removing
<1> QED
  BY <1>1, <1>3, <1>7 DEF Inv, Marking, Searching, Backing, Ending

\* The last stage of a call completes what Reduction promises.
LEMMA UpdateCFGReduces == ASSUME Inv, UpdateCFG PROVE output' = Reduced(input)
<1>1. /\ input \in Function /\ data = Keep(input) /\ visit0 = Keep(input)
      /\ phi = Reduced(input).phi
      /\ \A b \in Block : flow[b] = IF b \in Keep(input) THEN Stmts(input)[b] ELSE Unreachable
      /\ flow' = [b \in Block |-> IF b \in data THEN UpdatedFlow(flow[b]) ELSE flow[b]]
      /\ output' = [data |-> data, flow |-> flow', phi |-> phi]
      /\ Keep(input) \subseteq Block
  BY KeptFacts DEF Inv, TypeOK, Removing, UpdateCFG
<1>2. \A b \in Block : flow'[b] = Reduced(input).flow[b]
  <2> SUFFICES ASSUME NEW b \in Block PROVE flow'[b] = Reduced(input).flow[b]
    OBVIOUS
  <2>1. CASE b \in Keep(input)
    <3>1. /\ Stmts(input)[b] \in FlowStmt
          /\ \E t \in Keep(input) \cup {Dummy} : t \in Targets(Stmts(input)[b])
      BY <1>1, <2>1, ReducedFacts
    <3>2. UpdatedFlow(Stmts(input)[b]) = Trimmed(Stmts(input)[b], Keep(input))
      BY <1>1, <3>1, TrimmedFacts
    <3> QED
      BY <1>1, <2>1, <3>2, ReducedFacts
  <2>2. CASE b \notin Keep(input)
    BY <1>1, <2>2, ReducedFacts
  <2> QED
    BY <2>1, <2>2
<1>3. flow' = Reduced(input).flow
  <2> DEFINE after == Reduced(input).flow
  <2>1. after \in [Block -> FlowStmt]
    BY <1>1, ReducedFacts
  <2>2. \A b \in Block : flow'[b] = after[b]
    BY <1>2
  <2> HIDE DEF after
  <2>3. flow' = after
    BY <1>1, <2>1, <2>2
  <2> QED
    BY <2>3 DEF after
<1>4. Reduced(input) = [data |-> Reduced(input).data, flow |-> Reduced(input).flow,
                        phi |-> Reduced(input).phi]
  BY DEF Reduced
<1> QED
  BY <1>1, <1>3, <1>4, ReducedFacts

LEMMA UpdateCFGInv == ASSUME Inv, UpdateCFG PROVE Inv'
<1>1. /\ stage = "cfg" /\ stage' = "done" /\ input \in Function /\ input' = input
      /\ data' = data /\ phi' = phi /\ edges' = edges /\ visit0' = visit0
      /\ output' = [data |-> data', flow |-> flow', phi |-> phi'] /\ cfg' = Built(data', flow')
      /\ data = Keep(input)
      /\ edges = {e \in cfg : e[1] \in Keep(input) /\ e[2] \in Keep(input)}
      /\ cfg \in SUBSET (Block \X Block) /\ cfg = Built(input.data, Stmts(input))
  BY DEF Inv, TypeOK, Removing, UpdateCFG
<1>2. output' = Reduced(input)
  BY UpdateCFGReduces
<1>3. flow' = Reduced(input).flow /\ flow' \in [Block -> FlowStmt]
  BY <1>1, <1>2, ReducedFacts
<1>4. \A m \in Keep(input) : /\ Range(flow'[m].to) \subseteq Block
                             /\ Targets(flow'[m]) \ {Dummy} = Range(flow'[m].to)
                             /\ Targets(flow'[m]) =
                                  Targets(Stmts(input)[m]) \cap (Keep(input) \cup {Dummy})
  BY <1>1, <1>3, KeptFacts, TargetFacts, ReducedFacts
<1>5. \A m, n : <<m, n>> \in cfg' <=> m \in Keep(input) /\ n \in Range(flow'[m].to)
  BY <1>1 DEF Built
<1>6. cfg' \in SUBSET (Block \X Block)
  BY <1>1, <1>4, KeptFacts DEF Built
<1>7. edges \subseteq cfg'
  <2>1. ASSUME NEW m, NEW n, <<m, n>> \in edges PROVE <<m, n>> \in cfg'
    <3>1. m \in Keep(input) /\ n \in Keep(input) /\ <<m, n>> \in MarkedEdges(input) /\ n # Dummy
      BY <1>1, <2>1, WayFacts
    <3>2. n \in Targets(Stmts(input)[m])
      BY <1>1, <3>1, WayFacts
    <3> QED
      BY <1>4, <1>5, <3>1, <3>2
  <2>2. \A e \in edges : e = <<e[1], e[2]>>
    BY <1>1
  <2> QED
    BY <2>1, <2>2
<1>8. TypeOK'
  BY <1>1, <1>3, <1>6, <1>7 DEF Inv, TypeOK, UpdateCFG
<1>9. Ending'
  BY <1>1, <1>2 DEF Ending
<1> QED
  BY <1>1, <1>8, <1>9 DEF Inv, Marking, Searching, Backing, Removing

LEMMA CallAgainInv == ASSUME Inv, CallAgain PROVE Inv'
<1>1. /\ stage = "done" /\ stage' = "mark" /\ call < Calls /\ call' = call + 1
      /\ output' = output /\ data' = data /\ flow' = flow /\ phi' = phi /\ cfg' = cfg
      /\ visit0' = {} /\ visit1' = {} /\ edges' = {} /\ input \in Function
      /\ output = [data |-> data, flow |-> flow, phi |-> phi]
      /\ output = Reduced(input)
  BY DEF Inv, TypeOK, Ending, CallAgain, body
<1>2. PICK c \in Block, fate \in Fate : input' = Learned(output, c, fate)
  BY DEF CallAgain
<1>3. /\ input'.data = data /\ input'.flow = flow /\ input'.phi = phi
      /\ input' \in Function
  BY <1>1, <1>2 DEF Inv, TypeOK, Learned, Function, Fate
<1>4. TypeOK'
  BY <1>1, <1>3, ProgramAssumption DEF Inv, TypeOK
<1>5. data = {} => \A b \in Block : flow[b] = Unreachable /\ phi[b] = {}
  <2> SUFFICES ASSUME data = {}, NEW b \in Block PROVE flow[b] = Unreachable /\ phi[b] = {}
    OBVIOUS
  <2>1. /\ output.data = data /\ output.flow = flow /\ output.phi = phi
        /\ Reduced(input).data = Keep(input)
    BY <1>1, ReducedFacts
  <2>2. b \notin Keep(input)
    BY <1>1, <2>1
  <2>3. Reduced(input).flow[b] = Unreachable /\ Reduced(input).phi[b] = {}
    BY <1>1, <2>2, ReducedFacts
  <2> QED
    BY <1>1, <2>1, <2>3
<1>6. Marking'
  BY <1>1, <1>3, <1>5 DEF Marking
<1> QED
  BY <1>1, <1>4, <1>6 DEF Inv, Searching, Backing, Removing, Ending

THEOREM Invariance == Spec => []Inv
<1>1. Init => Inv
  BY InitInv
<1>2. Inv /\ [Next]_vars => Inv'
  <2> SUFFICES ASSUME Inv, [Next]_vars PROVE Inv'
    OBVIOUS
  <2>1. CASE UNCHANGED vars
    BY <2>1 DEF vars, frame, body, Inv, TypeOK, Marking, Searching, Backing, Removing, Ending
  <2>2. CASE \E e \in cfg : Dfs0(e)
    BY <2>2, Dfs0Inv
  <2>3. CASE \E e \in cfg : Dfs1(e)
    BY <2>3, Dfs1Inv
  <2> QED
    BY <2>1, <2>2, <2>3, MarkUBInv, NothingToDoInv, StartDfs1Inv, RemoveBlockInv, RecordCFGInv,
       UpdatePhiInv, UpdateCFGInv, CallAgainInv DEF Next
<1> QED
  BY <1>1, <1>2, PTL DEF Spec

-----------------------------------------------------------------------------

\* Types: no stage leaves a block outside the function in the lists it searched,
\* and no recorded edge is one the last CFG does not have.
THEOREM TypeCorrect == Spec => []TypeOK
BY Invariance, PTL DEF Inv

LEMMA LeftReady == ASSUME Inv PROVE ReadyForDominators
<1> SUFFICES ASSUME stage = "done", data # {}
             PROVE  LET alive == {e \in ForwardEdges(flow) : e[1] \in data}
                    IN  /\ Entry \in data
                        /\ cfg \subseteq data \X data
                        /\ Reachable(alive, Entry) = data \cup {Dummy}
                        /\ Reachable(Backwards(alive), Dummy) = data \cup {Dummy}
  BY DEF ReadyForDominators
<1>1. /\ input \in Function /\ data = Reduced(input).data /\ flow = Reduced(input).flow
      /\ data = Keep(input) /\ data \subseteq Block
      /\ cfg = Built(data, flow)
  <2>1. /\ output.data = data /\ output.flow = flow /\ output = Reduced(input)
        /\ input \in Function /\ cfg = Built(data, flow)
    BY DEF Inv, TypeOK, Ending
  <2> QED
    BY <2>1, ReducedFacts, KeptFacts
<1>2. {e \in ForwardEdges(flow) : e[1] \in data} = Alive(input)
  BY <1>1 DEF Alive
<1>3. \A m \in data : Range(flow[m].to) \subseteq data
  <2> SUFFICES ASSUME NEW m \in data PROVE Range(flow[m].to) \subseteq data
    OBVIOUS
  <2>1. flow \in [Block -> FlowStmt] /\ m \in Block
    BY <1>1 DEF Inv, TypeOK
  <2>2. Targets(flow[m]) \subseteq data \cup {Dummy}
    BY <1>1, ReducedFacts
  <2> QED
    BY <2>1, <2>2, TargetFacts
<1>4. cfg \subseteq data \X data
  BY <1>1, <1>3 DEF Built
<1> QED
  BY <1>1, <1>2, <1>4, ReducedIsConnected

\* What a call leaves is ready for dominantMaker: its assertion that every block
\* has a predecessor in the numbering cannot fail on it.
THEOREM AlwaysReady == Spec => []ReadyForDominators
<1>1. Inv => ReadyForDominators
  BY LeftReady
<1> QED
  BY <1>1, Invariance, PTL

(***************************************************************************)
(* What the calls hand to each other.                                      *)
(***************************************************************************)

\* A function whose phi statements have an entry for each predecessor.
Matched(f) == \A b, p \in f.data : b \in Range(f.flow[p].to) => p \in f.phi[b]

\* The function is the first one or what a call has left.
Handed ==
  /\ Matched(input)
  /\ call > 1 => \E g \in Function : /\ input.data = Reduced(g).data
                                     /\ input.flow = Reduced(g).flow
                                     /\ input.phi = Reduced(g).phi

\* What Marked leaves of a statement are targets it had.
LEMMA MarkedTargets ==
  ASSUME NEW stmt \in FlowStmt, NEW fate \in Fate
  PROVE  Range(Marked(stmt, fate).to) \subseteq Range(stmt.to)
<1>1. CASE Marked(stmt, fate) = stmt
  BY <1>1
<1>2. CASE Marked(stmt, fate) = Unreachable
  BY <1>2 DEF Unreachable, Range
<1>3. CASE stmt.op = "branch"
  <2>1. PICK b \in Block, c \in Block : stmt = Branch(b, c)
    BY <1>3 DEF FlowStmt, Return, Unreachable, Jump
  <2>2. stmt.to = <<b, c>> /\ DOMAIN stmt.to = {1, 2} /\ stmt.to[1] = b /\ stmt.to[2] = c
    BY <2>1 DEF Branch
  <2>3. Range(stmt.to) = {b, c}
    BY <2>2 DEF Range
  <2>4. CASE Marked(stmt, fate) = Jump(b) \/ Marked(stmt, fate) = Jump(c)
    BY <2>3, <2>4, OneTarget
  <2> QED
    BY <1>1, <1>2, <2>2, <2>4 DEF Marked
<1> QED
  BY <1>1, <1>2, <1>3 DEF Marked

\* The predecessors that are left are the entries that are left.
LEMMA ReducedMatches ==
  ASSUME NEW f \in Function, Matched(f), NEW b \in Keep(f)
  PROVE  Reduced(f).phi[b] = {p \in Keep(f) : b \in Range(Reduced(f).flow[p].to)}
<1>1. /\ Keep(f) \subseteq Block /\ Keep(f) \subseteq f.data /\ b # Dummy
  BY KeptFacts, BlockAssumption
<1>2. Reduced(f).phi[b] = f.phi[b] \cap {p \in Keep(f) : <<p, b>> \in MarkedEdges(f)}
  BY <1>1, ReducedFacts
<1>3. ASSUME NEW p \in Keep(f)
      PROVE  /\ <<p, b>> \in MarkedEdges(f) <=> b \in Targets(Stmts(f)[p])
             /\ b \in Targets(Stmts(f)[p]) <=> b \in Targets(Reduced(f).flow[p])
             /\ b \in Targets(Reduced(f).flow[p]) <=> b \in Range(Reduced(f).flow[p].to)
             /\ b \in Targets(Stmts(f)[p]) => p \in f.phi[b]
  <2>1. <<p, b>> \in MarkedEdges(f) <=> b \in Targets(Stmts(f)[p])
    BY <1>1, WayFacts
  <2>2. b \in Targets(Stmts(f)[p]) <=> b \in Targets(Reduced(f).flow[p])
    BY ReducedFacts
  <2>3. b \in Targets(Reduced(f).flow[p]) <=> b \in Range(Reduced(f).flow[p].to)
    <3> DEFINE after == Reduced(f).flow
    <3>1. after \in [Block -> FlowStmt] /\ p \in Block
      BY <1>1, ReducedFacts
    <3> HIDE DEF after
    <3>2. b \in Targets(after[p]) <=> b \in Range(after[p].to)
      BY <1>1, <3>1, TargetFacts
    <3> QED
      BY <3>2 DEF after
  <2>4. ASSUME b \in Targets(Stmts(f)[p]) PROVE p \in f.phi[b]
    <3>1. p \in Block /\ f.flow[p] \in FlowStmt /\ f.fate[p] \in Fate
      BY <1>1 DEF Function
    <3>2. b \in Range(Stmts(f)[p].to)
      BY <1>1, <2>4, <3>1, WayFacts, TargetFacts
    <3>3. b \in Range(f.flow[p].to)
      BY <3>1, <3>2, MarkedTargets DEF Stmts
    <3> QED
      BY <1>1, <3>3 DEF Matched
  <2> QED
    BY <2>1, <2>2, <2>3, <2>4
<1> QED
  BY <1>2, <1>3

LEMMA HandedInvariance == Spec => []Handed
<1>1. Init => Handed
  BY ProgramAssumption DEF Init, Handed, Matched
<1>2. Inv /\ Handed /\ [Next]_vars => Handed'
  <2> SUFFICES ASSUME Inv, Handed, [Next]_vars PROVE Handed'
    OBVIOUS
  <2>1. CASE input' = input /\ call' = call
    BY <2>1 DEF Handed
  <2>2. CASE CallAgain
    <3>1. /\ input \in Function /\ output = Reduced(input)
      BY <2>2 DEF CallAgain, Inv, TypeOK, Ending
    <3>2. /\ input'.data = Reduced(input).data /\ input'.flow = Reduced(input).flow
          /\ input'.phi = Reduced(input).phi
      BY <2>2, <3>1 DEF CallAgain, Learned
    <3>3. Matched(input')
      <4>1. Reduced(input).data = Keep(input)
        BY <3>1, ReducedFacts
      <4> SUFFICES ASSUME NEW b \in Keep(input), NEW p \in Keep(input),
                          b \in Range(Reduced(input).flow[p].to)
                   PROVE  p \in Reduced(input).phi[b]
        BY <3>2, <4>1 DEF Matched
      <4> QED
        BY <3>1, ReducedMatches DEF Handed
    <3> QED
      BY <3>1, <3>2, <3>3 DEF Handed
  <2> QED
    BY <2>1, <2>2 DEF Next, vars, frame, MarkUB, NothingToDo, Dfs0, StartDfs1, Dfs1, RemoveBlock,
       RecordCFG, UpdatePhi, UpdateCFG
<1> QED
  BY <1>1, <1>2, Invariance, PTL DEF Spec

\* After each call the phi statements fit the predecessors, as long as they did
\* when the pass was first called.
THEOREM PhisFit == Spec => []PhiMatchesPreds
<1>1. Inv /\ Handed => PhiMatchesPreds
  <2> SUFFICES ASSUME Inv, Handed, stage = "done", NEW b \in data
               PROVE  phi[b] = {p \in Block : <<p, b>> \in cfg}
    BY DEF PhiMatchesPreds
  <2>1. /\ output.data = data /\ output.flow = flow /\ output.phi = phi
        /\ output = Reduced(input) /\ input \in Function /\ cfg = Built(data, flow)
    BY DEF Inv, TypeOK, Ending
  <2>2. data = Keep(input) /\ data \subseteq Block
    BY <2>1, ReducedFacts, KeptFacts
  <2>3. phi[b] = {p \in Keep(input) : b \in Range(flow[p].to)}
    BY <2>1, <2>2, ReducedMatches DEF Handed
  <2>4. \A p : <<p, b>> \in cfg <=> p \in data /\ b \in Range(flow[p].to)
    BY <2>1 DEF Built
  <2> QED
    BY <2>2, <2>3, <2>4
<1> QED
  BY <1>1, Invariance, HandedInvariance, PTL

\* A reduced function of which nothing more is known is reduced to itself.
LEMMA ReducedTwice ==
  ASSUME NEW f \in Function, NEW g \in Function,
         f.data = Reduced(g).data, f.flow = Reduced(g).flow, f.phi = Reduced(g).phi,
         \A b \in f.data : Marked(f.flow[b], f.fate[b]) = f.flow[b]
  PROVE  Reduced(f) = [data |-> f.data, flow |-> f.flow, phi |-> f.phi]
<1>1. /\ f.data = Keep(g) /\ Keep(g) \subseteq Block /\ Keep(f) \subseteq f.data
      /\ \A b \in f.data : Stmts(f)[b] = f.flow[b]
  BY ReducedFacts, KeptFacts DEF Stmts
<1>2. MarkedEdges(f) = Alive(g)
  <2>1. \A m, n : <<m, n>> \in MarkedEdges(f) <=> m \in f.data /\ n \in Targets(f.flow[m])
    BY <1>1, WayFacts
  <2>2. \A m, n : <<m, n>> \in Alive(g) <=> m \in f.data /\ n \in Targets(f.flow[m])
    BY <1>1 DEF Alive, ForwardEdges
  <2>3. \A e \in MarkedEdges(f) : e = <<e[1], e[2]>>
    BY WayFacts
  <2>4. \A e \in Alive(g) : e = <<e[1], e[2]>>
    BY DEF Alive, ForwardEdges
  <2> QED
    BY <2>1, <2>2, <2>3, <2>4
<1>3. Keep(f) = f.data
  <2>1. CASE f.data = {}
    BY <1>1, <2>1
  <2>2. CASE f.data # {}
    <3>1. /\ Reachable(MarkedEdges(f), Entry) = f.data \cup {Dummy}
          /\ Reachable(Backwards(MarkedEdges(f)), Dummy) = f.data \cup {Dummy}
      BY <1>2, <2>2, ReducedIsConnected
    <3> QED
      BY <1>1, <3>1, BlockAssumption DEF Keep, Useful
  <2> QED
    BY <2>1, <2>2
<1>4. ASSUME NEW b \in Block PROVE Reduced(f).flow[b] = f.flow[b]
  <2>1. CASE b \in f.data
    <3>1. f.flow[b] = Trimmed(Stmts(g)[b], Keep(g))
      BY <1>1, <2>1, ReducedFacts
    <3>2. Trimmed(f.flow[b], Keep(g)) = f.flow[b]
      BY <1>1, <2>1, <3>1, ReducedFacts, TrimmedFacts
    <3> QED
      BY <1>1, <1>3, <2>1, <3>2, ReducedFacts
  <2>2. CASE b \notin f.data
    BY <1>1, <1>3, <2>2, ReducedFacts
  <2> QED
    BY <2>1, <2>2
<1>5. ASSUME NEW b \in Block PROVE Reduced(f).phi[b] = f.phi[b]
  <2> DEFINE entries(h) == h.phi[b] \cap {p \in Keep(h) : <<p, b>> \in MarkedEdges(h)}
  <2>1. /\ b \in Keep(f) => Reduced(f).phi[b] = entries(f)
        /\ b \notin Keep(f) => Reduced(f).phi[b] = {}
    BY ReducedFacts
  <2>2. /\ b \in Keep(g) => f.phi[b] = entries(g)
        /\ b \notin Keep(g) => f.phi[b] = {}
    BY ReducedFacts
  <2>3. CASE b \in f.data
    <3>1. Reduced(f).phi[b] = f.phi[b] \cap {p \in f.data : <<p, b>> \in MarkedEdges(f)}
      BY <1>3, <2>3, <2>1
    <3>2. f.phi[b] = g.phi[b] \cap {p \in Keep(g) : <<p, b>> \in MarkedEdges(g)}
      BY <1>1, <2>3, <2>2
    <3>3. ASSUME NEW p \in f.phi[b] PROVE p \in f.data /\ <<p, b>> \in MarkedEdges(f)
      <4>1. p \in Keep(g) /\ b \in Targets(Stmts(g)[p])
        BY <3>2, <3>3, WayFacts
      <4>2. b \in Targets(f.flow[p])
        BY <1>1, <2>3, <4>1, ReducedFacts
      <4> QED
        BY <1>1, <4>1, <4>2, WayFacts
    <3> QED
      BY <3>1, <3>3
  <2>4. CASE b \notin f.data
    BY <1>1, <1>3, <2>4, <2>1, <2>2
  <2> QED
    BY <2>3, <2>4
<1>6. Reduced(f).data = f.data /\ Reduced(f).flow = f.flow /\ Reduced(f).phi = f.phi
  <2> DEFINE after == Reduced(f)
  <2>1. /\ after.data = f.data
        /\ after.flow \in [Block -> FlowStmt] /\ after.phi \in [Block -> SUBSET Block]
        /\ \A b \in Block : after.flow[b] = f.flow[b] /\ after.phi[b] = f.phi[b]
    BY <1>3, <1>4, <1>5, ReducedFacts
  <2>2. f.flow \in [Block -> FlowStmt] /\ f.phi \in [Block -> SUBSET Block]
    BY DEF Function
  <2> HIDE DEF after
  <2>3. after.flow = f.flow
    BY <2>1, <2>2
  <2>4. after.phi = f.phi
    BY <2>1, <2>2
  <2>5. after.data = f.data /\ after.flow = f.flow /\ after.phi = f.phi
    BY <2>1, <2>3, <2>4
  <2> QED
    BY <2>5 DEF after
<1>7. Reduced(f) = [data |-> Reduced(f).data, flow |-> Reduced(f).flow, phi |-> Reduced(f).phi]
  BY DEF Reduced
<1> QED
  BY <1>6, <1>7

\* The optimizer calls the pass twice in a row: the second call finds nothing to
\* do, for every function and whatever the first call had to remove.
THEOREM SecondCallIsQuiet == Spec => []QuietCallChangesNothing
<1>1. Inv /\ Handed => QuietCallChangesNothing
  <2> SUFFICES ASSUME Inv, Handed, stage = "done", call > 1,
                      \A b \in input.data : Marked(input.flow[b], input.fate[b]) = input.flow[b]
               PROVE  output = [data |-> input.data, flow |-> input.flow, phi |-> input.phi]
    BY DEF QuietCallChangesNothing
  <2>1. input \in Function /\ output = Reduced(input)
    BY DEF Inv, TypeOK, Ending
  <2> QED
    BY <2>1, ReducedTwice DEF Handed
<1> QED
  BY <1>1, Invariance, HandedInvariance, PTL

(***************************************************************************)
(* Refinement.                                                             *)
(***************************************************************************)

\* The notions of Reduction are those of this module.
LEMMA SameNotions ==
  /\ Promise!Function = Function
  /\ \A f : Promise!Reduced(f) = Reduced(f)
  /\ \A f, b, fate : Promise!Learned(f, b, fate) = Learned(f, b, fate)
  /\ Promise!Fate = Fate
<1>1. Promise!Fate = Fate
  BY DEF Promise!Fate, Fate
<1>2. Promise!FlowStmt = FlowStmt
  BY DEF Promise!FlowStmt, FlowStmt, Promise!Return, Return, Promise!Unreachable, Unreachable,
         Promise!Jump, Jump, Promise!Branch, Branch
<1>3. Promise!Function = Function
  BY <1>1, <1>2 DEF Promise!Function, Function
<1>4. \A stmt, fate : Promise!Marked(stmt, fate) = Marked(stmt, fate)
  BY DEF Promise!Marked, Marked, Promise!Unreachable, Unreachable, Promise!Jump, Jump
<1>5. \A f : Promise!ForwardEdges(f) = ForwardEdges(f)
  <2>1. \A stmt : Promise!Targets(stmt) = Targets(stmt)
    BY DEF Promise!Targets, Targets, Promise!Range, Range
  <2> QED
    BY <2>1 DEF Promise!ForwardEdges, ForwardEdges
<1>6. \A f : Promise!MarkedEdges(f) = MarkedEdges(f)
  BY <1>4, <1>5 DEF Promise!MarkedEdges, MarkedEdges
<1>7. \A W : Promise!Backwards(W) = Backwards(W)
  BY DEF Promise!Backwards, Backwards
<1>8. \A W, r : Promise!Reachable(W, r) = Reachable(W, r)
  BY DEF Promise!Reachable, Reachable, Promise!Closed, Closed, Promise!Node, Node
<1>9. \A W : Promise!Useful(W) = Useful(W)
  BY <1>7, <1>8 DEF Promise!Useful, Useful
<1>10. \A stmt, K : Promise!Trimmed(stmt, K) = Trimmed(stmt, K)
  BY DEF Promise!Trimmed, Trimmed, Promise!Range, Range, Promise!Jump, Jump
<1>11. \A f : Promise!Reduced(f) = Reduced(f)
  BY <1>4, <1>6, <1>9, <1>10 DEF Promise!Reduced, Reduced, Promise!Unreachable, Unreachable
<1>12. \A f, b, fate : Promise!Learned(f, b, fate) = Learned(f, b, fate)
  BY DEF Promise!Learned, Learned
<1> QED
  BY <1>1, <1>3, <1>11, <1>12

\* unreachableRemover implements Reduction, for any number of calls: the step
\* that ends a call yields what Reduction says, no other step is to be seen.
THEOREM Refinement == Spec => RefinesReduction
<1>1. Init => Promise!Init
  BY ProgramAssumption, SameNotions DEF Init, Promise!Init, returned
<1>2. Inv /\ [Next]_vars => [Promise!Reduce \/ Promise!CallAgain]_<<input, output, call, returned>>
  <2> SUFFICES ASSUME Inv, [Next]_vars
               PROVE  Promise!Reduce \/ Promise!CallAgain
                        \/ UNCHANGED <<input, output, call, returned>>
    OBVIOUS
  <2>1. CASE UpdateCFG \/ NothingToDo
    <3>1. ~returned /\ returned' /\ UNCHANGED <<input, call>>
      BY <2>1 DEF UpdateCFG, NothingToDo, returned
    <3>2. output' = Reduced(input)
      BY <2>1, UpdateCFGReduces, NothingToDoReduces
    <3> QED
      BY <3>1, <3>2, SameNotions DEF Promise!Reduce
  <2>2. CASE CallAgain
    <3>1. returned /\ ~returned' /\ call < Calls /\ call' = call + 1 /\ UNCHANGED output
      BY <2>2 DEF CallAgain, returned
    <3>2. \E b \in Block, fate \in Fate : input' = Learned(output, b, fate)
      BY <2>2 DEF CallAgain
    <3> QED
      BY <3>1, <3>2, SameNotions DEF Promise!CallAgain
  <2>3. CASE MarkUB \/ (\E e \in cfg : Dfs0(e)) \/ StartDfs1 \/ (\E e \in cfg : Dfs1(e))
               \/ RemoveBlock \/ RecordCFG \/ UpdatePhi
    <3>1. stage # "done" /\ stage' # "done" /\ UNCHANGED <<input, output, call>>
      BY <2>3 DEF MarkUB, Dfs0, StartDfs1, Dfs1, RemoveBlock, RecordCFG, UpdatePhi, frame
    <3> QED
      BY <3>1 DEF returned
  <2>4. CASE UNCHANGED vars
    BY <2>4 DEF vars, frame, returned
  <2> QED
    BY <2>1, <2>2, <2>3, <2>4 DEF Next
<1> QED
  BY Invariance, <1>1, <1>2, PTL DEF Spec, RefinesReduction, Promise!Spec

=============================================================================

--------------------------- MODULE AggressiveProofs ---------------------------
(***************************************************************************)
(* Theorems about AggressiveElimination, for every function: that its      *)
(* assertion never fails, that what it finds live is the least set of      *)
(* statements and blocks a function can do with, and that what it leaves   *)
(* is whole and goes from live block to live block as before.              *)
(*                                                                         *)
(* The first rests on a fact of graphs alone.  If b post-dominates the one *)
(* target of a jump, it post-dominates the jump's block; and the jump's    *)
(* block itself cannot, or no way would lead from there to a return.       *)
(*                                                                         *)
(* The second is an invariant of the two queues: a statement or block that *)
(* is live and no longer queued has made live what it needs.               *)
(*                                                                         *)
(* For the last, a block fails to its nearest post-dominator that is live  *)
(* (or the dummy, behind the returns).  A dead flow statement decides      *)
(* nothing: its block is in no live block's frontier, so the stops ahead   *)
(* of its targets are its own, and all its targets fail to one block.      *)
(* What is reachable, before or after, is followed through closed sets.    *)
(***************************************************************************)
EXTENDS AggressiveElimination, FlowGraphProofs, TLAPS

TypeInv ==
  /\ code \in Code
  /\ WellFormed(code.flow)
  /\ stage \in {"mark", "stmts", "blocks", "error", "redirect", "remove", "done"}
  /\ liveStmt \in SUBSET Statement /\ stmtList \in SUBSET liveStmt
  /\ liveBlock \in SUBSET Block /\ blockList \in SUBSET liveBlock

\* The frontiers and parents are those of the analysis once it has run.
Analysed ==
  IF stage = "mark"
  THEN fro = [b \in Block |-> {}] /\ idom = [n \in Node |-> Null]
  ELSE /\ fro = [b \in Block |-> Analysis[b].fro]
       /\ idom = [n \in Node |-> IF n = Dummy THEN Null ELSE Analysis[n].idom]

Progress ==
  /\ stage = "mark" => liveStmt = {} /\ liveBlock = {}
  /\ stage # "mark" => Effective \subseteq liveStmt
  /\ \A s \in liveStmt \ stmtList : code.uses[s] \subseteq liveStmt /\ BlocksOf(s) \subseteq liveBlock
  /\ \A b \in liveBlock \ blockList : fro[b] \subseteq liveStmt
  /\ stage \in {"redirect", "remove", "done"} => stmtList = {} /\ blockList = {}

\* What becomes of the flow statements, and of the function.
Carried ==
  /\ IF stage \in {"remove", "done"}
     THEN flow = [b \in Block |-> Redirected(code.flow[b])]
     ELSE flow = code.flow
  /\ output = IF stage = "done" THEN Reduced(Remainder) ELSE Null

LeastSoFar ==
  stage # "mark" =>
    \A L \in SUBSET Statement, B \in SUBSET Block :
      Sufficient(L, B) => liveStmt \subseteq L /\ liveBlock \subseteq B

Inv == TypeInv /\ Analysed /\ Progress /\ Carried /\ LeastSoFar /\ FlowIsValid

LEMMA ProgramFacts == \A c \in Programs : c \in Code /\ WellFormed(c.flow)
BY ProgramAssumption

LEMMA StatementFacts ==
  ASSUME TypeInv, NEW s \in Statement
  PROVE  /\ code.uses[s] \in SUBSET Statement
         /\ BlocksOf(s) \in SUBSET Block
         /\ Effective \in SUBSET Statement
<1>1. code.uses[s] \in SUBSET Statement /\ Effective \in SUBSET Statement
  BY DEF TypeInv, Code, Statement, Effective, Effects, Returns
<1>2. PlaceOf(code, s) \in Block
  BY DEF TypeInv, Code, Statement, PlaceOf
<1> QED
  BY <1>1, <1>2 DEF BlocksOf, Predecessors

LEMMA FroFacts ==
  ASSUME TypeInv, Analysed, stage # "mark", NEW b \in Block
  PROVE  /\ fro[b] \in SUBSET Block
         /\ \A p \in fro[b] : code.flow[p].op = "branch"
<1> DEFINE edges == Edges(code.flow, TRUE)
<1>1. fro[b] = Frontier(edges, Dominance(edges, Dummy), b) \cap Block
  BY DEF Analysed, Analysis, Answer, Root
<1>2. code.flow \in [Block -> FlowStmt] /\ Connected(edges, Dummy)
  BY DEF TypeInv, Code, WellFormed, Root
<1> QED
  BY <1>1, <1>2, FrontiersBranch

LEMMA InitInv == Init => Inv
<1> SUFFICES ASSUME Init PROVE Inv
  OBVIOUS
<1>1. TypeInv
  BY ProgramFacts DEF Init, TypeInv
<1> QED
  BY <1>1 DEF Init, Inv, Analysed, Progress, Carried, LeastSoFar, FlowIsValid

LEMMA MarkEffectStep == ASSUME Inv, MarkEffect PROVE Inv'
<1> USE DEF Inv
<1>1. /\ code' = code /\ stage = "mark" /\ stage' = "stmts"
      /\ liveStmt' = Effective /\ stmtList' = Effective
      /\ liveBlock' = liveBlock /\ blockList' = blockList /\ liveBlock = {}
      /\ fro' = [b \in Block |-> Analysis[b].fro]
      /\ idom' = [n \in Node |-> IF n = Dummy THEN Null ELSE Analysis[n].idom]
      /\ flow' = flow /\ output' = output
  BY DEF MarkEffect, blocks, Progress
<1>2. Effective \in SUBSET Statement /\ Effective' = Effective /\ Analysis' = Analysis
  BY <1>1 DEF TypeInv, Code, Statement, Effective, Effects, Returns, Analysis
<1>3. TypeInv'
  BY <1>1, <1>2 DEF TypeInv
<1>4. Analysed' /\ FlowIsValid' /\ Carried'
  BY <1>1, <1>2 DEF Analysed, FlowIsValid, Carried
<1>5. Progress'
  BY <1>1, <1>2 DEF Progress
<1>6. LeastSoFar'
  BY <1>1, <1>2 DEF LeastSoFar, Sufficient, Effective, Effects, Returns
<1> QED
  BY <1>3, <1>4, <1>5, <1>6

\* While the code and the frontiers stay, what is sufficient stays.
LEMMA SameNeeds ==
  ASSUME code' = code, fro' = fro
  PROVE  /\ Analysis' = Analysis /\ Effective' = Effective
         /\ \A s : BlocksOf(s)' = BlocksOf(s)
         /\ \A L, B : Sufficient(L, B)' <=> Sufficient(L, B)
<1>1. Analysis' = Analysis /\ Effective' = Effective
  BY DEF Analysis, Effective, Effects, Returns
<1>2. \A s : BlocksOf(s)' = BlocksOf(s)
  BY DEF BlocksOf, PlaceOf, Predecessors
<1>3. \A L, B : Sufficient(L, B)' <=> Sufficient(L, B)
  BY DEF Sufficient, Effects, Returns, BlocksOf, PlaceOf, Predecessors
<1> QED
  BY <1>1, <1>2, <1>3

LEMMA SpreadStmtStep == ASSUME Inv, NEW s \in Statement, SpreadStmt(s) PROVE Inv'
<1> USE DEF Inv
<1>1. /\ code' = code /\ fro' = fro /\ stage = "stmts" /\ stage' = stage /\ s \in stmtList
      /\ idom' = idom /\ flow' = flow /\ output' = output
      /\ stmtList' = (stmtList \ {s}) \cup (code.uses[s] \ liveStmt)
      /\ liveStmt' = liveStmt \cup code.uses[s]
      /\ blockList' = blockList \cup (BlocksOf(s) \ liveBlock)
      /\ liveBlock' = liveBlock \cup BlocksOf(s)
  BY DEF SpreadStmt, Pushed, analysis
<1>2. code.uses[s] \in SUBSET Statement /\ BlocksOf(s) \in SUBSET Block
  BY StatementFacts
<1>3. TypeInv'
  BY <1>1, <1>2 DEF TypeInv
<1>4. Analysed' /\ FlowIsValid' /\ Carried'
  BY <1>1, SameNeeds DEF Analysed, FlowIsValid, Carried
<1>5. ASSUME NEW t \in liveStmt' \ stmtList'
      PROVE  code.uses[t] \subseteq liveStmt' /\ BlocksOf(t) \subseteq liveBlock'
  <2>1. t = s \/ t \in liveStmt \ stmtList
    BY <1>1
  <2> QED
    BY <2>1, <1>1 DEF Progress
<1>6. ASSUME NEW b \in liveBlock' \ blockList'
      PROVE  fro[b] \subseteq liveStmt'
  <2>1. b \in liveBlock \ blockList
    BY <1>1
  <2> QED
    BY <2>1, <1>1 DEF Progress
<1>7. Progress'
  BY <1>1, <1>5, <1>6, SameNeeds DEF Progress
<1>8. LeastSoFar'
  <2> SUFFICES ASSUME NEW L \in SUBSET Statement, NEW B \in SUBSET Block, Sufficient(L, B)
               PROVE  liveStmt' \subseteq L /\ liveBlock' \subseteq B
    BY <1>1, SameNeeds DEF LeastSoFar
  <2>1. liveStmt \subseteq L /\ liveBlock \subseteq B
    BY <1>1 DEF LeastSoFar
  <2>2. code.uses[s] \subseteq L /\ BlocksOf(s) \subseteq B
    BY <2>1, <1>1 DEF Sufficient, TypeInv
  <2> QED
    BY <2>1, <2>2, <1>1
<1> QED
  BY <1>3, <1>4, <1>7, <1>8

LEMMA SpreadBlockStep == ASSUME Inv, NEW b \in Block, SpreadBlock(b) PROVE Inv'
<1> USE DEF Inv
<1>1. /\ code' = code /\ fro' = fro /\ stage = "blocks" /\ b \in blockList
      /\ idom' = idom /\ flow' = flow /\ output' = output
      /\ stmtList' = stmtList \cup (fro[b] \ liveStmt)
      /\ liveStmt' = liveStmt \cup fro[b]
      /\ blockList' = blockList \ {b} /\ liveBlock' = liveBlock
      /\ stage' = IF \A p \in fro[b] : code.flow[p].op = "branch" THEN stage ELSE "error"
  BY DEF SpreadBlock, Pushed, analysis
<1>2. fro[b] \in SUBSET Statement /\ stage' = "blocks"
  BY <1>1, FroFacts DEF Statement
<1>3. TypeInv'
  BY <1>1, <1>2 DEF TypeInv
<1>4. Analysed' /\ FlowIsValid' /\ Carried'
  BY <1>1, <1>2, SameNeeds DEF Analysed, FlowIsValid, Carried
<1>5. ASSUME NEW t \in liveStmt' \ stmtList'
      PROVE  code.uses[t] \subseteq liveStmt' /\ BlocksOf(t) \subseteq liveBlock'
  <2>1. t \in liveStmt \ stmtList
    BY <1>1
  <2> QED
    BY <2>1, <1>1 DEF Progress
<1>6. ASSUME NEW c \in liveBlock' \ blockList'
      PROVE  fro[c] \subseteq liveStmt'
  <2>1. c = b \/ c \in liveBlock \ blockList
    BY <1>1
  <2> QED
    BY <2>1, <1>1 DEF Progress
<1>7. Progress'
  BY <1>1, <1>2, <1>5, <1>6, SameNeeds DEF Progress
<1>8. LeastSoFar'
  <2> SUFFICES ASSUME NEW L \in SUBSET Statement, NEW B \in SUBSET Block, Sufficient(L, B)
               PROVE  liveStmt' \subseteq L /\ liveBlock' \subseteq B
    BY <1>1, SameNeeds DEF LeastSoFar
  <2>1. liveStmt \subseteq L /\ liveBlock \subseteq B
    BY <1>1 DEF LeastSoFar
  <2>2. fro[b] \subseteq L
    BY <2>1, <1>1 DEF Sufficient, TypeInv
  <2> QED
    BY <2>1, <2>2, <1>1
<1> QED
  BY <1>3, <1>4, <1>7, <1>8

\* The steps that end a loop or a stage, and stuttering.
LEMMA QuietStep ==
  ASSUME Inv,
         StmtsDone \/ BlocksDone \/ RemoveDead \/ RemoveUnreachable \/ UNCHANGED vars
  PROVE  Inv'
<1> USE DEF Inv
<1>1. /\ code' = code /\ fro' = fro /\ idom' = idom
      /\ liveStmt' = liveStmt /\ stmtList' = stmtList
      /\ liveBlock' = liveBlock /\ blockList' = blockList
  BY DEF StmtsDone, BlocksDone, RemoveDead, RemoveUnreachable, vars, analysis, stmts, blocks
<1>2. /\ stage' \in {"mark", "stmts", "blocks", "redirect", "remove", "done"}
      /\ stage' = "mark" <=> stage = "mark"
      /\ stage' \in {"redirect", "remove", "done"} => stmtList = {} /\ blockList = {}
  BY DEF StmtsDone, BlocksDone, RemoveDead, RemoveUnreachable, vars, Settled, Progress,
         TypeInv, FlowIsValid
<1>3. TypeInv'
  BY <1>1, <1>2 DEF TypeInv
<1>4. Analysed' /\ FlowIsValid'
  BY <1>1, <1>2, SameNeeds DEF Analysed, FlowIsValid
<1>5. Progress'
  BY <1>1, <1>2, SameNeeds DEF Progress
<1>6. LeastSoFar'
  BY <1>1, <1>2, SameNeeds DEF LeastSoFar
<1>7. Carried'
  <2>1. \A stmt : Redirected(stmt)' = Redirected(stmt)
    BY <1>1 DEF Redirected, FailOf
  <2>2. flow' = flow => Remainder' = Remainder
    BY <1>1 DEF Remainder, HasLivePhi, Predecessors
  <2>3. CASE StmtsDone \/ BlocksDone
    BY <1>1, <2>3 DEF StmtsDone, BlocksDone, Settled, Carried
  <2>4. CASE RemoveDead
    BY <1>1, <2>1, <2>4 DEF RemoveDead, Carried
  <2>5. CASE RemoveUnreachable
    BY <1>1, <2>1, <2>2, <2>5 DEF RemoveUnreachable, Carried
  <2>6. CASE UNCHANGED vars
    BY <1>1, <2>1, <2>2, <2>6 DEF vars, Carried
  <2> QED
    BY <2>3, <2>4, <2>5, <2>6
<1> QED
  BY <1>3, <1>4, <1>5, <1>6, <1>7

THEOREM Invariance == Spec => []Inv
<1>1. Init => Inv
  BY InitInv
<1>2. Inv /\ [Next]_vars => Inv'
  BY MarkEffectStep, SpreadStmtStep, SpreadBlockStep, QuietStep DEF Next
<1> QED
  BY <1>1, <1>2, PTL DEF Spec

\* The assertion "Invalid block flow." of __spread_block never fails: in every
\* well-formed function the blocks of a post-dominance frontier end in branches.
THEOREM AssertionHolds == Spec => []FlowIsValid
<1>1. Inv => FlowIsValid
  BY DEF Inv
<1> QED
  BY <1>1, Invariance, PTL

\* When the two queues are empty, everything live is needed: every sufficient
\* pair of statements and blocks holds it, whatever the order of the queues.
THEOREM NothingSpared == Spec => []OnlyNeededIsLive
<1>1. Inv => OnlyNeededIsLive
  BY DEF Inv, LeastSoFar, OnlyNeededIsLive
<1> QED
  BY <1>1, Invariance, PTL

\* And it is enough: with the do-while loop of the constructor over, every live
\* statement has its operands and its blocks, every live block its decisions.
LiveIsSufficient == stage = "redirect" => Sufficient(liveStmt, liveBlock)

THEOREM NothingMissed == Spec => []LiveIsSufficient
<1>1. Inv => LiveIsSufficient
  BY DEF Inv, Progress, LiveIsSufficient, Sufficient, Effective
<1> QED
  BY <1>1, Invariance, PTL

(***************************************************************************)
(* Where a jump is sent.  The stops of a node are the live blocks that     *)
(* post-dominate it, and the dummy; FailOf finds the nearest.  A flow      *)
(* statement that is dead decides between targets with the same stops: a   *)
(* live block that post-dominates one of them only would have the deciding *)
(* block in its frontier, and so have made the statement live.             *)
(***************************************************************************)

PostEdges == Edges(code.flow, TRUE)
PostDominance == Dominance(PostEdges, Dummy)
StopSet == liveBlock \cup {Dummy}
Stops(n) == DominatorsOf(PostDominance, n) \cap StopSet

\* The queues are empty: what is live is final.
Final == Inv /\ stage \in {"redirect", "remove", "done"}

LEMMA GraphFacts ==
  ASSUME TypeInv
  PROVE  /\ code.flow \in [Block -> FlowStmt]
         /\ PostEdges \in SUBSET (Node \X Node) /\ Connected(PostEdges, Dummy)
         /\ ForwardEdges(code.flow) \in SUBSET (Node \X Node)
         /\ Connected(ForwardEdges(code.flow), Entry)
         /\ \A m, k : <<k, m>> \in PostEdges <=> m \in Block /\ k \in Targets(code.flow[m])
         /\ \A m \in Block : \A k \in Targets(code.flow[m]) : k \in Node
         /\ Dummy \in Node /\ Entry \in Block /\ Dummy \notin Block
         /\ StopSet \in SUBSET Node
<1>1. code.flow \in [Block -> FlowStmt] /\ WellFormed(code.flow)
  BY DEF TypeInv, Code
<1>2. /\ Connected(PostEdges, Dummy)
      /\ Connected(ForwardEdges(code.flow), Entry)
  BY <1>1 DEF WellFormed, Edges, Root, PostEdges
<1>3. PostEdges \in SUBSET (Node \X Node)
  BY <1>1, EdgesArePairs DEF PostEdges
<1>4. ForwardEdges(code.flow) \in SUBSET (Node \X Node)
  <2>1. Edges(code.flow, FALSE) = ForwardEdges(code.flow)
    BY DEF Edges
  <2> QED
    BY <1>1, <2>1, EdgesArePairs
<1>5. \A m, k : <<k, m>> \in PostEdges <=> m \in Block /\ k \in Targets(code.flow[m])
  <2>1. \A m, k : <<m, k>> \in ForwardEdges(code.flow) <=> m \in Block /\ k \in Targets(code.flow[m])
    BY DEF ForwardEdges
  <2> QED
    BY <2>1, EdgeBetween DEF PostEdges
<1>6. \A m \in Block : \A k \in Targets(code.flow[m]) : k \in Node
  <2> TAKE m \in Block
  <2> TAKE k \in Targets(code.flow[m])
  <2>1. <<k, m>> \in PostEdges
    BY <1>5
  <2> QED
    BY <1>3, <2>1
<1>7. StopSet \in SUBSET Node
  BY DEF TypeInv, StopSet, Node
<1> QED
  BY <1>1, <1>2, <1>3, <1>4, <1>5, <1>6, <1>7, BlockAssumption DEF Node

LEMMA LiveFacts ==
  ASSUME Final
  PROVE  /\ \A b \in Block : code.flow[b].op = "return" => b \in liveStmt
         /\ \A b \in Block : b \in liveStmt => b \in liveBlock
         /\ \A s \in liveStmt : code.uses[s] \subseteq liveStmt /\ BlocksOf(s) \subseteq liveBlock
         /\ \A b \in liveBlock : fro[b] \subseteq liveStmt
         /\ liveBlock \in SUBSET Block /\ liveStmt \in SUBSET Statement
<1>1. /\ \A s \in liveStmt : code.uses[s] \subseteq liveStmt /\ BlocksOf(s) \subseteq liveBlock
      /\ \A b \in liveBlock : fro[b] \subseteq liveStmt
      /\ Effective \subseteq liveStmt
      /\ liveBlock \in SUBSET Block /\ liveStmt \in SUBSET Statement
  BY DEF Final, Inv, Progress, TypeInv
<1>2. \A b \in Block : b \in BlocksOf(b)
  BY DEF BlocksOf, PlaceOf
<1> QED
  BY <1>1, <1>2 DEF Effective, Returns

\* FailOf finds the nearest stop.
LEMMA FailOfIsNearest ==
  ASSUME Final, NEW n \in Node
  PROVE  /\ FailOf(n) \in Stops(n)
         /\ \A y \in Stops(n) : <<y, FailOf(n)>> \in PostDominance
<1> DEFINE climb == CHOOSE c : IsClimb(c, StopSet, idom)
           fail == CHOOSE c : c = [m \in Node |->
                     IF m \in liveBlock \/ idom[m] = Null THEN m ELSE c[idom[m]]]
<1>1. /\ PostEdges \in SUBSET (Node \X Node) /\ Connected(PostEdges, Dummy)
      /\ Dummy \in Node /\ Dummy \notin Block /\ StopSet \in SUBSET Node /\ Dummy \in StopSet
  BY GraphFacts DEF Final, Inv, StopSet
<1>2. /\ idom[Dummy] = Null
      /\ \A m \in Node \ {Dummy} : idom[m] = ImmediateDominator(PostDominance, Dummy, m)
  <2>1. idom = [m \in Node |-> IF m = Dummy THEN Null ELSE Analysis[m].idom]
    BY DEF Final, Inv, Analysed
  <2>2. \A m \in Block : Analysis[m].idom = ImmediateDominator(PostDominance, Dummy, m)
    BY DEF Analysis, Answer, Root, PostDominance, PostEdges
  <2> QED
    BY <1>1, <2>1, <2>2 DEF Node
<1>3. \A m \in Node : idom[m] = Null <=> m = Dummy
  <2>1. \A m \in Node \ {Dummy} : idom[m] \in Node
    <3> TAKE m \in Node \ {Dummy}
    <3>1. ImmediateDominator(PostDominance, Dummy, m) \in Node
      BY <1>1, ImmediateDominatorFacts DEF PostDominance
    <3> QED
      BY <1>2, <3>1
  <2> QED
    BY <1>2, <2>1, BlockAssumption DEF Node
<1>4. \A m \in Node : (m \in liveBlock \/ idom[m] = Null) <=> m \in StopSet
  BY <1>3 DEF StopSet
<1>5. FailOf(n) = fail[n]
  BY DEF FailOf
<1>6. fail = climb
  <2>1. \A c : (c = [m \in Node |->
                       IF m \in liveBlock \/ idom[m] = Null THEN m ELSE c[idom[m]]])
                 <=> IsClimb(c, StopSet, idom)
    BY <1>4 DEF IsClimb
  <2> QED
    BY <2>1
<1>7. IsClimb(climb, StopSet, idom)
  <2>1. \E c : IsClimb(c, StopSet, idom)
    BY <1>1, <1>2, ClimbExists DEF PostDominance
  <2> QED
    BY <2>1
<1>8. /\ climb[n] \in DominatorsOf(PostDominance, n) \cap StopSet
      /\ \A y \in DominatorsOf(PostDominance, n) \cap StopSet : <<y, climb[n]>> \in PostDominance
  <2> HIDE DEF climb
  <2> QED
    BY <1>1, <1>2, <1>7, ClimbFindsNearest DEF PostDominance
<1> QED
  BY <1>5, <1>6, <1>8 DEF Stops

\* Nodes with the same stops fail to the same node; a stop fails to itself.
LEMMA FailOfFacts ==
  ASSUME Final
  PROVE  /\ \A m, n \in Node : Stops(m) = Stops(n) => FailOf(m) = FailOf(n)
         /\ \A n \in StopSet : FailOf(n) = n
         /\ \A n \in Node : FailOf(n) \in StopSet /\ FailOf(n) \in Node
<1>1. /\ PostEdges \in SUBSET (Node \X Node) /\ Connected(PostEdges, Dummy)
      /\ Dummy \in Node /\ StopSet \in SUBSET Node
  BY GraphFacts DEF Final, Inv
<1>2. \A n \in Node : /\ FailOf(n) \in StopSet /\ FailOf(n) \in Node
                      /\ FailOf(n) \in Stops(n) /\ <<FailOf(n), n>> \in PostDominance
  BY FailOfIsNearest DEF Stops, DominatorsOf
<1>3. ASSUME NEW m \in Node, NEW n \in Node, FailOf(n) \in Stops(m), FailOf(m) \in Stops(n)
      PROVE  FailOf(m) = FailOf(n)
  <2>1. <<FailOf(m), FailOf(n)>> \in PostDominance /\ <<FailOf(n), FailOf(m)>> \in PostDominance
    BY <1>3, FailOfIsNearest
  <2> QED
    BY <1>1, <1>2, <2>1, DominanceIsAntisymmetric DEF PostDominance
<1>4. \A m, n \in Node : Stops(m) = Stops(n) => FailOf(m) = FailOf(n)
  BY <1>2, <1>3
<1>5. ASSUME NEW n \in StopSet PROVE FailOf(n) = n
  <2>1. n \in Node
    BY <1>1
  <2>2. n \in Stops(n)
    BY <1>1, <2>1, DominatesItself DEF Stops, DominatorsOf, PostDominance
  <2>3. <<n, FailOf(n)>> \in PostDominance
    BY <2>1, <2>2, FailOfIsNearest
  <2> QED
    BY <1>1, <1>2, <2>1, <2>3, DominanceIsAntisymmetric DEF PostDominance
<1> QED
  BY <1>2, <1>4, <1>5

\* A dead flow statement decides nothing: its targets have the stops of its
\* block, but for the block itself.
LEMMA DeadFlowDecidesNothing ==
  ASSUME Final, NEW b \in Block \ liveStmt, NEW k \in Targets(code.flow[b])
  PROVE  Stops(k) = Stops(b) \ {b}
<1>1. /\ PostEdges \in SUBSET (Node \X Node) /\ Connected(PostEdges, Dummy)
      /\ <<k, b>> \in PostEdges /\ Dummy \in Node /\ Dummy \notin Block
  BY GraphFacts DEF Final, Inv
<1>2. k \in Node /\ b \in Node
  BY <1>1
<1>3. Stops(b) \ {b} \subseteq Stops(k)
  BY <1>1, <1>2, DominatesPredecessors DEF Stops, DominatorsOf, PostDominance
<1>4. ASSUME NEW x \in Stops(k) PROVE x # b /\ <<x, b>> \in PostDominance
  <2>1. x \in Node /\ <<x, k>> \in PostDominance /\ x \in StopSet
    BY DEF Stops, DominatorsOf
  <2>2. CASE x = Dummy
    BY <1>1, <1>2, <2>2, RootDominatesAll DEF PostDominance
  <2>3. CASE x # Dummy
    <3>1. x \in liveBlock /\ x \in Block /\ fro[x] \subseteq liveStmt
      BY <2>1, <2>3, LiveFacts DEF StopSet
    <3>2. fro[x] = Frontier(PostEdges, PostDominance, x) \cap Block
      BY <3>1 DEF Final, Inv, Analysed, Analysis, Answer, Root, PostEdges, PostDominance
    <3>3. b \notin Frontier(PostEdges, PostDominance, x)
      BY <3>1, <3>2
    <3> QED
      BY <1>1, <1>2, <2>1, <3>3 DEF Frontier
  <2> QED
    BY <2>2, <2>3
<1>5. Stops(k) \subseteq Stops(b) \ {b}
  BY <1>4 DEF Stops, DominatorsOf
<1> QED
  BY <1>3, <1>5

\* So the targets of a dead flow statement fail to one node, and if its block
\* is dead too the block fails there itself.
LEMMA DeadFlowFails ==
  ASSUME Final, NEW b \in Block \ liveStmt, NEW k \in Targets(code.flow[b])
  PROVE  /\ k \in Block
         /\ \A l \in Targets(code.flow[b]) : FailOf(l) = FailOf(k)
         /\ b \notin liveBlock => FailOf(b) = FailOf(k)
<1>1. /\ code.flow \in [Block -> FlowStmt] /\ Dummy \notin Block
      /\ PostEdges \in SUBSET (Node \X Node)
      /\ \A l \in Targets(code.flow[b]) : <<l, b>> \in PostEdges
  BY GraphFacts DEF Final, Inv
<1>2. \A l \in Targets(code.flow[b]) : l \in Node /\ Stops(l) = Stops(b) \ {b}
  BY <1>1, DeadFlowDecidesNothing
<1>3. \A l \in Targets(code.flow[b]) : FailOf(l) = FailOf(k)
  BY <1>2, FailOfFacts
<1>4. ASSUME b \notin liveBlock PROVE FailOf(b) = FailOf(k)
  <2>1. b \notin Stops(b)
    BY <1>1, <1>4 DEF Stops, StopSet
  <2> QED
    BY <1>2, <2>1, FailOfFacts DEF Node
<1>5. k \in Block
  <2>1. code.flow[b].op # "return"
    BY LiveFacts
  <2> QED
    BY <1>1, <2>1, DummyTarget DEF Targets
<1> QED
  BY <1>3, <1>4, <1>5

\* Every block fails to a block: from those that do not, no return could be
\* reached.
LEMMA BlocksFailToBlocks ==
  ASSUME Final, NEW b \in Block
  PROVE  FailOf(b) \in liveBlock
<1> DEFINE S == {n \in Node : n = Dummy \/ FailOf(n) # Dummy}
<1>1. /\ PostEdges \in SUBSET (Node \X Node) /\ Connected(PostEdges, Dummy)
      /\ Dummy \in Node /\ Dummy \notin Block
      /\ \A m, k : <<k, m>> \in PostEdges <=> m \in Block /\ k \in Targets(code.flow[m])
  BY GraphFacts DEF Final, Inv
<1>2. ASSUME NEW k, NEW m, <<k, m>> \in PostEdges, k \in S PROVE m \in S
  <2>1. m \in Block /\ k \in Targets(code.flow[m]) /\ m \in Node
    BY <1>1, <1>2
  <2>2. CASE m \in liveBlock
    BY <1>1, <2>1, <2>2, FailOfFacts DEF StopSet
  <2>3. CASE m \notin liveBlock
    <3>1. m \notin liveStmt
      BY <2>1, <2>3, LiveFacts
    <3>2. k \in Block /\ FailOf(m) = FailOf(k)
      BY <2>1, <2>3, <3>1, DeadFlowFails
    <3> QED
      BY <1>1, <1>2, <2>1, <3>2
  <2> QED
    BY <2>2, <2>3
<1>3. Closed(PostEdges, S)
  BY <1>1, <1>2, ClosedByEnds
<1>4. S = Node
  <2>1. S \in SUBSET Node /\ Dummy \in S
    BY <1>1
  <2> HIDE DEF S
  <2> QED
    BY <1>1, <1>3, <2>1 DEF Connected
<1>5. b \in Node /\ b # Dummy
  BY <1>1 DEF Node
<1>6. FailOf(b) # Dummy
  BY <1>4, <1>5
<1> QED
  BY <1>5, <1>6, FailOfFacts DEF StopSet

(***************************************************************************)
(* The function that is left.  Its flow leads from block to block where    *)
(* the old one led in the end, so what the old flow reaches fails to what  *)
(* the new one reaches, forwards from the entry and backwards from the     *)
(* returns: unreachableRemover keeps the live blocks and the entry.        *)
(***************************************************************************)

NewEdges == ForwardEdges(flow)
Kept == liveBlock \cup {Entry}

\* What Redirected makes of a flow statement.
LEMMA RedirectedFacts ==
  ASSUME Final, NEW b \in Block
  PROVE  /\ Redirected(code.flow[b]) \in FlowStmt
         /\ Targets(Redirected(code.flow[b])) = {FailOf(k) : k \in Targets(code.flow[b])}
         /\ Redirected(code.flow[b]).op = "return" => code.flow[b].op = "return"
         /\ Redirected(code.flow[b]).op = "branch" =>
              /\ code.flow[b].op = "branch"
              /\ Redirected(code.flow[b]).to[1] # Redirected(code.flow[b]).to[2]
         /\ \A i \in DOMAIN code.flow[b].to :
              FailOf(code.flow[b].to[i]) =
                IF Redirected(code.flow[b]).op = "jump" THEN Redirected(code.flow[b]).to[1]
                ELSE Redirected(code.flow[b]).to[i]
<1> DEFINE stmt == code.flow[b]
           to == [i \in DOMAIN stmt.to |-> FailOf(stmt.to[i])]
<1>1. stmt \in FlowStmt /\ Dummy \notin Block /\ FailOf(Dummy) = Dummy
  BY GraphFacts, FailOfFacts DEF Final, Inv, StopSet
<1>2. \A k \in Block : FailOf(k) \in Block
  BY BlocksFailToBlocks, LiveFacts
<1>3. CASE stmt = Return
  <2>1. stmt.op = "return" /\ stmt.to = <<>> /\ to = <<>>
    BY <1>3 DEF Return
  <2>2. Redirected(stmt) = Return
    BY <2>1 DEF Redirected, Return
  <2>3. Targets(stmt) = {Dummy} /\ Return.op = "return" /\ DOMAIN stmt.to = {}
    BY <2>1 DEF Targets, Return
  <2> QED
    BY <1>1, <1>3, <2>2, <2>3 DEF FlowStmt
<1>4. CASE stmt = Unreachable
  <2>1. stmt.op = "unreachable" /\ stmt.to = <<>> /\ to = <<>>
    BY <1>4 DEF Unreachable
  <2>2. Redirected(stmt) = Unreachable
    BY <2>1 DEF Redirected, Unreachable
  <2>3. Targets(stmt) = {} /\ Unreachable.op = "unreachable" /\ DOMAIN stmt.to = {}
    BY <2>1 DEF Targets, Range, Unreachable
  <2> QED
    BY <1>1, <1>4, <2>2, <2>3 DEF FlowStmt
<1>5. CASE \E c \in Block : stmt = Jump(c)
  <2>1. PICK c \in Block : stmt = Jump(c)
    BY <1>5
  <2>2. stmt.op = "jump" /\ stmt.to = <<c>> /\ to = <<FailOf(c)>>
    BY <2>1 DEF Jump
  <2>3. Redirected(stmt) = Jump(FailOf(c))
    BY <2>2 DEF Redirected, Jump
  <2>4. \A d : Targets(Jump(d)) = {d} /\ Jump(d).op = "jump" /\ Jump(d).to[1] = d
    BY OneTarget DEF Targets, Jump
  <2>5. DOMAIN stmt.to = {1} /\ stmt.to[1] = c
    BY <2>2
  <2> QED
    BY <1>2, <2>1, <2>3, <2>4, <2>5 DEF FlowStmt
<1>6. CASE \E c, d \in Block : stmt = Branch(c, d)
  <2>1. PICK c \in Block, d \in Block : stmt = Branch(c, d)
    BY <1>6
  <2>2. /\ stmt.op = "branch" /\ stmt.to = <<c, d>> /\ to = <<FailOf(c), FailOf(d)>>
        /\ DOMAIN stmt.to = {1, 2} /\ stmt.to[1] = c /\ stmt.to[2] = d
        /\ to[1] = FailOf(c) /\ to[2] = FailOf(d)
    BY <2>1 DEF Branch
  <2>3. \A e : Targets(Jump(e)) = {e} /\ Jump(e).op = "jump" /\ Jump(e).to[1] = e
    BY OneTarget DEF Targets, Jump
  <2>4. \A e, g : /\ Targets(Branch(e, g)) = {e, g} /\ Branch(e, g).op = "branch"
                  /\ Branch(e, g).to[1] = e /\ Branch(e, g).to[2] = g
    BY DEF Targets, Branch, Range
  <2>5. Redirected(stmt) = IF FailOf(c) = FailOf(d) THEN Jump(FailOf(c))
                           ELSE Branch(FailOf(c), FailOf(d))
    BY <2>2 DEF Redirected, Branch
  <2> QED
    BY <1>2, <2>1, <2>2, <2>3, <2>4, <2>5 DEF FlowStmt
<1> QED
  BY <1>1, <1>3, <1>4, <1>5, <1>6 DEF FlowStmt

\* The new edges, once the flow is redirected.
LEMMA NewEdgeFacts ==
  ASSUME Final, stage # "redirect"
  PROVE  /\ flow \in [Block -> FlowStmt]
         /\ \A b \in Block : flow[b] = Redirected(code.flow[b])
         /\ NewEdges \in SUBSET (Node \X Node)
         /\ \A m, n : <<m, n>> \in NewEdges <=>
              m \in Block /\ \E k \in Targets(code.flow[m]) : n = FailOf(k)
         /\ \A m, n : <<m, n>> \in NewEdges => m \in Block /\ n \in StopSet
<1>1. flow = [b \in Block |-> Redirected(code.flow[b])]
  BY DEF Final, Inv, Carried
<1>2. flow \in [Block -> FlowStmt]
  BY <1>1, RedirectedFacts
<1>3. NewEdges \in SUBSET (Node \X Node)
  <2>1. Edges(flow, FALSE) = NewEdges
    BY DEF Edges, NewEdges
  <2> QED
    BY <1>2, <2>1, EdgesArePairs
<1>4. \A m, n : <<m, n>> \in NewEdges <=> m \in Block /\ n \in Targets(flow[m])
  BY DEF NewEdges, ForwardEdges
<1>5. \A m, n : <<m, n>> \in NewEdges <=>
        m \in Block /\ \E k \in Targets(code.flow[m]) : n = FailOf(k)
  <2>1. \A m \in Block : Targets(flow[m]) = {FailOf(k) : k \in Targets(code.flow[m])}
    BY <1>1, RedirectedFacts
  <2> QED
    BY <1>4, <2>1
<1>6. \A m \in Block : \A k \in Targets(code.flow[m]) : k \in Node
  BY GraphFacts DEF Final, Inv
<1> QED
  BY <1>1, <1>2, <1>3, <1>5, <1>6, FailOfFacts

\* unreachableRemover keeps the live blocks and the entry.
LEMMA UsefulBlocks ==
  ASSUME Final, stage # "redirect"
  PROVE  Useful(NewEdges) = Kept
<1> DEFINE back == Backwards(NewEdges)
           fwdSet == Reachable(NewEdges, Entry)
           backSet == Reachable(back, Dummy)
<1>1. /\ PostEdges \in SUBSET (Node \X Node) /\ Connected(PostEdges, Dummy)
      /\ ForwardEdges(code.flow) \in SUBSET (Node \X Node)
      /\ Connected(ForwardEdges(code.flow), Entry)
      /\ Dummy \in Node /\ Entry \in Block /\ Entry \in Node /\ Dummy \notin Block
      /\ \A m, k : <<k, m>> \in PostEdges <=> m \in Block /\ k \in Targets(code.flow[m])
      /\ \A m, k : <<m, k>> \in ForwardEdges(code.flow) => m \in Block /\ k \in Targets(code.flow[m])
  BY GraphFacts DEF Final, Inv, Node, ForwardEdges
<1>2. /\ NewEdges \in SUBSET (Node \X Node)
      /\ \A m \in Block : \A k \in Targets(code.flow[m]) : <<m, FailOf(k)>> \in NewEdges
      /\ \A m, n : <<m, n>> \in NewEdges => m \in Block /\ n \in StopSet
  BY NewEdgeFacts
<1>3. back \in SUBSET (Node \X Node) /\ \A m, n : <<m, n>> \in back <=> <<n, m>> \in NewEdges
  BY <1>2, TurnedAround DEF Backwards
<1>4. \A n \in StopSet : FailOf(n) = n
  BY FailOfFacts
<1>5. \A m \in Block \ liveBlock : \A k \in Targets(code.flow[m]) : FailOf(m) = FailOf(k)
  BY LiveFacts, DeadFlowFails
<1>6. PICK k0 \in Targets(code.flow[Entry]) : TRUE
  <2> SUFFICES ASSUME Targets(code.flow[Entry]) = {} PROVE FALSE
    OBVIOUS
  <2>1. Closed(PostEdges, Node \ {Entry})
    BY <1>1, ClosedByEnds
  <2> QED
    BY <1>1, <2>1 DEF Connected
<1> HIDE DEF back
<1>7. /\ Entry \in fwdSet /\ Dummy \in backSet
      /\ \A m, n : <<m, n>> \in NewEdges /\ m \in fwdSet => n \in fwdSet
      /\ \A m, n : <<m, n>> \in NewEdges /\ n \in backSet => m \in backSet
  BY <1>1, <1>2, <1>3, ReachableIsClosed
<1> HIDE DEF fwdSet, backSet
<1>8. \A n \in Node : FailOf(n) \in fwdSet
  <2> DEFINE S == {n \in Node : FailOf(n) \in fwdSet}
  <2>1. Entry \in S
    <3>1. CASE Entry \in liveBlock
      BY <1>1, <1>4, <1>7, <3>1 DEF StopSet
    <3>2. CASE Entry \notin liveBlock
      BY <1>1, <1>2, <1>5, <1>6, <1>7, <3>2
    <3> QED
      BY <3>1, <3>2
  <2>2. ASSUME NEW m, NEW k, <<m, k>> \in ForwardEdges(code.flow), m \in S PROVE k \in S
    <3>1. m \in Block /\ k \in Targets(code.flow[m]) /\ k \in Node
      BY <1>1, <2>2
    <3>2. CASE m \in liveBlock
      BY <1>2, <1>4, <1>7, <2>2, <3>1, <3>2 DEF StopSet
    <3>3. CASE m \notin liveBlock
      BY <1>5, <2>2, <3>1, <3>3
    <3> QED
      BY <3>2, <3>3
  <2>3. Closed(ForwardEdges(code.flow), S)
    BY <1>1, <2>2, ClosedByEnds
  <2>4. S \in SUBSET Node
    OBVIOUS
  <2>5. S = Node
    <3> HIDE DEF S
    <3> QED
      BY <1>1, <2>1, <2>3, <2>4 DEF Connected
  <2> QED
    BY <2>5
<1>9. \A n \in Node : FailOf(n) \in backSet
  <2> DEFINE S == {n \in Node : FailOf(n) \in backSet}
  <2>1. Dummy \in S
    BY <1>1, <1>4, <1>7 DEF StopSet
  <2>2. ASSUME NEW k, NEW m, <<k, m>> \in PostEdges, k \in S PROVE m \in S
    <3>1. m \in Block /\ k \in Targets(code.flow[m]) /\ m \in Node
      BY <1>1, <2>2
    <3>2. CASE m \in liveBlock
      BY <1>2, <1>4, <1>7, <2>2, <3>1, <3>2 DEF StopSet
    <3>3. CASE m \notin liveBlock
      BY <1>5, <2>2, <3>1, <3>3
    <3> QED
      BY <3>2, <3>3
  <2>3. Closed(PostEdges, S)
    BY <1>1, <2>2, ClosedByEnds
  <2>4. S \in SUBSET Node
    OBVIOUS
  <2>5. S = Node
    <3> HIDE DEF S
    <3> QED
      BY <1>1, <2>1, <2>3, <2>4 DEF Connected
  <2> QED
    BY <2>5
<1>10. liveBlock \in SUBSET Block /\ \A n \in Block : n \in Node
  BY LiveFacts DEF Node
<1>11. liveBlock \subseteq fwdSet \cap backSet
  BY <1>4, <1>8, <1>9, <1>10 DEF StopSet
<1>12. Entry \in backSet
  <2>1. k0 \in Node
    BY <1>1, <1>6, GraphFacts DEF Final, Inv
  <2> QED
    BY <1>1, <1>2, <1>6, <1>7, <1>9, <2>1
<1>13. fwdSet \subseteq Kept \cup {Dummy}
  <2>1. Closed(NewEdges, Kept \cup {Dummy})
    BY <1>2, ClosedByEnds DEF Kept, StopSet
  <2>2. Entry \in Kept \cup {Dummy} /\ Kept \cup {Dummy} \in SUBSET Node
    BY <1>1, <1>10 DEF Kept
  <2> QED
    BY <2>1, <2>2, ReachableIsLeast DEF fwdSet
<1>14. Useful(NewEdges) = fwdSet \cap backSet \cap Block
  BY DEF Useful, fwdSet, backSet, back
<1> QED
  BY <1>1, <1>7, <1>10, <1>11, <1>12, <1>13, <1>14 DEF Kept

\* What unreachableRemover leaves: it trims no branch, since the targets of
\* every block that is kept are kept.
LEMMA OutputFacts ==
  ASSUME Inv, stage = "done"
  PROVE  /\ output.data = Kept
         /\ output.flow \in [Block -> FlowStmt]
         /\ \A b \in Kept : output.flow[b] = Redirected(code.flow[b])
         /\ \A b \in Kept : HasLivePhi(b) =>
              output.phi[b] = Predecessors(code, b) \cap {p \in Kept : <<p, b>> \in NewEdges}
<1>1. Final /\ stage # "redirect" /\ output = Reduced(Remainder)
  BY DEF Final, Inv, Carried
<1>2. /\ Kept \in SUBSET Block /\ Dummy \notin Block
      /\ flow \in [Block -> FlowStmt]
      /\ \A b \in Block : flow[b] = Redirected(code.flow[b])
      /\ \A m, n : <<m, n>> \in NewEdges => m \in Block /\ n \in StopSet
  BY <1>1, LiveFacts, NewEdgeFacts, BlockAssumption DEF Kept
<1>3. /\ Remainder.data = Block /\ Remainder.flow = flow
      /\ Remainder.fate = [b \in Block |-> "open"]
      /\ Remainder.phi = [b \in Block |-> IF HasLivePhi(b) THEN Predecessors(code, b) ELSE {}]
  BY DEF Remainder
<1>4. \A b \in Block : Marked(Remainder.flow[b], Remainder.fate[b]) = flow[b]
  BY <1>3 DEF Marked
<1>5. MarkedEdges(Remainder) = NewEdges
  <2>1. [b \in Block |-> Marked(Remainder.flow[b], Remainder.fate[b])] = flow
    BY <1>2, <1>4
  <2>2. \A e \in NewEdges : e[1] \in Block
    BY DEF NewEdges, ForwardEdges
  <2> QED
    BY <1>3, <2>1, <2>2 DEF MarkedEdges, NewEdges
<1>6. Useful(MarkedEdges(Remainder)) = Kept
  BY <1>1, <1>5, UsefulBlocks
<1>7. ASSUME NEW b \in Block PROVE Trimmed(flow[b], Kept) = flow[b]
  <2> SUFFICES ASSUME flow[b].op = "branch",
                      NEW c \in Kept, Range(flow[b].to) \cap Kept = {c}
               PROVE  FALSE
    BY DEF Trimmed
  <2>1. flow[b].to[1] # flow[b].to[2]
    BY <1>1, <1>2, RedirectedFacts
  <2>2. PICK d \in Block, e \in Block : flow[b] = Branch(d, e)
    BY <1>2 DEF FlowStmt, Return, Unreachable, Jump
  <2>3. Range(flow[b].to) = {d, e} /\ flow[b].to[1] = d /\ flow[b].to[2] = e
    <3>1. /\ flow[b].to = <<d, e>> /\ DOMAIN flow[b].to = {1, 2}
          /\ flow[b].to[1] = d /\ flow[b].to[2] = e
      BY <2>2 DEF Branch
    <3> QED
      BY <3>1 DEF Range
  <2>4. Targets(flow[b]) = {d, e}
    BY <2>3 DEF Targets
  <2>5. <<b, d>> \in NewEdges /\ <<b, e>> \in NewEdges
    BY <2>4 DEF NewEdges, ForwardEdges
  <2>6. d \in Kept /\ e \in Kept
    BY <1>2, <2>5 DEF StopSet, Kept
  <2> QED
    BY <2>1, <2>3, <2>6
<1>8. /\ output.data = Kept
      /\ output.flow = [b \in Block |-> IF b \in Kept
            THEN Trimmed(Marked(Remainder.flow[b], Remainder.fate[b]), Kept) ELSE Unreachable]
      /\ output.phi = [b \in Block |-> IF b \in Kept
            THEN Remainder.phi[b] \cap {p \in Kept : <<p, b>> \in NewEdges} ELSE {}]
  BY <1>1, <1>5, <1>6 DEF Reduced
<1>9. \A b \in Block : output.flow[b] = IF b \in Kept THEN flow[b] ELSE Unreachable
  BY <1>4, <1>7, <1>8
<1>10. output.flow \in [Block -> FlowStmt]
  <2>1. \A b \in Block : output.flow[b] \in FlowStmt
    BY <1>2, <1>9 DEF FlowStmt
  <2> QED
    BY <1>8, <2>1, Zenon
<1>11. \A b \in Kept : HasLivePhi(b) =>
        output.phi[b] = Predecessors(code, b) \cap {p \in Kept : <<p, b>> \in NewEdges}
  BY <1>2, <1>3, <1>8
<1> QED
  BY <1>2, <1>8, <1>9, <1>10, <1>11

\* All live blocks are still reachable and reach a return, and of the dead ones
\* only the entry is left: redirecting the jumps loses no live block, and
\* leaves unreachableRemover all dead ones to take away.
THEOREM LiveBlocksAreLeft == Spec => []LiveBlocksRemain
<1>1. Inv => LiveBlocksRemain
  BY OutputFacts DEF LiveBlocksRemain, Kept
<1> QED
  BY <1>1, Invariance, PTL

\* A jump that has been sent elsewhere leads where every way through the blocks
\* passed over would have led, to the next live block: so it does not matter
\* what the dead branches in them would have decided.
THEOREM JumpsAreSound == Spec => []SameNextLiveBlock
<1>1. ASSUME Inv PROVE SameNextLiveBlock
  <2> SUFFICES ASSUME stage = "done", NEW b \in output.data, NEW i \in DOMAIN code.flow[b].to
               PROVE  LET new == output.flow[b]
                          t   == IF new.op = "jump" THEN new.to[1] ELSE new.to[i]
                      IN  t \in liveBlock /\ Skipped(code.flow[b].to[i], t)
    BY DEF SameNextLiveBlock
  <2> DEFINE s == code.flow[b].to[i]
             t == FailOf(s)
  <2>1. Final /\ b \in Block /\ output.flow[b] = Redirected(code.flow[b])
    BY <1>1, OutputFacts, LiveFacts, BlockAssumption DEF Final, Kept
  <2>2. t = IF output.flow[b].op = "jump" THEN output.flow[b].to[1] ELSE output.flow[b].to[i]
    BY <2>1, RedirectedFacts
  <2>3. s \in Block
    <3>1. s \in Range(code.flow[b].to)
      BY DEF Range
    <3> QED
      BY <2>1, <3>1, TargetFacts, GraphFacts DEF Final, Inv
  <2>4. t \in liveBlock
    BY <2>1, <2>3, BlocksFailToBlocks
  <2> HIDE DEF s
  <2>5. ASSUME s # t PROVE Skipped(s, t)
    <3> DEFINE S == {m \in Block \ liveBlock : FailOf(m) = t}
    <3>1. s \notin liveBlock
      BY <2>1, <2>5, FailOfFacts DEF StopSet
    <3>2. s \in S /\ S \in SUBSET (Block \ liveBlock)
      BY <2>3, <3>1
    <3>3. ASSUME NEW e \in ForwardEdges(code.flow), e[1] \in S PROVE e[2] \in S \cup {t}
      <4> DEFINE m == e[1]
                 k == e[2]
      <4>1. m \in Block /\ k \in Targets(code.flow[m])
        BY DEF ForwardEdges
      <4>2. m \notin liveStmt /\ m \notin liveBlock /\ FailOf(m) = t
        BY <2>1, <3>3, <4>1, LiveFacts
      <4> HIDE DEF m, k
      <4>3. k \in Block /\ FailOf(k) = t
        BY <2>1, <4>1, <4>2, DeadFlowFails
      <4>4. k \in liveBlock => k = t
        BY <2>1, <4>3, FailOfFacts DEF StopSet
      <4> QED
        BY <4>3, <4>4 DEF k
    <3> HIDE DEF S
    <3> QED
      BY <3>2, <3>3 DEF Skipped
  <2>6. Skipped(s, t)
    BY <2>5 DEF Skipped
  <2> QED
    BY <2>2, <2>4, <2>6 DEF s
<1> QED
  BY <1>1, Invariance, PTL

\* A phi statement that is left needs no new entry and keeps no stale one: if a
\* jump were sent to its block past dead ones, the last of these would be a
\* predecessor the live phi statement had kept alive.
THEOREM PhiEntriesFit == Spec => []PhiMatchesPreds
<1>1. ASSUME Inv PROVE PhiMatchesPreds
  <2> SUFFICES ASSUME stage = "done", NEW b \in output.data, HasLivePhi(b)
               PROVE  output.phi[b] = {p \in output.data : b \in Range(output.flow[p].to)}
    BY DEF PhiMatchesPreds
  <2>1. /\ Final /\ stage # "redirect" /\ output.data = Kept
        /\ b \in Block /\ Kept \in SUBSET Block
        /\ \A p \in Kept : output.flow[p] = Redirected(code.flow[p])
        /\ output.phi[b] = Predecessors(code, b) \cap {p \in Kept : <<p, b>> \in NewEdges}
    BY <1>1, OutputFacts, LiveFacts, BlockAssumption DEF Final, Kept
  <2>2. /\ code.flow \in [Block -> FlowStmt] /\ Dummy \notin Block /\ Dummy \in Node
        /\ PostEdges \in SUBSET (Node \X Node) /\ Connected(PostEdges, Dummy)
        /\ \A m, k : <<k, m>> \in PostEdges <=> m \in Block /\ k \in Targets(code.flow[m])
        /\ \A m \in Block : \A k \in Targets(code.flow[m]) : k \in Node
    BY <2>1, GraphFacts DEF Final, Inv
  <2>3. \A p \in Block : p \in Predecessors(code, b) <=> b \in Targets(code.flow[p])
    <3>1. \A p \in Block : Targets(code.flow[p]) \ {Dummy} = Range(code.flow[p].to)
      BY <2>2, TargetFacts
    <3> QED
      BY <2>1, <2>2, <3>1 DEF Predecessors
  <2>4. Predecessors(code, b) \subseteq liveBlock /\ b \in liveBlock
    <3>1. PICK s \in liveStmt \cap Stmt : code.kind[s] = "phi" /\ code.place[s] = b
      BY DEF HasLivePhi
    <3>2. BlocksOf(s) \subseteq liveBlock
      BY <2>1, LiveFacts
    <3>3. PlaceOf(code, s) = b
      BY <3>1, StmtAssumption DEF PlaceOf
    <3> QED
      BY <3>1, <3>2, <3>3 DEF BlocksOf
  <2>5. ASSUME NEW k \in Block, FailOf(k) = b PROVE k = b
    <3> DEFINE S == {n \in Node : n \in Block /\ n \notin liveBlock => FailOf(n) # b}
    <3>1. ASSUME NEW n, NEW m, <<n, m>> \in PostEdges, n \in S PROVE m \in S
      <4> SUFFICES ASSUME m \in Block, m \notin liveBlock, FailOf(m) = b PROVE FALSE
        BY <2>2, <3>1 DEF Node
      <4>1. n \in Targets(code.flow[m]) /\ m \notin liveStmt
        BY <2>1, <2>2, <3>1, LiveFacts
      <4>2. n \in Block /\ FailOf(n) = b
        BY <2>1, <4>1, DeadFlowFails
      <4>3. n = b
        BY <2>1, <3>1, <4>2, FailOfFacts DEF StopSet
      <4> QED
        BY <2>3, <2>4, <4>1, <4>3
    <3>2. Closed(PostEdges, S)
      BY <2>2, <3>1, ClosedByEnds
    <3>3. S \in SUBSET Node /\ Dummy \in S
      BY <2>2
    <3>4. S = Node
      <4> HIDE DEF S
      <4> QED
        BY <2>2, <3>2, <3>3 DEF Connected
    <3>5. k \in liveBlock
      BY <2>5, <3>4 DEF Node
    <3> QED
      BY <2>1, <2>5, <3>5, FailOfFacts DEF StopSet
  <2>6. ASSUME NEW p \in Kept
        PROVE  <<p, b>> \in NewEdges <=> b \in Range(output.flow[p].to)
    <3>1. p \in Block /\ flow \in [Block -> FlowStmt] /\ output.flow[p] = flow[p]
      BY <2>1, NewEdgeFacts
    <3>2. Targets(flow[p]) \ {Dummy} = Range(flow[p].to)
      BY <3>1, TargetFacts
    <3>3. <<p, b>> \in NewEdges <=> b \in Targets(flow[p])
      BY <3>1 DEF NewEdges, ForwardEdges
    <3> QED
      BY <2>1, <2>2, <3>1, <3>2, <3>3
  <2>7. ASSUME NEW p \in Kept, <<p, b>> \in NewEdges PROVE p \in Predecessors(code, b)
    <3>1. PICK k \in Targets(code.flow[p]) : b = FailOf(k)
      BY <2>1, <2>7, NewEdgeFacts
    <3>2. p \in Block /\ k \in Node
      BY <2>1, <2>2
    <3>3. k # Dummy
      BY <2>1, <2>2, <3>1, FailOfFacts DEF StopSet
    <3>4. k = b
      BY <2>5, <3>1, <3>2, <3>3 DEF Node
    <3> QED
      BY <2>3, <3>1, <3>2, <3>4
  <2> QED
    BY <2>1, <2>6, <2>7
<1> QED
  BY <1>1, Invariance, PTL

\* Every operand of a live statement is live and its block is left, and a flow
\* statement that is dead is no branch any more: both its sides led to the same
\* live block.
THEOREM OperandsAreLeft == Spec => []NothingDangles
<1>1. ASSUME Inv PROVE NothingDangles
  <2> SUFFICES ASSUME stage = "done", NEW b \in output.data
               PROVE  /\ output.flow[b].op \in {"branch", "return"} => b \in liveStmt
                      /\ \A s \in liveStmt : PlaceOf(code, s) = b =>
                           \A r \in code.uses[s] : r \in liveStmt /\ code.place[r] \in output.data
    BY DEF NothingDangles
  <2>1. /\ Final /\ b \in Block /\ output.data = Kept
        /\ output.flow[b] = Redirected(code.flow[b])
    BY <1>1, OutputFacts, LiveFacts, BlockAssumption DEF Final, Kept
  <2>2. output.flow[b].op = "return" => b \in liveStmt
    BY <2>1, RedirectedFacts, LiveFacts
  <2>3. ASSUME output.flow[b].op = "branch", b \notin liveStmt PROVE FALSE
    <3> DEFINE stmt == code.flow[b]
    <3>1. /\ stmt.op = "branch" /\ stmt \in FlowStmt
          /\ output.flow[b].to[1] # output.flow[b].to[2]
      BY <2>1, <2>3, RedirectedFacts, GraphFacts DEF Final, Inv
    <3>2. PICK c \in Block, d \in Block : stmt = Branch(c, d)
      BY <3>1 DEF FlowStmt, Return, Unreachable, Jump
    <3>3. DOMAIN stmt.to = {1, 2} /\ stmt.to[1] = c /\ stmt.to[2] = d
      BY <3>2 DEF Branch
    <3>4. Targets(stmt) = {c, d}
      BY <3>1, <3>3 DEF Targets, Range
    <3>5. FailOf(c) = FailOf(d)
      BY <2>1, <2>3, <3>4, DeadFlowFails
    <3>6. FailOf(c) = output.flow[b].to[1] /\ FailOf(d) = output.flow[b].to[2]
      BY <2>1, <2>3, <3>3, RedirectedFacts
    <3> QED
      BY <3>1, <3>5, <3>6
  <2>4. ASSUME NEW s \in liveStmt, NEW r \in code.uses[s]
        PROVE  r \in liveStmt /\ code.place[r] \in output.data
    <3>1. r \in liveStmt
      BY <2>1, LiveFacts
    <3>2. r \in Stmt
      BY <2>1, LiveFacts DEF Final, Inv, TypeInv, Code
    <3>3. code.place[r] \in BlocksOf(r)
      BY <3>2, StmtAssumption DEF BlocksOf, PlaceOf
    <3> QED
      BY <2>1, <3>1, <3>3, LiveFacts DEF Kept
  <2> QED
    BY <2>2, <2>3, <2>4
<1> QED
  BY <1>1, Invariance, PTL

\* Every variable keeps its type: what the pass redirects and unreachableRemover
\* reduces are flow statements again.
THEOREM TypeCorrect == Spec => []TypeOK
<1>1. ASSUME Inv PROVE TypeOK
  <2>1. /\ TypeInv /\ code.flow \in [Block -> FlowStmt]
        /\ PostEdges \in SUBSET (Node \X Node) /\ Connected(PostEdges, Dummy)
        /\ Dummy \in Node /\ Dummy \notin Block
    BY <1>1, GraphFacts DEF Inv
  <2>2. fro \in [Block -> SUBSET Block]
    BY <1>1 DEF Inv, Analysed, Analysis, Answer
  <2>3. idom \in [Node -> Node \cup {Null}]
    <3>1. \A n \in Block : ImmediateDominator(PostDominance, Dummy, n) \in Node
      <4> TAKE n \in Block
      <4>1. n \in Node /\ n # Dummy
        BY <2>1 DEF Node
      <4> QED
        BY <2>1, <4>1, ImmediateDominatorFacts DEF PostDominance
    <3>2. \A n \in Block : Analysis[n].idom = ImmediateDominator(PostDominance, Dummy, n)
      BY DEF Analysis, Answer, Root, PostDominance, PostEdges
    <3>3. \A n \in Node : n # Dummy => Analysis[n].idom \in Node
      BY <3>1, <3>2 DEF Node
    <3> QED
      BY <1>1, <3>3 DEF Inv, Analysed
  <2>4. flow \in [Block -> FlowStmt]
    <3>1. CASE stage \in {"remove", "done"}
      BY <1>1, <3>1, NewEdgeFacts DEF Final
    <3>2. CASE stage \notin {"remove", "done"}
      BY <1>1, <2>1, <3>2 DEF Inv, Carried
    <3> QED
      BY <3>1, <3>2
  <2>5. output # Null => output.flow \in [Block -> FlowStmt]
    BY <1>1, OutputFacts DEF Inv, Carried
  <2> QED
    BY <2>1, <2>2, <2>3, <2>4, <2>5 DEF TypeInv, TypeOK
<1> QED
  BY <1>1, Invariance, PTL

=============================================================================

------------------------- MODULE AggressiveElimination -------------------------
(***************************************************************************)
(* AggressiveElimination: a statement is dead unless it has an effect, or  *)
(* a live one needs its result or is executed or not by its decision.  Two *)
(* work queues feed each other, one of statements and one of blocks; then  *)
(* every jump to a dead block is sent to the next live block on the chain  *)
(* of immediate post-dominators, and unreachableRemover takes the dead     *)
(* blocks away.                                                            *)
(*                                                                         *)
(* The post-dominators are those dominantMaker promises (Dominant shows    *)
(* that it keeps the promise), and unreachableRemover's work is what       *)
(* Reduction promises.  The queues are taken in any order: what is live    *)
(* does not depend on it.                                                  *)
(***************************************************************************)
EXTENDS FunctionCode, IRFunction

CONSTANT Programs   \* the functions the pass is called on

ASSUME ProgramAssumption ==
  /\ Programs \subseteq Code
  /\ \A f \in {c.flow : c \in Programs} : WellFormed(f)

VARIABLES
  code,        \* the function as it was
  stage,       \* how far the constructor is
  fro, idom,   \* the post-dominance frontiers and immediate post-dominators
  stmtList,    \* the queue of statements
  liveStmt,    \* all that were ever in it
  blockList,   \* the queue of blocks
  liveBlock,   \* all that were ever in it
  flow,        \* the flow statements
  output       \* what unreachableRemover leaves of the function

vars == <<code, stage, fro, idom, stmtList, liveStmt, blockList, liveBlock, flow, output>>

analysis == <<fro, idom>>
stmts == <<stmtList, liveStmt>>
blocks == <<blockList, liveBlock>>

Init ==
  /\ code \in Programs
  /\ stage = "mark"
  /\ fro = [b \in Block |-> {}]
  /\ idom = [n \in Node |-> Null]
  /\ stmtList = {} /\ liveStmt = {}
  /\ blockList = {} /\ liveBlock = {}
  /\ flow = code.flow
  /\ output = Null

ForwardAnalysis == Answer(Edges(code.flow, FALSE), Root(FALSE))   \* a slip

Analysis == Answer(Edges(code.flow, TRUE), Root(TRUE))

Returns == {b \in Block : code.flow[b].op = "return"}

AllFlow == Effects(code) \cup Block   \* a slip

Effective == Effects(code) \cup Returns

\* The post-dominator analysis, linkBlock and markEffect on every block.
MarkEffect ==
  /\ stage = "mark"
  /\ stage' = "stmts"
  /\ LET answer == Analysis
     IN  /\ fro' = [b \in Block |-> answer[b].fro]
         /\ idom' = [n \in Node |-> IF n = Dummy THEN Null ELSE answer[n].idom]
  /\ stmtList' = Effective
  /\ liveStmt' = Effective
  /\ UNCHANGED <<code, blocks, flow, output>>

OwnBlockOnly(s) == {PlaceOf(code, s)}   \* a slip

\* A live statement needs its block, a phi statement the blocks before it too:
\* it is they that choose the value.
BlocksOf(s) ==
  {PlaceOf(code, s)}
    \cup IF s \in Stmt /\ code.kind[s] = "phi"
         THEN Predecessors(code, code.place[s]) ELSE {}

PushedAgain(S, live) == S   \* a slip

\* work_queue::push: what was pushed once is not pushed again.
Pushed(S, live) == S \ live

\* __spread_stmt
SpreadStmt(s) ==
  /\ stage = "stmts"
  /\ s \in stmtList
  /\ stmtList' = (stmtList \ {s}) \cup Pushed(code.uses[s], liveStmt)
  /\ liveStmt' = liveStmt \cup code.uses[s]
  /\ blockList' = blockList \cup Pushed(BlocksOf(s), liveBlock)
  /\ liveBlock' = liveBlock \cup BlocksOf(s)
  /\ UNCHANGED <<code, stage, analysis, flow, output>>

StmtsDone ==
  /\ stage = "stmts"
  /\ stmtList = {}
  /\ stage' = "blocks"
  /\ UNCHANGED <<code, analysis, stmts, blocks, flow, output>>

\* __spread_block: a live block needs the decisions it depends on, the flow
\* statements of the blocks in its frontier.  One that is no branch fails the
\* assertion "Invalid block flow.", which ends the compilation.
SpreadBlock(b) ==
  /\ stage = "blocks"
  /\ b \in blockList
  /\ stage' = IF \A p \in fro[b] : code.flow[p].op = "branch" THEN stage ELSE "error"
  /\ stmtList' = stmtList \cup Pushed(fro[b], liveStmt)
  /\ liveStmt' = liveStmt \cup fro[b]
  /\ blockList' = blockList \ {b}
  /\ UNCHANGED <<code, analysis, liveBlock, flow, output>>

OneRound == TRUE   \* a slip

Settled == stmtList = {}

\* The end of the inner loops, and the do-while condition.
BlocksDone ==
  /\ stage = "blocks"
  /\ blockList = {}
  /\ stage' = IF Settled THEN "redirect" ELSE "stmts"
  /\ UNCHANGED <<code, analysis, stmts, blocks, flow, output>>

ToParent(n) == IF n \in liveBlock \/ idom[n] = Null THEN n ELSE idom[n]   \* a slip

\* FailBuilder: a dead block fails to where its immediate post-dominator does.
FailOf(n) ==
  LET fail[m \in Node] ==
        IF m \in liveBlock \/ idom[m] = Null THEN m ELSE fail[idom[m]]
  IN  fail[n]

FalseSide(stmt) ==   \* a slip
  IF stmt.op = "return" THEN stmt ELSE Jump(FailOf(stmt.to[1]))

Redirected(stmt) ==
  LET to == [i \in DOMAIN stmt.to |-> FailOf(stmt.to[i])]
  IN  IF stmt.op = "branch" /\ to[1] = to[2] THEN Jump(to[1])
      ELSE [op |-> stmt.op, to |-> to]

\* FailBuilder and removeDead on every block: after it the statements in the
\* blocks are the live ones.
RemoveDead ==
  /\ stage = "redirect"
  /\ stage' = "remove"
  /\ flow' = [b \in Block |-> Redirected(flow[b])]
  /\ UNCHANGED <<code, analysis, stmts, blocks, output>>

HasLivePhi(b) == \E s \in liveStmt \cap Stmt : code.kind[s] = "phi" /\ code.place[s] = b

Remainder ==
  [data |-> Block, flow |-> flow, fate |-> [b \in Block |-> "open"],
   phi |-> [b \in Block |-> IF HasLivePhi(b) THEN Predecessors(code, b) ELSE {}]]

\* unreachableRemover on what is left.
RemoveUnreachable ==
  /\ stage = "remove"
  /\ stage' = "done"
  /\ output' = Reduced(Remainder)
  /\ UNCHANGED <<code, analysis, stmts, blocks, flow>>

Next ==
  \/ MarkEffect
  \/ \E s \in Statement : SpreadStmt(s)
  \/ StmtsDone
  \/ \E b \in Block : SpreadBlock(b)
  \/ BlocksDone
  \/ RemoveDead
  \/ RemoveUnreachable

Spec == Init /\ [][Next]_vars

\* A turn of the loops in spreadEffect, which nothing interrupts.
LoopStep ==
  \/ \E s \in Statement : SpreadStmt(s)
  \/ StmtsDone
  \/ \E b \in Block : SpreadBlock(b)
  \/ BlocksDone

FairSpec == Spec /\ WF_vars(LoopStep)

-----------------------------------------------------------------------------

TypeOK ==
  /\ code \in Code
  /\ stage \in {"mark", "stmts", "blocks", "error", "redirect", "remove", "done"}
  /\ fro \in [Block -> SUBSET Block]
  /\ idom \in [Node -> Node \cup {Null}]
  /\ liveStmt \in SUBSET Statement
  /\ stmtList \in SUBSET liveStmt
  /\ liveBlock \in SUBSET Block
  /\ blockList \in SUBSET liveBlock
  /\ flow \in [Block -> FlowStmt]
  /\ output # Null => output.flow \in [Block -> FlowStmt]

\* What a function can do with: statements L and blocks B.
Sufficient(L, B) ==
  /\ Effects(code) \cup Returns \subseteq L
  /\ \A s \in L : code.uses[s] \subseteq L /\ BlocksOf(s) \subseteq B
  /\ \A b \in B : fro[b] \subseteq L

\* Nothing has become live that a function can do without.
OnlyNeededIsLive ==
  stage = "redirect" =>
    \A L \in SUBSET Statement, B \in SUBSET Block :
      Sufficient(L, B) => liveStmt \subseteq L /\ liveBlock \subseteq B

\* The flow of a block in a post-dominance frontier is a branch: the assertion
\* on it never fails.
FlowIsValid == stage # "error"

\* Every operand of a statement that is left has its definition left, and a
\* branch whose condition was dead has become a jump.
NothingDangles ==
  stage = "done" =>
    \A b \in output.data :
      /\ output.flow[b].op \in {"branch", "return"} => b \in liveStmt
      /\ \A s \in liveStmt : PlaceOf(code, s) = b =>
           \A r \in code.uses[s] : r \in liveStmt /\ code.place[r] \in output.data

\* A way of the original function through removed blocks only.
Skipped(s, t) ==
  s = t \/ \E S \in SUBSET (Block \ liveBlock) :
             /\ s \in S
             /\ \A e \in ForwardEdges(code.flow) : e[1] \in S => e[2] \in S \cup {t}

\* Where a block that is left now leads, it always led in the end: whatever the
\* blocks passed over would have decided, the next live block is the same.
SameNextLiveBlock ==
  stage = "done" =>
    \A b \in output.data : \A i \in DOMAIN code.flow[b].to :
      LET new == output.flow[b]
          t   == IF new.op = "jump" THEN new.to[1] ELSE new.to[i]
      IN  t \in liveBlock /\ Skipped(code.flow[b].to[i], t)

\* All live blocks are still reachable, and of the dead ones only the entry is.
LiveBlocksRemain == stage = "done" => output.data = liveBlock \cup {Entry}

\* The phi statements that are left have an entry for every new predecessor.
PhiMatchesPreds ==
  stage = "done" =>
    \A b \in output.data : HasLivePhi(b) =>
      output.phi[b] = {p \in output.data : b \in Range(output.flow[p].to)}

\* The two queues feed each other, but not forever: once filled they run dry
\* together, which is when dead code is removed, or the assertion fails.
QueuesRunDry == stage = "stmts" ~> stage \in {"redirect", "error"}

=============================================================================

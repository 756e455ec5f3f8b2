------------------------------- MODULE Dominant -------------------------------
(***************************************************************************)
(* dominantMaker: the dominator (or, with post, post-dominator) analysis   *)
(* of one function.  Its constructor links the blocks, numbers them by a   *)
(* depth-first walk, iterates the dominator bitsets in that order until a  *)
(* round changes none, turns the bitsets into the block fields dom, fro    *)
(* and idom, and takes the dummy block out again.                          *)
(*                                                                         *)
(* The walk takes the successors of a block in any order: branch[0] and    *)
(* branch[1] may be exchanged in the program, and in the post direction    *)
(* the order is that of function::data.  A bitset over reverse post-order  *)
(* numbers is modelled by the set of the numbered nodes.                   *)
(*                                                                         *)
(* An operator marked as a slip is no part of the model: it is what its    *)
(* neighbour would be after a plausible mistake, and a property must fail  *)
(* when it takes that neighbour's place.                                   *)
(***************************************************************************)
EXTENDS FlowGraph, SequencesExt

CONSTANT Programs   \* the functions analysed

ASSUME ProgramAssumption ==
  \A f \in Programs : f \in [Block -> FlowStmt] /\ WellFormed(f)

VARIABLES
  flow,      \* block::flow, read only
  post,      \* __is_post, read only
  stage,     \* how far the constructor is
  next,      \* block::next, as a set
  prev,      \* block::prev, as a set
  stack,     \* the active calls of makePostOrder
  todo,      \* per active call, the successors its loop has still to take
  visited,   \* dominantMaker::visited
  rpo,       \* dominantMaker::rpo, in post order until it is reversed
  dom,       \* domNode::dom of every node
  cursor,    \* the position in rpo the round is at
  changed,   \* __changed of iterate
  result     \* block::dom, block::fro and block::idom

vars == <<flow, post, stage, next, prev, stack, todo, visited, rpo, dom,
          cursor, changed, result>>

walk == <<stack, todo, visited>>
iteration == <<dom, cursor, changed>>

root == Root(post)

Nothing == [n \in Node |-> [dom |-> {}, fro |-> {}, idom |-> Null]]

Init ==
  /\ flow \in Programs
  /\ post \in BOOLEAN
  /\ stage = "link"
  /\ next = [n \in Node |-> {}]
  /\ prev = [n \in Node |-> {}]
  /\ stack = <<>>
  /\ todo = [n \in Node |-> {}]
  /\ visited = {}
  /\ rpo = <<>>
  /\ dom = [n \in Node |-> {}]
  /\ cursor = 0
  /\ changed = FALSE
  /\ result = Nothing

(***************************************************************************)
(* initEdge, reverseCFG for a post analysis, and the call of makePostOrder *)
(* on the root.  The blocks' edges are swapped; the dummy's prev is moved  *)
(* to its next.                                                            *)
(***************************************************************************)
Link ==
  /\ stage = "link"
  /\ stage' = "walk"
  /\ LET edges == Edges(flow, post)
     IN  /\ next' = [n \in Node |-> SuccOf(edges, n)]
         /\ prev' = [n \in Node |-> PredOf(edges, n)]
  /\ stack' = <<root>>
  /\ visited' = {root}
  /\ todo' = next'
  /\ UNCHANGED <<flow, post, rpo, dom, cursor, changed, result>>

(***************************************************************************)
(* makePostOrder.  The innermost call takes a successor and enters it      *)
(* unless it was visited; when none is left it pushes its node and returns.*)
(***************************************************************************)
Enter(m) ==
  /\ stage = "walk"
  /\ stack # <<>>
  /\ m \in todo[Last(stack)] \ visited
  /\ visited' = visited \cup {m}
  /\ stack' = Append(stack, m)
  /\ todo' = [todo EXCEPT ![Last(stack)] = @ \ {m}]
  /\ UNCHANGED <<flow, post, stage, next, prev, rpo, dom, cursor, changed, result>>

Leave ==
  /\ stage = "walk"
  /\ stack # <<>>
  /\ todo[Last(stack)] \subseteq visited
  /\ rpo' = Append(rpo, Last(stack))
  /\ stack' = Front(stack)
  /\ UNCHANGED <<flow, post, stage, next, prev, todo, visited, dom, cursor,
                 changed, result>>

(***************************************************************************)
(* The reversal of rpo and the start of iterate: every node is given the   *)
(* full set, the first only itself.                                        *)
(***************************************************************************)
StartAtSelf(n) == {n}   \* a slip

Initially(n) == IF n = root THEN {root} ELSE Range(rpo)

Numbered(order) == Reverse(order)

StartIterate ==
  /\ stage = "walk"
  /\ stack = <<>>
  /\ stage' = "iterate"
  /\ rpo' = Numbered(rpo)
  /\ dom' = [n \in Node |-> Initially(n)]
  /\ cursor' = 2
  /\ changed' = FALSE
  /\ UNCHANGED <<flow, post, next, prev, walk, result>>

\* What update computes for n: the meet over its predecessors, and n itself.
Meet(n) == {d \in Node : \A p \in prev[n] : d \in dom[p]} \cup {n}

OneRound(new) == FALSE           \* a slip
AlwaysChanged(new) == TRUE       \* a slip

\* __changed |= update(__p)
Changed(new) == changed \/ new # dom

Update ==
  /\ stage = "iterate"
  /\ cursor <= Len(rpo)
  /\ dom' = [dom EXCEPT ![rpo[cursor]] = Meet(rpo[cursor])]
  /\ changed' = Changed(dom')
  /\ cursor' = cursor + 1
  /\ UNCHANGED <<flow, post, stage, next, prev, walk, rpo, result>>

\* The do-while condition: another round if the last one changed a set.
EndRound ==
  /\ stage = "iterate"
  /\ cursor > Len(rpo)
  /\ IF changed THEN cursor' = 2 /\ UNCHANGED stage
                ELSE stage' = "build" /\ UNCHANGED cursor
  /\ changed' = FALSE
  /\ UNCHANGED <<flow, post, next, prev, walk, rpo, dom, result>>

(***************************************************************************)
(* buildDomTree.  initFrontier collects for m the nodes that m is in the   *)
(* frontier of: those that dominate a predecessor but not m, and m itself  *)
(* if it dominates one.  The immediate dominator is the dominator that     *)
(* comes last before m in rpo.                                             *)
(***************************************************************************)
StrictFrontier(m) == UNION {dom[p] : p \in prev[m]} \ dom[m]   \* a slip

HasFrontier(m) ==
  LET ofPrev == UNION {dom[p] : p \in prev[m]}
  IN  (ofPrev \ dom[m]) \cup (ofPrev \cap {m})

LastBefore(m) ==
  LET at == {i \in 1..Len(rpo) : rpo[i] \in dom[m] \ {m}}
  IN  IF at = {} THEN Null ELSE rpo[Max(at)]

BuildDomTree ==
  /\ stage = "build"
  /\ stage' = "restore"
  /\ result' = [n \in Node |->
       [dom  |-> dom[n],
        fro  |-> {m \in Node : n \in HasFrontier(m)},
        idom |-> LastBefore(n)]]
  /\ UNCHANGED <<flow, post, next, prev, walk, rpo, iteration>>

(***************************************************************************)
(* reverseCFG back for a post analysis (it swaps the edges of the blocks   *)
(* only), then removeDummy: the dummy leaves the edges, the dominators,    *)
(* the frontiers and rpo, but not idom.                                    *)
(***************************************************************************)
LeftSwapped(one, other) == one   \* a slip

SwappedBack(one, other) ==
  [n \in Node |-> IF post /\ n # Dummy THEN other[n] ELSE one[n]]

Erased(s) ==
  IF Dummy \in Range(s) THEN RemoveAt(s, CHOOSE i \in 1..Len(s) : s[i] = Dummy) ELSE s

WithoutDummy(r) ==
  [dom |-> r.dom \ {Dummy}, fro |-> r.fro \ {Dummy}, idom |-> r.idom]

RemoveDummy ==
  /\ stage = "restore"
  /\ stage' = "done"
  /\ next' = [n \in Node |-> SwappedBack(next, prev)[n] \ {Dummy}]
  /\ prev' = [n \in Node |-> SwappedBack(prev, next)[n] \ {Dummy}]
  /\ result' = [n \in Node |-> WithoutDummy(result[n])]
  /\ rpo' = Erased(rpo)
  /\ UNCHANGED <<flow, post, walk, iteration>>

Next ==
  \/ Link
  \/ \E m \in Node : Enter(m)
  \/ Leave
  \/ StartIterate
  \/ Update
  \/ EndRound
  \/ BuildDomTree
  \/ RemoveDummy

Spec == Init /\ [][Next]_vars

FairSpec == Spec /\ WF_vars(Next)

-----------------------------------------------------------------------------

\* The nodes a list may name: the dummy is gone when the analysis is over.
Named == IF stage = "done" THEN Block ELSE Node

\* Every variable has the shape its C++ counterpart has; once the analysis is
\* over no list of a block names the dummy.
TypeOK ==
  /\ flow \in Programs
  /\ post \in BOOLEAN
  /\ stage \in {"link", "walk", "iterate", "build", "restore", "done"}
  /\ next \in [Node -> SUBSET Node]
  /\ prev \in [Node -> SUBSET Node]
  /\ stack \in Seq(Node)
  /\ todo \in [Node -> SUBSET Node]
  /\ visited \in SUBSET Node
  /\ rpo \in Seq(Named)
  /\ dom \in [Node -> SUBSET Node]
  /\ cursor \in Nat
  /\ changed \in BOOLEAN
  /\ result \in [Node -> [dom : SUBSET Named, fro : SUBSET Named, idom : Node \cup {Null}]]

trueDominance == Dominance(Edges(flow, post), root)

\* However many rounds have run, no bitset has lost a node that dominates its
\* owner: stopping early would be imprecise, never wrong.
NeverLosesADominator ==
  stage \in {"iterate", "build"} =>
    \A e \in trueDominance : e[1] \in dom[e[2]]

\* When iterate has ended, the bitsets are exactly the dominator sets: one
\* round without a change is enough to stop.
FixpointIsExact ==
  stage \in {"build", "restore", "done"} =>
    LET domi == trueDominance IN \A n \in Node : dom[n] = DominatorsOf(domi, n)

\* The numbering puts every node behind all that dominate it.  buildDomTree
\* relies on it twice: its do-while ends only at the node's own number, and it
\* takes the last number before it for the immediate dominator.
DominatorsComeFirst ==
  stage = "build" =>
    LET domi == trueDominance
    IN  \A i, j \in 1..Len(rpo) : <<rpo[i], rpo[j]>> \in domi => i <= j

\* Linking, reversing, walking, reversing back and unlinking the dummy leave
\* behind the edges of the flow statements, as if CFGbuilder had run.
CfgRestored ==
  stage = "done" =>
    \A b \in Block : /\ next[b] = Range(flow[b].to)
                     /\ prev[b] = {c \in Block : b \in Range(flow[c].to)}

\* The analysis answers as DominatorTree promises, in the step that ends it.
answer ==
  IF stage # "done" THEN Null
  ELSE [b \in Block |-> result[b]]

answered == stage = "done"

Promise == INSTANCE DominatorTree WITH answer <- answer, answered <- answered
RefinesDominatorTree == Promise!Spec

\* The walk and the iteration come to an end.
Terminates == <>(stage = "done")

=============================================================================

--------------------------- MODULE LoopNestDetector ---------------------------
(***************************************************************************)
(* LoopNestDetector: finds the loops of one function and how they lie in   *)
(* one another.  Its constructor goes over the blocks four times, each     *)
(* time in an order that has a block behind its dominators, as rpo does.   *)
(*                                                                         *)
(* A loop is named by its header.  A body is a set; that its vector has to *)
(* be sorted before binary_search looks into it is kept apart, as the set  *)
(* of the loops that were sorted and whether one was searched that was not.*)
(***************************************************************************)
EXTENDS FlowGraph

CONSTANT LoopPrograms   \* the functions that loops are looked for in

ASSUME LoopProgramAssumption ==
  /\ IsFiniteSet(Block)
  /\ \A f \in LoopPrograms : /\ f \in [Block -> FlowStmt] /\ WellFormed(f)
                            /\ \A b \in Block : Entry \notin Range(f[b].to)

VARIABLES
  flow, dom, idom,   \* block::flow, dom and idom, read only
  phase,             \* which of the four loops over the blocks is running
  todo,              \* the blocks it has not come to
  loop,              \* block::loop
  body,              \* loopInfo::body; at first the latches
  parent,            \* loopInfo::parent
  depth,             \* loopInfo::depth
  worklist,          \* of detectLoopBody, the queue
  pushed,            \* of detectLoopBody, the set of all that were pushed
  current,           \* the block whose body or whose loop is being found
  outer,             \* the loop in which it is looked for
  sorted,            \* the loops whose body is sorted
  blind              \* a body was searched that was not

given    == <<flow, dom, idom>>
nest     == <<loop, body, parent, depth>>
search   == <<current, outer, sorted, blind>>
loopVars == <<given, phase, todo, nest, worklist, pushed, search>>

LoopInit ==
  /\ flow \in LoopPrograms
  /\ LET answer == Answer(ForwardEdges(flow), Entry)
     IN  dom = [b \in Block |-> answer[b].dom] /\ idom = [b \in Block |-> answer[b].idom]
  /\ phase = "edges" /\ todo = Block
  /\ loop = [b \in Block |-> Null] /\ parent = loop
  /\ body = [b \in Block |-> {}] /\ depth = [b \in Block |-> 0]
  /\ worklist = {} /\ pushed = {} /\ sorted = {}
  /\ current = Null /\ outer = Null /\ blind = FALSE

\* A turn of one of the loops over the blocks, and the end of it.
Turn(pass, b) ==
  /\ phase = pass /\ current = Null
  /\ b \in todo /\ dom[b] \cap todo = {b}
  /\ todo' = todo \ {b}
  /\ UNCHANGED <<given, phase>>

After == [edges |-> "bodies", bodies |-> "nest", nest |-> "tree", tree |-> "done"]

NextPass ==
  /\ phase # "done" /\ current = Null /\ todo = {}
  /\ phase' = After[phase]
  /\ todo' = Block
  /\ UNCHANGED <<given, nest, worklist, pushed, search>>

DetectBackEdge(b) ==
  /\ Turn("edges", b)
  /\ LET headers == Range(flow[b].to) \cap dom[b]
     IN  /\ loop' = [h \in Block |-> IF h \in headers THEN h ELSE loop[h]]
         /\ body' = [h \in Block |-> IF h \in headers THEN body[h] \cup {b} ELSE body[h]]
  /\ UNCHANGED <<parent, depth, worklist, pushed, search>>

(***************************************************************************)
(* detectLoopBody: backwards from the latches up to the header.  The queue *)
(* is taken in any order.  A latch gets into it without being pushed, so   *)
(* that it may be pushed once more.                                        *)
(***************************************************************************)
DetectLoopBody(b) ==
  /\ Turn("bodies", b)
  /\ IF loop[b] = Null THEN UNCHANGED <<body, worklist, pushed, current>>
     ELSE /\ current' = b /\ worklist' = body[b] /\ pushed' = {}
          /\ body' = [body EXCEPT ![b] = {}]
  /\ UNCHANGED <<loop, parent, depth, outer, sorted, blind>>

Prev(b) == {p \in Block : b \in Range(flow[p].to)}

Pop(x) ==
  /\ phase = "bodies" /\ x \in worklist
  /\ body' = [body EXCEPT ![current] = @ \cup {x}]
  /\ LET prev == IF x = current THEN {} ELSE Prev(x)
     IN  /\ worklist' = (worklist \ {x}) \cup (prev \ pushed)
         /\ pushed' = pushed \cup prev
  /\ UNCHANGED <<given, phase, todo, loop, parent, depth, search>>

BodyFound ==
  /\ phase = "bodies" /\ current # Null /\ worklist = {}
  /\ current' = Null
  /\ UNCHANGED <<given, phase, todo, nest, worklist, pushed, outer, sorted, blind>>

(***************************************************************************)
(* detectLoopNest.  A header's loop lies in one of those around its        *)
(* dominator.  Any other block gets the loop of its dominator, which it    *)
(* may have left: buildTree looks for the loop that it lies in.            *)
(***************************************************************************)
SortedIfOutermost(b) == IF loop[idom[b]] = Null THEN sorted \cup {b} ELSE sorted   \* a slip

SortedWith(b) == sorted \cup {b}

DetectLoopNest(b) ==
  /\ Turn("nest", b)
  /\ \/ idom[b] = Null /\ UNCHANGED <<loop, current, outer, sorted>>
     \/ /\ idom[b] # Null /\ loop[b] = Null
        /\ loop' = [loop EXCEPT ![b] = loop[idom[b]]]
        /\ UNCHANGED <<current, outer, sorted>>
     \/ /\ idom[b] # Null /\ loop[b] # Null
        /\ current' = b /\ outer' = loop[idom[b]] /\ sorted' = SortedWith(b)
        /\ UNCHANGED loop
  /\ UNCHANGED <<body, parent, depth, worklist, pushed, blind>>

AlwaysHolds(h, b) == TRUE   \* a slip

\* binary_search
Holds(h, b) == b \in body[h]

Climb ==
  /\ phase \in {"nest", "tree"} /\ current # Null
  /\ outer # Null /\ ~Holds(outer, current)
  /\ outer' = parent[outer]
  /\ blind' = (blind \/ outer \notin sorted)
  /\ UNCHANGED <<given, phase, todo, nest, worklist, pushed, current, sorted>>

\* The loop is found, or there is none.
Arrive(pass) ==
  /\ phase = pass /\ current # Null
  /\ outer # Null => Holds(outer, current)
  /\ current' = Null
  /\ blind' = (blind \/ outer \notin sorted \cup {Null})
  /\ UNCHANGED <<given, phase, todo, body, depth, worklist, pushed, outer, sorted>>

SetParent == Arrive("nest") /\ parent' = [parent EXCEPT ![current] = outer] /\ UNCHANGED loop

SetLoop == Arrive("tree") /\ loop' = [loop EXCEPT ![current] = outer] /\ UNCHANGED parent

BuildTree(b) ==
  /\ Turn("tree", b)
  /\ \/ loop[b] = Null /\ UNCHANGED <<depth, current, outer>>
     \/ /\ loop[b] = b
        /\ depth' = [depth EXCEPT ![b] = IF parent[b] = Null THEN 1 ELSE depth[parent[b]] + 1]
        /\ UNCHANGED <<current, outer>>
     \/ /\ loop[b] \notin {b, Null}
        /\ current' = b /\ outer' = loop[b]
        /\ UNCHANGED depth
  /\ UNCHANGED <<loop, body, parent, worklist, pushed, sorted, blind>>

LoopNext ==
  \/ NextPass
  \/ \E b \in Block : DetectBackEdge(b)
  \/ \E b \in Block : DetectLoopBody(b)
  \/ \E b \in Block : Pop(b)
  \/ BodyFound
  \/ \E b \in Block : DetectLoopNest(b)
  \/ Climb
  \/ SetParent
  \/ SetLoop
  \/ \E b \in Block : BuildTree(b)

LoopSpec == LoopInit /\ [][LoopNext]_loopVars

-----------------------------------------------------------------------------

Around(b) == LoopsAround(flow, dom, b)

\* The one of some loops that lies in all of them and in no other; Null of none.
Innermost(h, loops) == IF loops = {} THEN h = Null ELSE h \in loops /\ Around(h) = loops

\* In the end the loop of a block is the innermost one around it, the parent of
\* a loop is the innermost one around that, and its depth is their number.
LoopsNest ==
  phase = "done" =>
    \A b \in Block :
      LET around == Around(b)
      IN  /\ Innermost(loop[b], around)
          /\ b \in around => /\ Innermost(parent[b], around \ {b})
                             /\ depth[b] = Cardinality(around)

\* No body is searched by bisection before it is sorted.
SearchedWhenSorted == ~blind

=============================================================================

---------------------------- MODULE DominatorTree ----------------------------
(***************************************************************************)
(* What dominantMaker promises: given a function and a direction, one step *)
(* answers with every block's dominators, frontier and immediate dominator.*)
(***************************************************************************)
EXTENDS FlowGraph

VARIABLES
  flow, post,   \* the question, read only
  answer,
  answered

Init ==
  /\ flow \in [Block -> FlowStmt]
  /\ WellFormed(flow)
  /\ post \in BOOLEAN
  /\ answer = Null
  /\ answered = FALSE

Analyse ==
  /\ ~answered /\ answered'
  /\ answer' = Answer(Edges(flow, post), Root(post))
  /\ UNCHANGED <<flow, post>>

Spec == Init /\ [][Analyse]_<<flow, post, answer, answered>>

=============================================================================

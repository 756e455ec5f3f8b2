------------------------ MODULE MCAggressiveElimination ------------------------
(***************************************************************************)
(* Instances of AggressiveElimination for TLC: blocks are numbers, block 1 *)
(* is the entry, 0 the dummy.                                              *)
(***************************************************************************)
EXTENDS AggressiveElimination, TLC

CONSTANTS
  Last1,   \* the number of blocks
  x, y     \* the statements

MCBlock == 1..Last1
MCEntry == 1
MCDummy == 0
MCStmt == {x, y}

\* The entry branches to 2 and 3 and is no target, the last block returns, any
\* other returns, jumps or branches.
Inner ==
  {Return} \cup {Jump(b) : b \in 2..Last1}
    \cup {Branch(e[1], e[2]) : e \in {e \in (2..Last1) \X (2..Last1) : e[1] < e[2]}}

Flows ==
  {f \in {(1 :> Branch(2, 3)) @@ (Last1 :> Return) @@ g : g \in [2..Last1 - 1 -> Inner]} :
     WellFormed(f)}

Analysed == {[flow |-> f, answer |-> Answer(Edges(f, FALSE), MCEntry)] : f \in Flows}

\* One statement with an effect, in any block, and a phi statement or a plain
\* one in any block, which the effect or the flow of block 2 uses.
Statements ==
  {[place |-> [s \in MCStmt |-> IF s = x THEN at[1] ELSE at[2]],
    kind |-> [s \in MCStmt |-> IF s = x THEN kind ELSE "effect"],
    uses |-> [s \in MCStmt \cup MCBlock |-> IF s = user THEN {x} ELSE {}]] :
     kind \in {"phi", "plain"}, at \in MCBlock \X MCBlock, user \in {y, 2}}

\* The entry has no phi, a definition dominates its use, a jump uses nothing.
Legal(fn, st) ==
  /\ st.kind[x] = "phi" => st.place[x] # MCEntry
  /\ st.uses[y] # {} => st.place[x] \in fn.answer[st.place[y]].dom
  /\ st.uses[2] # {} => st.place[x] \in fn.answer[2].dom /\ fn.flow[2].op # "jump"

AllPrograms ==
  {[flow |-> c[1].flow, place |-> c[2].place, kind |-> c[2].kind, uses |-> c[2].uses] :
     c \in {c \in Analysed \X Statements : Legal(c[1], c[2])}}

MCPrograms == AllPrograms

=============================================================================

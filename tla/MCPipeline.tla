------------------------------ MODULE MCPipeline ------------------------------
(***************************************************************************)
(* Instances of PipelineSteps for TLC: blocks are numbers, block 1 the     *)
(* entry, 0 the dummy.                                                     *)
(***************************************************************************)
EXTENDS PipelineSteps

MCBlock == 1..6
MCEntry == 1
MCDummy == 0

\* A nest of three loops, two loops side by side, a loop in the branch of a
\* loop, and all graphs of three blocks that end in the fifth.  The first of
\* the three leads to another, which is called 3.
Nesting == <<Jump(2), Branch(3, 6), Branch(4, 2), Branch(5, 3), Jump(4), Return>>
Beside  == <<Jump(2), Branch(3, 4), Jump(2), Branch(5, 6), Branch(4, 5), Return>>
Aside   == <<Jump(2), Branch(3, 4), Branch(3, 5), Jump(5), Branch(2, 6), Return>>

Inner == {Jump(b) : b \in 2..5} \cup {Branch(e[1], e[2]) : e \in {e \in (2..5) \X (2..5) : e[1] < e[2]}}

Graphs == {<<Jump(2), g[2], g[3], g[4], Jump(6), Return>> : g \in {g \in [2..4 -> Inner] : 3 \in Range(g[2].to)}}

MCLoopPrograms == {f \in Graphs \cup {Nesting, Beside, Aside} : WellFormed(f)}

=============================================================================

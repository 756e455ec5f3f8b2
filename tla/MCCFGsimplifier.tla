---------------------------- MODULE MCCFGsimplifier ----------------------------
(***************************************************************************)
(* Instances of CFGsimplifier for TLC: blocks are numbers, block 1 is the  *)
(* entry, 0 the dummy.  The walk takes successors in any order, so one of  *)
(* Branch(b, c) and Branch(c, b) is enough.                                *)
(***************************************************************************)
EXTENDS CFGsimplifier, TLC

CONSTANT Last1   \* the number of blocks

MCBlock == 1..Last1
MCEntry == 1
MCDummy == 0

Statements ==
  {Return} \cup {Jump(b) : b \in 2..Last1}
    \cup {Branch(e[1], e[2]) : e \in {e \in (2..Last1) \X (2..Last1) : e[1] < e[2]}}

\* Every well-formed function whose entry is no target; a block with two
\* predecessors has phi statements or none, and one of the others may have.
AllPrograms ==
  {c \in [flow : {f \in [MCBlock -> Statements] : WellFormed(f)}, joins : SUBSET (2..Last1)] :
     Cardinality({b \in c.joins : Cardinality(Preds(c.flow, b)) = 1}) <= 1}

MCPrograms == AllPrograms

=============================================================================

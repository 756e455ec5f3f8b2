------------------------------ MODULE MCDominant ------------------------------
(***************************************************************************)
(* Instances of Dominant for TLC: blocks are numbers, block 1 the entry, 0 *)
(* the dummy.  The walk takes successors in any order, so one of           *)
(* Branch(b, c) and Branch(c, b) is enough.                                *)
(***************************************************************************)
EXTENDS Dominant

Last1 == 5   \* the number of blocks

MCBlock == 1..Last1
MCEntry == 1
MCDummy == 0

Unordered(S) == {e \in S \X S : e[1] <= e[2]}

\* Every function whose entry branches to 2 and 3, is no branch target, and
\* whose last block is the only one that returns; no branch has one target
\* twice.  With five blocks the graphs that need a second round that changes a
\* set, loops with two entries, are among them.
SingleExit ==
  {f \in [MCBlock -> {Return} \cup {Jump(b) : b \in 2..Last1}
            \cup {Branch(e[1], e[2]) : e \in {e \in Unordered(2..Last1) : e[1] # e[2]}}] :
     /\ f[1] = Branch(2, 3)
     /\ \A b \in MCBlock : f[b] = Return <=> b = Last1}

\* Functions that go back to the entry or to where they are, return in two
\* blocks, or branch twice to one target.
AnyShape ==
  {<<f[1], f[2], Branch(b, 4), Jump(5), Return>> :
     b \in 1..4, f \in [1..2 -> {Return} \cup {Jump(b) : b \in 1..3} \cup {Branch(e[1], e[2]) : e \in Unordered(1..3)}]}

AllPrograms == {f \in SingleExit \cup AnyShape : WellFormed(f)}

MCPrograms == AllPrograms

=============================================================================

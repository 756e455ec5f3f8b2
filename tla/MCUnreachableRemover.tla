------------------------- MODULE MCUnreachableRemover -------------------------
(***************************************************************************)
(* Instances of UnreachableRemover for TLC: blocks are numbers, block 1 is *)
(* the entry, 0 the dummy.                                                 *)
(***************************************************************************)
EXTENDS UnreachableRemover

CONSTANT Last1   \* the number of blocks

MCBlock == 1..Last1
MCEntry == 1
MCDummy == 0

Predecessors(f, b) == {p \in MCBlock : b \in Range(f[p].to)}

\* The function as IRbuilder leaves it, with a phi in every block.
Fresh(f, fate) ==
  [data |-> MCBlock, flow |-> f, phi |-> [b \in MCBlock |-> Predecessors(f, b)],
   fate |-> fate]

\* Statements whose targets are not the entry.  The searches take the edges in
\* any order, so a branch is needed in one order of its targets only as long
\* as nothing is known of its condition.
Statements ==
  {Return} \cup {Jump(b) : b \in 2..Last1}
    \cup {Branch(e[1], e[2]) : e \in {e \in (2..Last1) \X (2..Last1) : e[1] <= e[2]}}

AtMostOneKnown ==
  {fate \in [MCBlock -> Fate] : \A b, c \in MCBlock : fate[b] # "open" /\ fate[c] # "open" => b = c}

\* The entry branches to 2 and 3, every other block is anything; something is
\* known of at most one block.
AllPrograms ==
  {Fresh(f, fate) : f \in {f \in [MCBlock -> Statements] : f[1] = Branch(2, 3)},
                    fate \in AtMostOneKnown}

MCPrograms == AllPrograms

=============================================================================

------------------------------ MODULE MCDeadCode ------------------------------
(***************************************************************************)
(* Instances of DeadCodeEliminator for TLC: blocks are numbers, block 1 is *)
(* the entry, 0 the dummy.                                                 *)
(***************************************************************************)
EXTENDS DeadCodeEliminator

MCBlock == 1..2
MCEntry == 1
MCDummy == 0

\* Every function of two blocks, the first of which branches to itself or to
\* the other on s1: three statements of any kind in the first block, each with
\* up to two operands defined by any of them.
CONSTANT s1

Operands == {S \in SUBSET Stmt : Cardinality(S) <= 2}

AllPrograms ==
  {[flow |-> <<Branch(1, 2), Return>>,
    place |-> [s \in Stmt |-> 1],
    kind |-> kind,
    uses |-> [s \in Statement |-> IF s \in Stmt THEN uses[s] ELSE IF s = 1 THEN {s1} ELSE {}]] :
     kind \in [Stmt -> {"effect", "phi", "plain"}], uses \in [Stmt -> Operands]}

MCPrograms == AllPrograms

=============================================================================

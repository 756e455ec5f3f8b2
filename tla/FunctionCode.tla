----------------------------- MODULE FunctionCode -----------------------------
(***************************************************************************)
(* The statements of a function, as dead code elimination sees them.  A    *)
(* block that is named among the statements stands for its flow statement. *)
(* Of a statement only its block, its kind and the statements that define  *)
(* its operands are kept:                                                  *)
(*   "effect"  a store, or a call of a function with side effects          *)
(*   "phi"     a phi statement, with an entry for each predecessor         *)
(*   "plain"   any other one                                               *)
(***************************************************************************)
EXTENDS FlowGraph

CONSTANT Stmt   \* the statements other than flow statements

ASSUME StmtAssumption == Stmt \cap (Block \cup {Dummy, Null}) = {}

Statement == Stmt \cup Block

Code ==
  [flow : [Block -> FlowStmt],
   place : [Stmt -> Block],                      \* hidden_impl of a statement
   kind : [Stmt -> {"effect", "phi", "plain"}],
   uses : [Statement -> SUBSET Stmt]]            \* get_use

PlaceOf(code, s) == IF s \in Block THEN s ELSE code.place[s]

Effects(code) == {s \in Stmt : code.kind[s] = "effect"}

Predecessors(code, b) == {p \in Block : b \in Range(code.flow[p].to)}

=============================================================================

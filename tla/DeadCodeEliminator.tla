-------------------------- MODULE DeadCodeEliminator --------------------------
(***************************************************************************)
(* DeadCodeEliminator: it starts from the statements with an effect and    *)
(* from every flow statement, follows operands to the statements that      *)
(* define them by means of a work queue, and removes all others.  The flow *)
(* of the function stays as it is.                                         *)
(*                                                                         *)
(* The queue is taken in any order, and what is kept does not depend on it.*)
(***************************************************************************)
EXTENDS FunctionCode

CONSTANT Programs   \* the functions the pass is called on

ASSUME ProgramAssumption == Programs \subseteq Code

VARIABLES
  code,      \* the function, read only until the end
  stage,
  queue,     \* workList, the queue
  marked,    \* workList, the set of all that were ever in the queue
  kept       \* the statements left in the blocks

vars == <<code, stage, queue, marked, kept>>

Init ==
  /\ code \in Programs
  /\ stage = "collect"
  /\ queue = {}
  /\ marked = {}
  /\ kept = Statement

PhiToo == Statement \ {s \in Stmt : code.kind[s] = "plain"}   \* a slip

Roots == Effects(code) \cup Block

\* __collect_effective on every block.
Collect ==
  /\ stage = "collect"
  /\ stage' = "spread"
  /\ queue' = Roots
  /\ marked' = Roots
  /\ UNCHANGED <<code, kept>>

\* work_queue::push: what was pushed once is not pushed again.
Pushed(S) == S \ marked

Inserted(S) == marked \cup S

Spread(s) ==
  /\ stage = "spread"
  /\ s \in queue
  /\ queue' = (queue \ {s}) \cup Pushed(code.uses[s])
  /\ marked' = Inserted(code.uses[s])
  /\ UNCHANGED <<code, stage, kept>>

RootsOnly == kept \cap Roots   \* a slip

\* updateBlock filters the phi statements and the others of a block, the flow
\* statement is not asked for.
Remaining == kept \cap (marked \cup Block)

Remove ==
  /\ stage = "spread"
  /\ queue = {}
  /\ stage' = "done"
  /\ kept' = Remaining
  /\ UNCHANGED <<code, queue, marked>>

Next == Collect \/ (\E s \in Statement : Spread(s)) \/ Remove

Spec == Init /\ [][Next]_vars

-----------------------------------------------------------------------------

TypeOK ==
  /\ code \in Code
  /\ stage \in {"collect", "spread", "done"}
  /\ queue \in SUBSET marked
  /\ marked \in SUBSET Statement
  /\ kept \in SUBSET Statement

\* A set of statements a function can do with.
Sufficient(S) ==
  /\ Effects(code) \cup Block \subseteq S
  /\ \A s \in S : code.uses[s] \subseteq S

\* What is kept at the end is sufficient: no operand is left undefined.
NothingDangles == stage = "done" => Sufficient(kept)

\* Nothing is ever marked that a sufficient set can do without, phi statements
\* that only feed each other included.
OnlyNeededIsMarked ==
  \A S \in SUBSET Statement : Sufficient(S) => marked \subseteq S

=============================================================================

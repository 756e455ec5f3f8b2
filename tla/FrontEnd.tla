------------------------------- MODULE FrontEnd -------------------------------
(***************************************************************************)
(* compiler_work up to the optimizer: the tree of a function is checked,   *)
(* folded and lowered to blocks.  Then the blocks are run on an input, and *)
(* what they do is compared with what the function means.                  *)
(***************************************************************************)
EXTENDS Syntax

CONSTANTS
  Programs,      \* a sequence of trees
  Inputs,        \* what the calls may return, in their order
  FormatLimit

Checker == INSTANCE ASTchecker
Folder  == INSTANCE ConstantFolder
Builder == INSTANCE IRbuilder

VARIABLES
  program,   \* the tree given to the compiler
  stage,     \* how far the compiler is
  tree,      \* the tree as it is now
  code,      \* what the builder made
  input,     \* what the calls return when the code is run
  meaning,   \* what running the tree does on that input
  run        \* the run: block, the block before, environment, outputs

vars == <<program, stage, tree, code, input, meaning, run>>

Init ==
  /\ program \in Range(Programs)
  /\ stage = "parsed"
  /\ tree = program
  /\ code = Null /\ input = Null /\ meaning = Null /\ run = Null

\* check_input.  A semantic_check that fails ends the compiler.
Check ==
  /\ stage = "parsed"
  /\ LET checked == Checker!VisitFunctionDef(program)
     IN  /\ stage' = IF checked.ok THEN "checked" ELSE "rejected"
         /\ tree' = IF checked.ok THEN checked.node ELSE tree
  /\ UNCHANGED <<program, code, input, meaning, run>>

\* optimize_AST.  The host may also end the compiler at the least word divided by -1,
\* as any behaviour may end here.
OptimizeAST ==
  /\ stage = "checked"
  /\ stage' = "folded"
  /\ \E host \in Word : tree' = Folder!Fold(tree, host)
  /\ UNCHANGED <<program, code, input, meaning, run>>

BuildIR ==
  /\ stage = "folded"
  /\ stage' = "built"
  /\ code' = Builder!VisitFunctionDef(tree)
  /\ UNCHANGED <<program, tree, input, meaning, run>>

Destinations == {stmt.dest : stmt \in UNION {Range(code.data[b]) \cup Range(code.phi[b]) : b \in DOMAIN code.data}}

\* What the function finds: its arguments, by negative names, and memory.
Given(in) ==
  [x \in -Len(Parameters(program)) - program.v..-1 |-> IF x = -1 /\ program.v = 1 THEN Self ELSE in[-x - program.v]]
    @@ [c \in DOMAIN Memory(program) |-> Memory(program)[c][2]]

Start(in) ==
  /\ stage = "built" /\ input = Null
  /\ input' = SubSeq(in, Len(Parameters(program)) + 1, Len(in))
  /\ meaning' = MeaningOf(program, in)
  /\ run' = [at |-> Entry, from |-> Null, out |-> <<>>, env |-> Given(in) @@ [x \in Destinations \ {Null} |-> Null]]
  /\ UNCHANGED <<program, stage, tree, code>>

\* What the calls return from here on; nothing is known behind the input.
NextInputs == [i \in Nat |-> IF i + Len(run.out) <= Len(input) THEN input[i + Len(run.out)] ELSE Null]

Way(cond) ==
  LET flow == code.flow[run.at]
  IN  CASE flow.op = "jump" -> flow.to[1]
        [] flow.op = "branch" /\ cond # Null -> flow.to[cond + 1]
        [] OTHER -> Null

\* One block.  The run ends when it has given more than the tree does.
RunOn ==
  /\ stage = "built" /\ run # Null /\ run.at # Null
  /\ Len(run.out) <= Len(meaning.out)
  /\ LET b    == run.at
         ran  == RunBlock(run.env, code.phi[b], code.data[b], run.from, NextInputs)
         cond == ValueOf(ran.env, code.cond[b])
     IN  run' = [at |-> Way(cond), from |-> b, env |-> ran.env,
                 out |-> run.out \o (IF code.flow[b] = Return THEN Append(ran.out, <<cond>>) ELSE ran.out)]
  /\ UNCHANGED <<program, stage, tree, code, input, meaning>>

Next ==
  \/ Check
  \/ OptimizeAST
  \/ BuildIR
  \/ \E in \in Inputs : Start(in)
  \/ RunOn

Spec == Init /\ [][Next]_vars

-----------------------------------------------------------------------------

\* What the code gives its calls, and returns, is what the tree says: as far as
\* both have come, and nothing is missing at the end.
RunsAsWritten ==
  stage = "built" /\ run # Null =>
    LET common == Min({Len(run.out), Len(meaning.out)})
    IN  /\ Agrees(SubSeq(meaning.out, 1, common), SubSeq(run.out, 1, common))
        /\ run.at = Null => Len(run.out) >= Len(meaning.out)
        /\ run.at = Null /\ meaning.st = "return" => Len(run.out) = Len(meaning.out)

\* A tree that the checker accepts never meets a name that is not declared, or
\* twice in one block, a value of the wrong type or a break outside a loop.
AcceptedNeverGoesWrong ==
  stage = "built" /\ meaning # Null => meaning.st \notin {"wrong", "break", "continue"}

\* The blocks the builder leaves: each has one flow statement, which leads to
\* blocks of the function, and phi statements with an entry per predecessor; no
\* assertion of the builder failed.  Where a function with a result ends without
\* one, its last block stays without.
Preds(b) == {p \in Range(code.list) : b \in Range(code.flow[p].to)}

BlocksAreWhole ==
  stage = "built" =>
    /\ ~code.failed
    /\ IsInjective(code.list)
    /\ \A b \in Range(code.list) :
         /\ code.flow[b] # Builder!NoFlow \/ (~IsMain(program) /\ program.t # "void" /\ b = Last(code.list))
         /\ Range(code.flow[b].to) \subseteq Range(code.list)
         /\ \A p \in Range(code.phi[b]) : DOMAIN p.from = Preds(b)

=============================================================================

# Verification of the Koishi compiler

Koishi translates the language Mx to LLVM IR and, later, to RISC-V. It is a
sequential batch program: it reads one source, keeps nothing between runs and
starts no threads. What makes it hard to get right is not concurrency but
protocol: a tree is checked, folded and lowered to blocks, and sixteen optimizer
passes rewrite one shared graph of blocks in place,
each relies on what the passes before it left, and each iterates until
something no longer changes. This directory holds TLA+ models of these
steps, the TLC configurations that check them and the proofs that TLAPS
checks.

## The system

| Part | State it keeps | Operations | Interacts with |
|------|----------------|------------|----------------|
| AST (`ASTchecker`, `constantFolder` and the tree) | tree, scopes, class map, loop stack | build from the parse tree, check, fold constants | IR generation |
| IR generation (`src/IR/IRbuilder.cpp`) | functions, globals, current block, last value, `branch_stack`, `loop_stack` | one visitor per AST node | fills the IR pool |
| IR pool and nodes (`src/IR`, `include/IR`) | blocks with their `phi`, `data`, `flow`, `prev`, `next`, `dom`, `fro`, `idom`; a stack of free blocks; a static dummy block; a hidden pointer per node | allocate, deallocate, visit, update | shared by all passes |
| `unreachableRemover`, `CFGbuilder` | `visit0`, `visit1`, `edges` | mark undefined behaviour, two searches, removal, repair of phis and branches | runs before and between the other passes |
| `dominantMaker` | `rpo`, `visited`, a bitset pair per block | link, number, iterate, build, unlink | mem2reg, ADCE, GVN and loops read its result |
| `mem2regPass` | `phiMap`, `varMap`, `useMap` | place phis, rename, remove | needs dominators |
| `DeadCodeEliminator`, `AggressiveElimination` | work queues of statements and of blocks | mark, spread, remove; ADCE also redirects jumps | ADCE runs a post-dominator analysis and `unreachableRemover` |
| `ConstantPropagatior` | `defMap`, `blockMap`, two work lists | SCCP, copy propagation | needs dominators for copies |
| `CFGsimplifier` | `remap` | merges chains of blocks | relies on `next` and `prev` |
| `LoopNestDetector`, `GlobalCodeMotionPass` | loop infos; `defMap`, `newList` | detect loops; schedule early, late, arrange | need dominators |
| `GlobalValueNumberPass`, `memorySimplifier`, `algebraicSimplifier` | `cseMap`, `defMap`, `memMap`, `deadStore` | number, forward stores, simplify | need dominators |
| `GlobalConstantReplacer` | `useSet`, `valMap` | find globals stored once, replace their loads | all functions at once |
| `optimizer` | the order of the passes | `DoOptimize` | everything above |
| grammar, runtime library | none of the compiler's | | |

Hard behaviours: fixpoint iterations whose result must not depend on an order
(dominators, dead code, phi placement, SCCP); data structures read while they are
changed or after they were (edges exchanged for a post-dominator analysis, the
dummy block in every list, blocks deallocated with phi entries still naming
them); conditions one pass establishes and another asserts; passes called
again on their own output; machine integers in the folding and rewriting rules;
conditions lowered through a stack that nested expressions share.

What makes each part correct:

- *unreachableRemover*: it keeps exactly the blocks on some way from the entry
  to a return; phi entries and predecessors agree; what it leaves is what a
  dominator analysis needs; called again it finds nothing to do.
- *dominantMaker*: dominators, frontiers, immediate dominators are those of the
  definition, for any order of the walk and any number of rounds; the edges of
  the function are left as they were.
- *dead code elimination*: what is kept is closed under use and, for the
  aggressive one, under control; redirected jumps reach the block that every way
  through the removed ones reaches; the function's effects are the same.
- *mem2reg*: the value a load is replaced by is the last one stored on every way.
- *SCCP*: a value taken for a constant is that constant on every run; a copied
  definition dominates the use.
- *GVN*: an expression is replaced only by an equal one that is available.
- *CFG simplification, code motion, loops*: every definition still dominates its
  uses, phi entries name predecessors.
- *constant replacement*: a global variable taken for a constant is that constant
  whenever it is read.
- *checker, folder, builder*: what the checker accepts has a meaning; the blocks
  the builder leaves are whole and do what the source says.
- *flags*: `has_dom` and the others hold only while the analysis is valid.

## How the models are built

Two kinds of models serve two kinds of questions. Where the question is about the
graph (dominators, reachability, what is live, what is merged), blocks are
model values with a flow statement (`Return`, `Jump`, `Branch`, or `Unreachable`)
and statements are model values with a kind, the block they are in and the
statements whose results they use. Where it is about values (promotion,
propagation, numbering, motion, the front end), a statement has an operator and
operands, and `Execution` says what it does: after a pass the function as it was
and as it is now are run next to each other, block by block, over every input,
and what their calls are given is compared. A value the first run does not
know (not initialized, or undefined in the language) may become anything. This is
the one question all these passes have to answer alike, so they share one
property, `RunsAgree` (in `Mem2Reg`, `SameReads`).

A vector of blocks that the code treats as a set (`prev`, `next`, `dom`, `fro`)
is a set, except where its order matters: `rpo` is a sequence. Where the code
walks a vector or takes from a queue in an order the result must not depend on,
the model takes the elements in any order; so the checks and proofs cover every
order the code could take, the actual one included. An order that comes from
hashes of pointers is a choice as well (`swap` in `LastPart`).

The reference notions of `FlowGraph` are stated by closed sets: a node is
reachable iff it lies in every set of nodes that holds the root and that no
edge leaves, and `d` dominates `n` iff some set that may be left only into `d`
misses `n`. This is the textbook definition by paths without a path, so no
definition is recursive and all of them can be proved about.

Operators commented as *a slip* are not part of the model. Each is what its
neighbour would be after a plausible mistake in the code (a dropped condition,
a swapped order, a stale list); replacing the neighbour by it makes one
property fail, which shows that the property depends on that line of the code.
`PROJECT.json` lists the pairs.

## Modules

| Module | Models | Role |
|--------|--------|------|
| `FlowGraph` | flow statements, edges with the dummy block | the function's skeleton; reachability, dominance, frontiers and natural loops as definitions |
| `DominatorTree` | | abstract: one step answers with the right dominators |
| `Dominant` | `dominantMaker` | detailed; implements `DominatorTree` |
| `IRFunction` | functions with phi entries and known facts | what one call of `unreachableRemover` is to do, and the facts it acts on |
| `Reduction` | | abstract: one step per call leaves the reduced function |
| `UnreachableRemover` | `unreachableRemover`, `CFGbuilder` | detailed; implements `Reduction` |
| `FunctionCode` | statements, their blocks, kinds and operands | shared by the two eliminations |
| `DeadCodeEliminator` | `DeadCodeEliminator`, `work_queue` | mark and sweep over statements |
| `AggressiveElimination` | `AggressiveElimination`, `FailBuilder` | composes with `DominatorTree`'s answer and `Reduction`'s result: two queues, redirected jumps |
| `CFGsimplifier` | `CFGsimplifier`, `IRpool::deallocate` | merging chains while walking them |
| `Pipeline` | `DoOptimize`, every pass's `checkProperty` and `setProperty` | which stored analysis is true, which flag says so, who reads it |
| `Words` | the target's integers | operators on words of `Width` bits, with what is undefined |
| `Execution` | IR statements and operands | what a block does to an environment, what its calls are given |
| `Mem2Reg` | `mem2regPass` | from the frontiers to promoted locals |
| `ConstantPropagator` | `ConstantPropagatior`, `ConstantCalculator` | two work lists, the rules, the guarded copies |
| `LoopNestDetector` | `LoopNestDetector` | four loops over the blocks: latches, bodies, nesting, depths; searches by bisection |
| `PipelineSteps` | `DoOptimize` | composes `Pipeline` and `LoopNestDetector`: the steps of the detector in the place of its pass |
| `CodeMotion` | `GlobalCodeMotionPass` | early, late, the choice of the block, the order in it |
| `AlgebraicSimplifier` | `algebraicSimplifier`, `number_t` | the rules of every operator |
| `MemorySimplifier` | `memorySimplifier` | aliasing, known values, dead stores |
| `ValueNumbering` | `GlobalValueNumberPass` | the walk of the dominator tree over both of these |
| `ConstantReplacer` | `GlobalConstantReplacer` | which globals are constants |
| `LastPart` | the end of `DoOptimize` and `optimize_IR` | composes the five modules above into one sequence of passes, on the loops that `LoopNestDetector` promises |
| `Syntax` | the AST's nodes | trees, and what a program means: values, arrays, objects, calls |
| `ASTchecker` | `ASTchecker`, `scope`, `type_checker` | names, members, types, assignability, loops |
| `ConstantFolder` | `constantFolder` | operators on literals, on the tree |
| `IRbuilder` | `IRbuilder`, `ExpressionLength` | from the tree to blocks |
| `FrontEnd` | `compiler_work` up to the optimizer | composes the four modules above |
| `FlowGraphProofs` | | lemmas on graphs, closed sets, dominance, frontiers and loops |
| `DominantProofs`, `UnreachableProofs`, `PipelineProofs` (with `DeadCodeEliminator` and `LoopNestDetector`), `AggressiveProofs`, `CFGsimplifierProofs`, `Mem2RegProofs`, `ConstantPropagatorProofs` | | theorems |
| the modules named `MC...` | | instances for TLC |

The modules meet at what each pass is promised and what it leaves.
`UnreachableRemover` leaves what `Dominant` asks for (`ReadyForDominators` says
that `WellFormed` holds of its result); `Dominant` answers as `DominatorTree`,
and `AggressiveElimination` starts from that answer and ends with the result of
`Reduction`; `CFGsimplifier` starts from such a result; `Mem2Reg`,
`ConstantPropagator`, `LoopNestDetector` and `LastPart` start from that answer too, and
`LastPart` takes the loops as `LoopNestDetector` leaves them (`LoopsAround`). `Pipeline` checks
that the passes are run in an order in which each finds what it needs. `FrontEnd`
ends with what the optimizer is given.

State and actions correspond to the code like this:

- **Dominant.** `Link` is `initEdge`, with `reverseCFG` and the move of the dummy's
  list for a post analysis; `Enter` and `Leave` are a call of `makePostOrder` and
  its return, with the call stack in `stack`; `StartIterate` numbers the nodes
  and fills the bitsets; `Update` is `update` on the node at `cursor`;
  `EndRound` is the test of the do-while; `BuildDomTree` and `RemoveDummy` end
  the constructor.
- **UnreachableRemover.** One action per loop of the constructor; the two searches
  visit one block per step. A call is given a function and at most one fact
  about a block (undefined behaviour in it, or a constant condition), which
  stands for what the passes since the last call found out.
- **DeadCodeEliminator, AggressiveElimination.** One action per element taken from
  a queue, one per loop over the blocks. The assertion in `__spread_block` is a
  move to the stage "error".
- **CFGsimplifier.** `Visit` is a call of `dfs`, `Merge` one turn of its while
  loop with the deallocation, `Descend` the end of that loop; `Finish` is `update`
  on all blocks and `remove`. Calls that the recursion has still to make are in
  `pending`. A deallocated block has flow `Null` and empty lists, as the pool
  resets it.
- **Mem2Reg.** `SpreadDef` is the loop of `spreadDef` over the blocks; `SpreadPhi`
  one block taken from the work list of `spreadPhi`; `StartRename`, `Descend` and
  `Leave` are a call of `rename`, a turn of its loop over the successors with
  `spreadBranch` (and the call it may make) and its return, with `__bak` and the
  successors left in `calls`; `updateBlock` is part of the call. The assertion
  in `updateBlock` is a move to "error". `InsertPhi` is `insertPhi` on all blocks.
- **ConstantPropagator.** `InitInfo` is the constructor up to the work lists;
  `UpdateCFG` takes an edge, `UpdateSSA` a use; as in the code the list of uses is
  emptied before the next edge is taken. `ModifyValue` replaces the uses. The
  visitors are operators on a record of the analysis's state (`Visit`, `TryUpdate`);
  `new` is the function as they see it, after `killSinglePhi`.
- **LoopNestDetector.** `Turn` is a turn of one of the constructor's four loops over
  `rpo`, `NextPass` the end of one. The code takes the blocks in the order of `rpo`
  each time; the model takes any block whose dominators were taken before, which is what
  `NumberingSound` says of `rpo`. `Pop` is one block off the queue of
  `detectLoopBody`; `Climb` is a turn of the while loop of `detectLoopNest` or of
  `buildTree`, `SetParent` and `SetLoop` what follows that. A `loopInfo` is named by its header. A
  body is a set: that its vector may hold a latch twice changes no search. Whether
  the vector is sorted is kept in `sorted`.
- **PipelineSteps.** `PassRuns` is a pass of `Pipeline`, `DetectLoops` a step of
  `LoopNestDetector`'s constructor, for whose end the next pass waits. The flow it works on is
  any of `LoopPrograms`: what the passes before it may have left.
- **LastPart.** One action per pass, and three for code motion, whose results the
  properties look at: linking, scheduling, moving. What a pass does is an
  operator of its own module: it walks a tree or a list without anyone else
  taking part, so intermediate states would show nothing.
- **FrontEnd.** One action each for the checker, the folder and the builder, which are
  visitors and become recursive operators over trees, one per `visit` method.
  What a visitor keeps in members is a record that is handed on: `scopes`, `loops`
  and the count of variables in the checker; `value`, `lvalue`, `branches`, `loops`,
  the current block and the blocks so far in the builder.
  Names refer to cells of an environment, arrays and objects to cells of memory;
  what the program and its code compute are addresses in the same memory, as both
  allocate in the same order. A function is given the first of its inputs, a member
  function an object that leads to itself; a call returns the next input.
- **Pipeline.** One action per pass, run in the order of `DoOptimize`; `facts` is
  what is really true of the stored lists, `flags` and `is_post` what the function
  says. A pass that may find nothing to do is a choice.

## What is checked

All runs stop where the constructor returns, so deadlock is not checked.

| Run | Instance | Shows |
|-----|----------|-------|
| `dominators` | 5 blocks: one return and an entry that branches; or edges back to the entry, two returns, double edges; both directions; any order of the walk | the iteration loses no dominator and ends on exactly the dominators; edges restored; refinement of `DominatorTree`; termination |
| `unreachable_remover` | 4 blocks, two calls, a fact at most about one block at each | refinement of `Reduction`; phi entries match predecessors; the result is ready for dominators; a call that learns nothing changes nothing |
| `dead_code` | 3 statements of any kind, any relation of use with at most 2 operands, a branch | exactly the least sufficient set is kept |
| `aggressive_elimination` | 4 blocks, one effect, one phi or plain statement, any place | no operand dangles, the assertion holds, jumps meet the same next live block, phi entries match, only what is needed is live, the queues run dry |
| `cfg_simplifier` | 4 blocks, any phi statements, any order of the walk | no freed block is met; edges, phi entries, bodies right; nothing left to merge |
| `pipeline` | the passes at every level; for `LoopNestDetector` 6 blocks: all graphs of three inner blocks, and loops nested in and next to each other, walked in any order that has dominators first | flags, readers, assertions; each block gets its innermost loop, each loop its parent and depth; no body is searched before it is sorted |
| `promotion` | 6 blocks: all graphs of three inner blocks, and three nested loops; two locals, stored, loaded, copied to each other; any branch taken | no phi statement is lost, reads stay the same, the assertion fails only on locals no store can reach before |
| `constant_propagation` | a diamond and a loop with every kind of value on every edge; two phi statements of one operand, one the other's, behind a loop; every operator on 0, 1, -1, 2, the least word, an argument and an undefined value; with and without dominators | calls are given the same and branches decided as before, values only fall, nothing is left to do when the lists are empty |
| `constant_propagation_late` | loops with an entry that is undefined | the violation described below |
| `last_part` | 6 blocks: nested, neighbouring and shared loops; expressions of two operators; three accesses through addresses that may be the same; two global variables | the passes keep what calls are given; every statement finds a legal block, and none a deeper one |
| `front_end` | nearly 6,000 small functions (see `MCFrontEnd`), each on 16 inputs: conditions, loops, operators, names, arrays, objects, parameters, member functions | code does what the source says; accepted programs do nothing wrong; blocks are whole |
| `front_end_negated` | negated conjunctions, and conditions within arguments | the violation described below |

*Why these bounds.* Five blocks hold the loops with two entries on which the second
round of the dominator iteration still changes a bitset. Four hold a branch with
two dead sides and a live block behind them, which a redirected jump has to skip
to. With four blocks there is a chain of
three, so a block already merged is followed by another and a renaming must go
two links back, next to a join; a diamond and a loop also fit. Four blocks let
`unreachableRemover` cut one side of a loop or of a diamond. Three statements
give cycles of phi statements that are kept, and that are not. The pipeline is
finite as it is. Words have 3 bits in `constant_propagation` and `front_end`:
-4 to 3 holds 0, 1, -1, the least word, shifts within and beyond the width
and every kind of wrap. `last_part` has 8 bits, so that constants of rewritten
expressions stay apart. Three nested loops are the least in which a body is
searched two levels out (`pipeline`), and in which `rename` comes back to a head twice; two
loops side by side share a block that belongs to neither, and a block may carry a
loop of its dominator that it has left. Three accesses to
memory are a store, one that may read it, and one that would make it dead. Three
parts of a condition nest one short circuit in either side of another. Two
statements between those that fill an array or an object and those that read it
back change what a name, an element or a member refers to and then use it; arrays
of two with arrays as elements, and an object that leads to itself, give two ways
to one cell. Memory comes in pieces of four cells, which no program here exceeds
without being stopped.
Functions that a mirrored branch makes equal are taken once
wherever successors are taken in any order.

*Fairness.* `Terminates` (dominators) is checked under weak fairness of `Next`, and
`QueuesRunDry` (aggressive dead code elimination) under weak fairness of a turn
of the loop. The compiler is one thread that runs a constructor to its end, so a
step that can be taken is taken; nothing is assumed about the order of steps. That
constant propagation ends follows from `ValuesOnlyFall`, which is proved, without fairness: each
temporary changes its value at most twice and each edge is visited once.

## Where the code and its words differ

- **Copies of late definitions** (`constant_propagation_late`). `sccp.cpp:175` means to
  "Avoid invalid copy propogation." by asking whether the block of the copied
  definition dominates that of the use. For `r = phi(undefined from the entry, q from
  the latch)` the calculator leaves the undefined entry out and takes `r` for `q`. A
  use of `r` means the `q` of the turn before; where `q`'s block dominates it, it
  becomes the `q` of this turn. `mem2reg` makes such entries from
  variables that are declared without a value. The run `constant_propagation` has no
  undefined phi entries in loops, and its property holds.
- **Negated conditions** (`front_end_negated`). `!` in a condition exchanges the
  targets at the top of `branch_stack` ("Branch case: Optimized.",
  `IRbuilder.cpp:430`) after its operand is visited; `&&` and `||` in it have
  built a branch with the old ones. `if (!(a && b))` goes wrong when `a` is false. A
  single negated part is right, and so is a negated value outside of conditions.
- **Conditions in arguments** (the same run). The stack stays as it is while the
  arguments of a call in a condition are visited: `if (f(!a))` calls `f(a)` and branches
  the other way, `if (f(a && b))` leaves for the targets of the `if` without the call.
- **Arrays of three dimensions.** The phi statement of `visitNewArray`
  (`IRbuilder.cpp:986`) names the first block of the loop's body, not the last.
- **Null on the left of a ternary.** The phi statement of `visitTernary`
  (`IRbuilder.cpp:627`) takes the type of the left value. The checker accepts
  `(c ? null : p).m`; the builder fails on it.
- **Members found outside.** `visitMember` (`ASTchecker.cpp:206`) searches the class's
  scope and those around it, so `p.f(1)` is accepted for a global `f`, and `p` is
  never evaluated. On a value of type `int`, `bool` or null there is no scope to search,
  and the checker follows a null pointer; the model takes that for a rejection.
- **Folding away effects.** `visitArithSingle` (`folder.cpp:175-189`) makes `x * 0`,
  `x & 0`, `x | -1`, `x % 1` literals whatever `x` does.
- **A ternary that is called.** `(c ? f : f)()`, and `(c ? f : null)()`, pass the
  checker, for each function has a type of its own (`ASTchecker.cpp:408`) and null
  fits it; the builder calls `f` and never evaluates `c` (`IRbuilder.cpp:376`). No
  instance has one. `(c ? f : g)()` is rejected, which instances show.
- **The sizes of an array.** `visitConstruct` evaluates the sizes of
  `new int[f()][g()]` from right to left, and so does its model. `Constructed`, the
  meaning of `new`, takes them from left to right, as other operands. No instance has calls, or effects on one another, in two sizes.
- **Undefined operations of the compiler.** Where an operation on literals is
  undefined, the folder evaluates it on its host and goes on with whatever it got
  (`folder.cpp:125-134`). `OptimizeAST` takes any word for that, the same one all
  over a tree; the least word divided by -1 may also stop the compiler. What the
  program means is undefined there. Only divisions by zero stay in the tree.
- **Differences.** `visitSUB` (`addsub.cpp:105`) takes `(-y) - x` for `(-y) - y`.

Some more rules of the optimizer are right only for part of their inputs. The
instances of `last_part` keep to that part, which `Wrong` in `MCLastPart` and the
values there spell out: `(c << x) << d` and `(c >> x) >> d` lose `x`
(`bitwise.cpp`); `(x << c) * d` shifts the wrong way round, and a divisor that is
the product of two may wrap (`muldiv.cpp`); `(x >> c) >> d` with a sum beyond the
width; quotients of `x * c` and `0 - x`, for which a pattern that fails has bound
part of itself. `analyzeStore` (`memory.cpp:140`) drops a store whose value a phi
statement got through a load; `mayAliasing` takes an object from `new` to differ from
every result of a call, which may be the same object. `main` called recursively would run
`._Global_Init` again, and a constant global without an initial value makes
`gcr.cpp` throw; neither occurs here.

## What is proved

The theorems hold for every set of
blocks and statements and all `Programs` that meet the modules' assumptions:
`BlockAssumption` (the entry is a block, the dummy and the null pointer are none),
`StmtAssumption` (statements are no blocks) and each module's `ProgramAssumption`.
All but plain dead code elimination ask for well-formed functions: every block lies
between the entry and a return. `Mem2Reg` needs the frontiers of the
flow, an order of all blocks, and finitely many blocks and locals; `NullAssumption`
says that the null pointer is no operand. `CFGsimplifier` also
needs that blocks are
finitely many (it compares the size of a list with 1), that no branch has one
target twice and that no block leads to the entry, as IR generation and
`unreachableRemover` leave it. `StatementsAssumption` of `Mem2Reg` says that the
function is what `IRbuilder` makes: a temporary has one definition, which is run
before each use, and only loads and stores name locals; phi statements
have an operand for each predecessor. `ReadyForDominators` shows that of `unreachableRemover`'s result.

**Dominators.** `Refinement`: `dominantMaker` implements `DominatorTree`. The
property itself is not inductive, for it speaks of the last state; `Inv` says, of
each stage, what has been done so far. Three parts carry it:

1. *The walk* (`Walking`, `Ancestors`). A node is numbered after all its successors
   have been met, so when the stack is empty what was met is closed, which is
   everything. The dominators of a node on the stack lie below it on the stack,
   those of a numbered node on the stack or behind it in `rpo`: hence
   `NumberingSound`.
2. *The bitsets lose no dominator* (`DominatorsKept`). What dominates `n` is `n` or
   dominates each of its predecessors, so the meet keeps it.
3. *A round without a change is enough* (`IterationExact`). While no bitset has
   changed in a round, those before the cursor fit their equation. If all fit,
   the nodes without `d` in their bitset form a set that may be left only into
   `d` and holds the root, and so `d` dominates only nodes outside of it.

From exact bitsets and the numbering follow frontiers and immediate dominators:
of two dominators of a node one dominates the other (`DominatorsAreChained`), so
the last before `n` in the numbering is dominated by all others. `EdgesRestored`
and `TypeCorrect` say that nothing of the dummy or of the reversed edges is left.

**Unreachable code.** That it implements `Reduction`, and every invariant of its run.
`Inv` has one part per stage. While a search runs, what it has met is within what
is reachable; when it ends, what it has met, with the dummy, is closed
(`FirstSearchEnds`, `SecondSearchEnds`), so it is what is reachable. A block on a way
from the entry to a kept block is kept, so the ways of what is left are those of
the input within it (`WaysWithin`): the result is connected (`AlwaysReady`). A kept
block returns or has a kept target (`KeptFacts`), so a branch never loses both of
its targets (`TrimmedFacts`). `PhisFit` and `SecondCallIsQuiet` speak of several
calls: each is given what the last one left (`Handed`). The one assumption on the
first function is in `ProgramAssumption`: its phi statements have an entry
for each predecessor.

**Dead code.** `NothingLost` and `NothingSpared`: what is kept is the least set
that holds the effects and is closed under use. The invariant in the middle of the
loop: what is marked and no longer queued has had its needs marked, and what is
marked is in every sufficient set. When the queue is empty the first half becomes
closure.

**Aggressive dead code.** The same invariant for two queues that feed each other
(`NothingSpared`, `NothingMissed`): a set is sufficient when it holds effects,
returns, operands, blocks of statements, blocks before live phi statements and
the flow statements of the frontiers of live blocks. `AssertionHolds` is about
graphs: if `b` post-dominates the only target of a jump then it post-dominates the
jump's block as well, and the jump's block is not `b` itself, from which no way
would lead to a return; so a block in a post-dominance frontier
has two ways to go on, and ends in a branch (`FrontiersBranch`).

What happens to the flow rests on four facts about the chain that `getFail` follows.
A stop (a return, a live branch, or a block that has something live) is never taken
away. A flow statement that is dead decides nothing: all its ways meet the same
stop next, or else a block among them would have the branch in its frontier and be
live. A block that is no stop leads to the nearest stop among its post-dominators,
which exists since the return is one (`NearestAndFarthest`, `ClimbExists`). And the
blocks that meet a given stop next, with the stop, are a closed set. From these follow
`LiveBlocksAreLeft`, `JumpsAreSound`, `PhiEntriesFit` and `OperandsAreLeft`.

**CFG simplification.** All five invariants, in three layers (`Inv`, `EdgeInv`,
`BodyInv`). The first says where the walk can be: it comes to a block from one
whose while loop is over (`Reached`), and a block with one predecessor is the
successor of one block only (`OneWayIn`). A block being merged has one predecessor,
and the block it is merged into is the one whose loop is running; so it was not
walked to and is not to be (`MergedIsUnknown`), which is `FreedIsForgotten`.
The second follows the names: what leads to a block that is left are the heads its
predecessors were merged into, no two of them the same (`Sourced`). From that
the renaming in `update` gives the right lists, and a list of one after the
renaming was a list of one before, so nothing is left to merge. The third says
that bodies are chains in which each block has no way on but to the next and is
its only way in. `AllBlocksMet` (every block becomes a key of `remap`) needs that
every block is reachable.

**Promotion.** `PhisAreSpread` and `PhisAreClosed`: phi statements are reserved in
every iterated frontier. A block is queued again only if its list was empty
before; that nothing is missed rests on `Waiting`, the other half of the invariant: a
block with something in its list is in the queue. A block that is not queued
again is therefore there already. `QueueKeeps` says that a queue loses only its head.

`AssertionFailsRightly`: the walk that renames is followed call by call (`WalkInv`). The
blocks of the active calls are a way from the entry, and what dominates the last of
them is among them (`OnTrail`). If a store to a local can run before a load, the load's
block is *behind* the store: a closed set of blocks (`BehindIsClosed`), in each of which
a dominator stores to the local or has a new phi statement for it
(`ReachedIsBehind`). That dominator's call has left a value in the map, and the calls
after it put others in its place but never a null pointer (`Remembered`).

`RunsReadTheSame`: `SameReads`, that a run of the promoted function
gives its calls what a run of the function as it was gives them. The walk is
described by two functions, whatever its order: `rep`, the operand each temporary
stands for, and `cur`, the value each local has after each statement of a visited
block. Three things are shown of them at every step of the walk (`Certified`):

1. *The code is what they say* (`Traced`, `DataOf`, `PhisOf`): each use of a
   temporary has its `rep`, stores and loads are gone from visited blocks. A value
   never names the temporary of a load, and what it names was defined
   where it is read (`Present`). So it makes no difference that the code replaces uses
   in the statements it had recorded before the walk, and the model wherever they are.
2. *A block begins with the values of its nearest giver* (`Placed`): without a new phi
   statement for a local, the local has the value it has at the end of the nearest
   block that dominates this one and stores to it or has a new phi statement. That is
   the same for every edge into the block, not only for the one the walk came
   by: the predecessor's givers are the block's (`EdgeGivers`), or the block were in a
   frontier and `SpreadOrQueued` would have given it a phi statement.
3. *A phi statement gets what the local has at the end of the predecessor*, once for
   each edge taken (`FilledIn`), which in the end are all.

Then the two runs go side by side (`Related`): what a local or an available
temporary has in the old one is missing, or is what its operand has in the new one. A
statement keeps this (`GoneStep`, `KeptStep`), and so do all phi statements at once
(`EntryRelated`): what they define is read by no value from above the block.

**Constant propagation.** `FallsOnly` and `Settles`, for every function that
`ProgramsAssumption` admits: dominators that are those of the flow, one definition for
each temporary, which dominates its uses, an operand for each predecessor in every
phi statement, and no edge into the entry. Where the rules end up (`RunsAgree`) is
not part of it.

That each list reaches all it should is not plain, for `killSinglePhi` replaces uses
*after* `initInfo` has made the lists of uses: what a phi statement in a block with one
predecessor defines is replaced by that statement's operand, whose list does not name
the new users. Call such a statement a relay. Nobody reads it any more, but it is
visited still, and the list of what it defines names those users. `Coverage` says that
it is enough: of each statement in a visited block, its use is listed, or a visit would
change nothing (`AtRest`), or a relay that has it in its list is still to be
visited with a change (`Awaits`). Two facts carry it. A relay of a name is *behind*
it: its value is undefined still or that of the name, as long as the name
has a known one (`Behind`); so whatever the name's value becomes, the relay has to
change too (`RelayIsMoved`), and its list is visited. And a reader's relay has been
visited whenever the reader has, for it dominates the reader (`ReadersAreTold`), which
rests on the order edges are followed in (`EdgeKeepsSourced`). When the lists are
empty no relay can be left with a change: the first one in the order of the
blocks would wait for none (`RelaysAreQuiet`). That needs `BlocksInOrder`: of two
relays, one of which copies the other, the copied one stands in an earlier block
of `function::data`. `IRbuilder` adds a block after those that dominate it, but for the
body of the loop over a new array of arrays (`visitNewArray`), added before its head;
the head's phi statement copies no relay and, as no source variable holds what it
defines, no relay copies it. Passes that
remove blocks keep the order. What `killSinglePhi`
leaves is `KillSinglePhiKills`: an operand is what it was, or
the last of a chain of relays, and never again a name that a relay defines.
Without dominators a phi statement of a name is unknown at once and relays nothing;
`Settled` then speaks of the statements `killSinglePhi` left alone. In the pipeline
the pass always has them (`CopiesArePropagated`).

**The pipeline.** No pass keeps the flags true by itself: `CFGsimplifier` merges blocks
and clears none, `GlobalCodeMotionPass` reads dominators, order and loops and makes no
analysis, and `ConstantPropagatior` guards copies only if dominators happen to be
flagged. What makes up for it is the pass before, and
`AsLeft` says what that has left: one flag after `AggressiveElimination`, a forward
analysis after each of the three that `ConstantPropagatior` may follow, the loops
and their analysis after `LoopNestDetector` (`TrustIsEarned` where it takes a stored
one). `Before` reads off the lists of passes who follows whom, so a new
order of passes is proved by a new proof of `Before`, or breaks it. The four theorems are about both lists, the
empty function and whatever each pass finds to change; `Pipeline` has no parameters, and its run
visits the same states. `StepsAreBoth` carries them over to `PipelineSteps`, and those of the loop nest.

**Loop nest.** `LoopsAreFound` and `SortedBeforeSearch`: both invariants, for every
well-formed function of finitely many blocks in which no block leads to the entry
(a loop at the entry would never have its body sorted; `IRbuilder` makes none). That
is `LoopProgramAssumption`; dominators are those of the flow. `LoopsNest` speaks of
the end. `LoopInv` says of each of the four loops over the blocks what is known behind those it
has come to (`EdgesKnown`, `BodiesKnown`, `NestKnown`, `TreeKnown`).

The body that `detectLoopBody` leaves holds all predecessors of its blocks but the header's,
and a set of that kind is the whole loop (`ClosedIsWhole`); all it takes lies in
the loop (`PredecessorInside`). A header dominates its loop (`HeaderDominates`), and what
lies between the header and a block of the loop is in the loop (`BetweenIsInside`);
so of two headers around one block the lower one lies in the upper one's
loop, and with it its own loop (`LoopsAreNested`). That is why the loops around a block form a
chain, why one parent is enough to find them all, and why a depth is their
number.

What the middle of the third loop leaves is weaker. A block that is no header
carries what its dominator carries, which may be a loop it has left. What holds is `Leads`: whoever
goes outwards from there meets every loop around the block. The loops
around a block but its own are around its immediate dominator (`DominatorInside`),
so this is handed down; and a loop that does not hold the block can be left for its
parent without missing one (`OutwardFacts`). The parents met on the way are known and
their bodies sorted, for their headers dominate the block and came before it: hence
`SearchedWhenSorted`.

`FlowGraphProofs` has what these share: the edges of a flow statement, what
dominates itself, the root and predecessors, `FrontiersBranch`, and the facts about loops.

## What is only model-checked

- Liveness (`Terminates`, `QueuesRunDry`): out of the prover's reach.
- `RunsAgree` and `RunsAsWritten`, which compare two runs. Of
  `RunsAgree` no general theorem is true: the rules are wrong for part of their inputs, which
  the instances leave out (see above).
- `CodeMotion`, `AlgebraicSimplifier`, `MemorySimplifier`, `ValueNumbering`, `Syntax`, `ASTchecker`, `ConstantFolder`,
  `IRbuilder` and what is composed of them: recursive operators over trees.

The library's induction theorems take an operator and cannot be used, but induction over
sets can: a nonempty set of numbers has a least element, and a set of dominators a
nearest one (`NearestAndFarthest`). Where a proof needs what a recursive function computes,
it shows that the function exists (`ClimbExists`, `StepsExist`, `VisitExists`) and what its steps keep.

## What is not modelled

- The order of elements in `prev`, `next`, `dom`, `fro`: no modelled pass depends on it.
- Bitsets as words (`include/bitset.h`): `Dominant` uses sets; a container has no state
  of the compiler's own.
- The pool beyond deallocation: passes that allocate blocks after one was handed
  back do not exist in the pipeline.
- Whether a statement is undefined behaviour is a fact `UnreachableRemover` is given.
- In the front end: strings; global variables and their initial values; more than one
  class, and the checks of a class's definition; types of temporaries, but for
  those that are null's. Calls do not run another body: they are outputs and inputs.
- Locals that are not simple: `mem2regPass` keeps away from them.
- Comparison rules of GVN (`compare.cpp`): commented out or called by nobody, as is
  `visitPhi`'s body and `knowledge.h`.
- A movable statement without uses in code motion, on which the code follows a null
  pointer: dead code elimination runs before and leaves none. The model would count
  it as `lost`.
- Copying the parser's tree (`ASTbuilder`), the lexer and parser (generated), the
  runtime library (not part of the compiler), printing, the command line and the
  driver's error handling: no state, or pure input and output.

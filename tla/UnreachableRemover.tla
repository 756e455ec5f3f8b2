-------------------------- MODULE UnreachableRemover --------------------------
(***************************************************************************)
(* unreachableRemover, called again and again on one function.  Its        *)
(* constructor turns blocks with undefined behaviour into dead ends and    *)
(* constant branches into jumps, searches forwards from the entry and      *)
(* backwards from the returns, drops the blocks not met by both, and then  *)
(* repairs phi statements by the edges it recorded and branches by the     *)
(* blocks it kept.                                                         *)
(*                                                                         *)
(* block::next and block::prev are the two directions of the relation cfg. *)
(* The searches take the edges in any order.  A block that was deallocated *)
(* has no flow and no phi any more.                                        *)
(*                                                                         *)
(* An operator marked as a slip is no part of the model: it is what its    *)
(* neighbour would be after a plausible mistake.                           *)
(***************************************************************************)
EXTENDS IRFunction

CONSTANTS
  Programs,  \* the functions the pass is first called on
  Calls      \* bound: how often it is called on one function

ASSUME ProgramAssumption ==
  /\ Calls \in Nat \ {0}
  /\ \A f \in Programs :
       /\ f \in Function /\ Entry \in f.data
       /\ \A b, p \in f.data : b \in Range(f.flow[p].to) => p \in f.phi[b]

VARIABLES
  input,    \* the function this call was given, for reference
  output,   \* what the last call left
  call,     \* the number of the call
  stage,    \* how far the constructor is
  data,     \* function::data
  flow,     \* block::flow
  phi,      \* per block, the entries' from in the lists of its phis
  cfg,      \* block::next and block::prev
  visit0,   \* reached from the entry; later, the blocks to keep
  visit1,   \* reaching a return
  edges     \* the recorded edges

body == <<data, flow, phi>>
frame == <<input, output, call>>
vars == <<frame, stage, body, cfg, visit0, visit1, edges>>

Init ==
  /\ input \in Programs /\ output = Null /\ call = 1
  /\ stage = "mark"
  /\ data = input.data /\ flow = input.flow /\ phi = input.phi
  /\ cfg = {} /\ visit0 = {} /\ visit1 = {} /\ edges = {}


\* CFGbuilder.
Built(blocks, stmts) == UNION {{b} \X Range(stmts[b].to) : b \in blocks}

StaleCFG == Built(data, flow)   \* a slip

\* The CFG that is searched is that of the marked blocks.
MarkedCFG == Built(data, flow')

(***************************************************************************)
(* markUB on every block, the first CFGbuilder and the call of dfs0.  The  *)
(* constructor returns at once when the function has no blocks.            *)
(***************************************************************************)
MarkUB ==
  /\ stage = "mark"
  /\ data # {}
  /\ stage' = "dfs0"
  /\ flow' = [b \in Block |-> Marked(flow[b], input.fate[b])]
  /\ phi' = [b \in Block |-> IF input.fate[b] = "ub" THEN {} ELSE phi[b]]
  /\ cfg' = MarkedCFG
  /\ visit0' = {Entry}
  /\ UNCHANGED <<frame, data, visit1, edges>>

NothingToDo ==
  /\ stage = "mark"
  /\ data = {}
  /\ stage' = "done"
  /\ output' = [data |-> data, flow |-> flow, phi |-> phi]
  /\ UNCHANGED <<input, call, body, cfg, visit0, visit1, edges>>

Dfs0(e) ==
  /\ stage = "dfs0"
  /\ e[1] \in visit0
  /\ e[2] \notin visit0
  /\ visit0' = visit0 \cup {e[2]}
  /\ UNCHANGED <<frame, stage, body, cfg, visit1, edges>>

\* dfs0 has returned; dfs1 is called on every block that returns.
StartDfs1 ==
  /\ stage = "dfs0"
  /\ \A e \in cfg : e[1] \in visit0 => e[2] \in visit0
  /\ stage' = "dfs1"
  /\ visit1' = {b \in data : flow[b].op = "return"}
  /\ UNCHANGED <<frame, body, cfg, visit0, edges>>

Dfs1(e) ==
  /\ stage = "dfs1"
  /\ e[2] \in visit1
  /\ e[1] \notin visit1
  /\ visit1' = visit1 \cup {e[1]}
  /\ UNCHANGED <<frame, stage, body, cfg, visit0, edges>>

ForwardOnly == visit0   \* a slip

Kept == visit0 \cap visit1

RemoveBlock ==
  /\ stage = "dfs1"
  /\ \A e \in cfg : e[2] \in visit1 => e[1] \in visit1
  /\ stage' = "record"
  /\ visit0' = Kept
  /\ data' = data \cap visit0'
  /\ flow' = [b \in Block |-> IF b \in data' THEN flow[b] ELSE Unreachable]
  /\ phi' = [b \in Block |-> IF b \in data' THEN phi[b] ELSE {}]
  /\ UNCHANGED <<frame, cfg, visit1, edges>>

\* recordCFG: the edges between kept blocks, as they were before updateCFG.
RecordCFG ==
  /\ stage = "record"
  /\ stage' = "phi"
  /\ edges' = {e \in cfg : e[1] \in data /\ e[2] \in visit0}
  /\ UNCHANGED <<frame, body, cfg, visit0, visit1>>

FromKeptBlocks(b) == phi[b] \cap visit0   \* a slip

KeptPhi(b) == phi[b] \cap {p \in Block : <<p, b>> \in edges}

UpdatePhi ==
  /\ stage = "phi"
  /\ stage' = "cfg"
  /\ phi' = [b \in Block |-> IF b \in data THEN KeptPhi(b) ELSE phi[b]]
  /\ UNCHANGED <<frame, data, flow, cfg, visit0, visit1, edges>>

DeadTargetsOnly(stmt) ==   \* a slip
  IF stmt.op # "branch" THEN stmt
  ELSE IF stmt.to[1] \notin visit0 THEN Jump(stmt.to[2])
  ELSE IF stmt.to[2] \notin visit0 THEN Jump(stmt.to[1])
  ELSE stmt

UpdatedFlow(stmt) ==
  IF stmt.op # "branch" THEN stmt
  ELSE IF stmt.to[1] = stmt.to[2] THEN Jump(stmt.to[1])
  ELSE IF stmt.to[1] \notin visit0 THEN Jump(stmt.to[2])
  ELSE IF stmt.to[2] \notin visit0 THEN Jump(stmt.to[1])
  ELSE stmt

\* updateCFG on every block left, the second CFGbuilder and the return.
UpdateCFG ==
  /\ stage = "cfg"
  /\ stage' = "done"
  /\ flow' = [b \in Block |-> IF b \in data THEN UpdatedFlow(flow[b]) ELSE flow[b]]
  /\ cfg' = Built(data, flow')
  /\ output' = [data |-> data, flow |-> flow', phi |-> phi]
  /\ UNCHANGED <<input, call, data, phi, visit0, visit1, edges>>

\* The next call of the pass, a new object on what the last one left.
CallAgain ==
  /\ stage = "done"
  /\ call < Calls
  /\ \E b \in Block, fate \in Fate : input' = Learned(output, b, fate)
  /\ call' = call + 1
  /\ stage' = "mark"
  /\ visit0' = {} /\ visit1' = {} /\ edges' = {}
  /\ UNCHANGED <<output, body, cfg>>

Next ==
  \/ MarkUB
  \/ NothingToDo
  \/ \E e \in cfg : Dfs0(e)
  \/ StartDfs1
  \/ \E e \in cfg : Dfs1(e)
  \/ RemoveBlock
  \/ RecordCFG
  \/ UpdatePhi
  \/ UpdateCFG
  \/ CallAgain

Spec == Init /\ [][Next]_vars

-----------------------------------------------------------------------------

TypeOK ==
  /\ input \in Function
  /\ output \in [data : SUBSET Block, flow : [Block -> FlowStmt], phi : [Block -> SUBSET Block]]
       \cup {Null}
  /\ call \in 1..Calls
  /\ stage \in {"mark", "dfs0", "dfs1", "record", "phi", "cfg", "done"}
  /\ data \in SUBSET Block
  /\ flow \in [Block -> FlowStmt]
  /\ phi \in [Block -> SUBSET Block]
  /\ cfg \in SUBSET (Block \X Block)
  /\ visit0 \in SUBSET Block
  /\ visit1 \in SUBSET Block
  /\ edges \in SUBSET cfg

\* After a call the phi statements have an entry for each predecessor and no
\* other, whatever became of the branches behind the entries.
PhiMatchesPreds ==
  stage = "done" => \A b \in data : phi[b] = {p \in Block : <<p, b>> \in cfg}

\* What a call leaves is what dominantMaker needs: the entry is still there, no
\* flow leads out of the function, every block is reachable and reaches a
\* return.  Else its assertion on the predecessors fails.
ReadyForDominators ==
  stage = "done" /\ data # {} =>
    LET alive == {e \in ForwardEdges(flow) : e[1] \in data}
    IN  /\ Entry \in data
        /\ cfg \subseteq data \X data
        /\ Reachable(alive, Entry) = data \cup {Dummy}
        /\ Reachable(Backwards(alive), Dummy) = data \cup {Dummy}

\* A call that learns nothing changes nothing: the optimizer calls the pass
\* twice in a row, and the second call has nothing left to do.
QuietCallChangesNothing ==
  /\ stage = "done" /\ call > 1
  /\ \A b \in input.data : Marked(input.flow[b], input.fate[b]) = input.flow[b]
  => output = [data |-> input.data, flow |-> input.flow, phi |-> input.phi]

\* A call does what Reduction promises, in the step that ends it.
returned == stage = "done"

Promise == INSTANCE Reduction WITH returned <- returned
RefinesReduction == Promise!Spec

=============================================================================

----------------------------- MODULE CFGsimplifier -----------------------------
(***************************************************************************)
(* CFGsimplifier: a walk from the entry merges every block with its only   *)
(* successor as long as that has no other predecessor and no phi           *)
(* statement, and hands the merged block back to the pool while the walk   *)
(* goes on; then predecessors and phi entries are renamed by what the walk *)
(* remembers in remap, and the merged blocks leave the function.           *)
(*                                                                         *)
(* The walk is recursive: pending is what the loops of all active calls    *)
(* have still to take, in any order.  Of a block's statements the model    *)
(* keeps only which blocks they were in at first.                          *)
(***************************************************************************)
EXTENDS FlowGraph, SequencesExt

CONSTANT Programs   \* the functions the pass is called on: flow, and where phis are

Preds(f, b) == {p \in Block : b \in Range(f[p].to)}

\* What unreachableRemover leaves of what IRbuilder builds: no branch has one
\* target twice, and no block leads to the entry.
ASSUME ProgramAssumption ==
  /\ IsFiniteSet(Block)
  /\ Null \notin FlowStmt
  /\ \A c \in Programs :
      /\ c.flow \in [Block -> FlowStmt] /\ WellFormed(c.flow)
      /\ \A b \in Block : c.flow[b].op = "branch" => c.flow[b].to[1] # c.flow[b].to[2]
      /\ Preds(c.flow, Entry) = {}
      /\ c.joins \subseteq Block \ {Entry}

VARIABLES
  input,        \* the function as it was
  stage,
  data,         \* function::data
  flow,         \* block::flow, Null for a deallocated block
  next, prev,   \* block::next and block::prev
  phi,          \* per block, the entries' from in the lists of its phis
  body,         \* block::data, as the blocks whose statements it holds
  remap,        \* CFGsimplifier::remap, Null for a block that is no key
  pending,      \* blocks dfs is still to be called on
  current       \* the block the while loop of dfs is at

vars == <<input, stage, data, flow, next, prev, phi, body, remap, pending, current>>

content == <<data, flow, next, prev, phi, body>>

Init ==
  /\ input \in Programs
  /\ stage = "walk"
  /\ data = Block
  /\ flow = input.flow
  /\ next = [b \in Block |-> Range(flow[b].to)]
  /\ prev = [b \in Block |-> Preds(flow, b)]
  /\ phi = [b \in Block |-> IF b \in input.joins THEN prev[b] ELSE {}]
  /\ body = [b \in Block |-> <<b>>]
  /\ remap = [b \in Block |-> Null]
  /\ pending = {Entry}
  /\ current = Null

\* dfs(b): try_emplace, and the return if b was there before.
Visit(b) ==
  /\ stage = "walk" /\ current = Null
  /\ b \in pending
  /\ pending' = pending \ {b}
  /\ IF remap[b] = Null
     THEN current' = b /\ remap' = [remap EXCEPT ![b] = b]
     ELSE UNCHANGED <<current, remap>>
  /\ UNCHANGED <<input, stage, content>>

IgnorePhi(b, n) == next[b] = {n} /\ Cardinality(prev[n]) = 1          \* a slip
IgnorePrev(b, n) == next[b] = {n} /\ phi[n] = {}                      \* a slip
PrevIsBlock(b, n) == next[b] = {n} /\ prev[n] = {b} /\ phi[n] = {}    \* a slip

\* The condition of the while loop.
Mergeable(b, n) == next[b] = {n} /\ Cardinality(prev[n]) = 1 /\ phi[n] = {}

Successors(n) == next[n]

Merge(n) ==
  /\ current # Null
  /\ Mergeable(current, n)
  /\ next' = [next EXCEPT ![current] = Successors(n), ![n] = {}]
  /\ flow' = [flow EXCEPT ![current] = flow[n], ![n] = Null]
  /\ body' = [body EXCEPT ![current] = @ \o body[n], ![n] = <<>>]
  /\ prev' = [prev EXCEPT ![n] = {}]
  /\ phi' = [phi EXCEPT ![n] = {}]
  /\ remap' = IF remap[n] = Null THEN [remap EXCEPT ![n] = current] ELSE remap
  /\ UNCHANGED <<input, stage, data, pending, current>>

\* The loop over the successors.
Descend ==
  /\ current # Null
  /\ \A n \in Block : ~Mergeable(current, n)
  /\ pending' = pending \cup next[current]
  /\ current' = Null
  /\ UNCHANGED <<input, stage, content, remap>>

AsTheyWere(S) == S   \* a slip

Renamed(S) == {remap[p] : p \in S}

\* update on every block, then remove.
Finish ==
  /\ stage = "walk" /\ current = Null /\ pending = {}
  /\ stage' = "done"
  /\ phi' = [b \in Block |-> Renamed(phi[b])]
  /\ prev' = [b \in Block |-> Renamed(prev[b])]
  /\ data' = {b \in data : remap[b] = b}
  /\ UNCHANGED <<input, flow, next, body, remap, pending, current>>

Next ==
  \/ \E b \in Block : Visit(b)
  \/ \E n \in Block : Merge(n)
  \/ Descend
  \/ Finish

Spec == Init /\ [][Next]_vars

-----------------------------------------------------------------------------

\* Every variable keeps its shape; at the end no name of a block is missing.
TypeOK ==
  /\ stage \in {"walk", "done"}
  /\ data \in SUBSET Block
  /\ flow \in [Block -> FlowStmt \cup {Null}]
  /\ next \in [Block -> SUBSET Block]
  /\ prev \in [Block -> SUBSET Block]
  /\ phi \in [Block -> SUBSET Block]
  /\ body \in [Block -> Seq(Block)]
  /\ remap \in [Block -> Block \cup {Null}]
  /\ stage = "done" => Null \notin Range(remap)
  /\ pending \in SUBSET Block
  /\ current \in Block \cup {Null}

Freed == {b \in Block : flow[b] = Null}

\* A block that was handed back is never walked to: no active call is at it and
\* no loop of an active call has it still to take.
FreedIsForgotten == (pending \cup {current}) \cap Freed = {}

\* The walk keeps next and prev by hand, and they are still those of the flow
\* statements; phi statements have an entry for each predecessor.
CfgAndPhiMatchFlow ==
  stage = "done" =>
    /\ data = Block \ Freed
    /\ \A b \in data :
         /\ next[b] = Range(flow[b].to) /\ next[b] \subseteq data
         /\ prev[b] = {p \in data : b \in next[p]}
         /\ b \in input.joins => phi[b] = prev[b]

\* Every block's statements are still there once, behind those of the one block
\* that jumped to it, and the last block's flow is the merged block's.
BodiesAreChains ==
  stage = "done" =>
    /\ \A c \in Block : Cardinality({b \in data : c \in Range(body[b])}) = 1
    /\ \A b \in data :
         /\ body[b][1] = b /\ IsInjective(body[b])
         /\ flow[b] = input.flow[Last(body[b])]
         /\ \A i \in 1..Len(body[b]) - 1 :
              /\ input.flow[body[b][i]] = Jump(body[b][i + 1])
              /\ Preds(input.flow, body[b][i + 1]) = {body[b][i]}
              /\ body[b][i + 1] \notin input.joins

\* One call merges all there is to merge: a second call would find nothing.
NothingLeftToMerge ==
  stage = "done" => \A b, n \in data : ~(next[b] = {n} /\ prev[n] = {b} /\ n \notin input.joins)

=============================================================================

-------------------------- MODULE CFGsimplifierProofs --------------------------
(***************************************************************************)
(* Theorems about CFGsimplifier, for every function: a block handed back   *)
(* to the pool is never walked to; the edges, phi entries and statements   *)
(* of the blocks that are left are right; nothing more could be merged.    *)
(*                                                                         *)
(* A block is merged into the one block that still leads to it, where the  *)
(* walk is now.  Had the walk been there already, or were it still to go   *)
(* there, it would have come, or come, from a block whose own loop is      *)
(* over: a second one that leads to it.                                    *)
(***************************************************************************)
EXTENDS CFGsimplifier, FlowGraphProofs, FiniteSetTheorems, SequenceTheorems, TLAPS

\* The blocks walked to.  Every other key of remap was merged.
Heads == {b \in Block : remap[b] = b}

Shaped ==
  /\ input \in Programs
  /\ stage \in {"walk", "done"}
  /\ data \in SUBSET Block
  /\ flow \in [Block -> FlowStmt \cup {Null}]
  /\ next \in [Block -> SUBSET Block]
  /\ prev \in [Block -> SUBSET Block]
  /\ phi \in [Block -> SUBSET Block]
  /\ body \in [Block -> Seq(Block)]
  /\ remap \in [Block -> Block \cup {Null}]
  /\ pending \in SUBSET Block
  /\ current \in Block \cup {Null}

\* A key of remap that does not name itself was merged; what is no key is as
\* it was.
Accounted ==
  \A b \in Block :
    /\ flow[b] = Null <=> remap[b] \notin {b, Null}
    /\ remap[b] = Null => next[b] = Range(input.flow[b].to)

\* No list names a merged block as successor, or the entry.
NextIsThere == \A b \in Block : \A n \in next[b] : flow[n] # Null /\ n # Entry

\* A block with one predecessor is successor of one block.
OneWayIn ==
  stage = "walk" =>
    \A n, b, c \in Block :
      Cardinality(prev[n]) = 1 /\ n \in next[b] /\ n \in next[c] => b = c

\* The walk comes to a block from one whose while loop is over.
Reached ==
  /\ current # Null => current \in Heads
  /\ \A m \in pending \cup Heads :
       /\ flow[m] # Null
       /\ m = Entry \/ \E b \in Heads \ {current} : m \in next[b]

\* What a key of remap leads to is a key or will be walked to.
Spreading ==
  /\ remap[Entry] # Null \/ Entry \in pending
  /\ \A b \in Block : remap[b] # Null =>
       \A t \in Range(input.flow[b].to) :
         remap[t] # Null \/ t \in pending \/ (current # Null /\ t \in next[current])

AllMet ==
  stage = "done" => pending = {} /\ current = Null /\ \A b \in Block : remap[b] # Null

Inv ==
  /\ Shaped /\ Accounted /\ NextIsThere /\ OneWayIn /\ Reached /\ Spreading /\ AllMet

LEMMA InputFacts ==
  ASSUME input \in Programs
  PROVE  /\ input.flow \in [Block -> FlowStmt]
         /\ WellFormed(input.flow)
         /\ \A b \in Block : Range(input.flow[b].to) \subseteq Block \ {Entry}
<1>1. /\ input.flow \in [Block -> FlowStmt] /\ WellFormed(input.flow)
      /\ Preds(input.flow, Entry) = {}
  BY ProgramAssumption
<1>2. \A b \in Block : Range(input.flow[b].to) \subseteq Block
  BY <1>1, TargetFacts
<1> QED
  BY <1>1, <1>2 DEF Preds

LEMMA InitInv == Init => Inv
<1> SUFFICES ASSUME Init PROVE Inv
  OBVIOUS
<1>1. /\ flow \in [Block -> FlowStmt] /\ flow = input.flow
      /\ \A b \in Block : Range(flow[b].to) \subseteq Block \ {Entry}
  BY InputFacts DEF Init
<1>2. \A b \in Block : flow[b] # Null
  <2>1. Null \notin FlowStmt
    BY ProgramAssumption
  <2> QED
    BY <1>1, <2>1
<1>3. Shaped
  BY <1>1, BlockAssumption DEF Init, Shaped, Preds
<1>4. OneWayIn
  <2> SUFFICES ASSUME NEW n \in Block, NEW b \in Block, NEW c \in Block,
                      Cardinality(prev[n]) = 1, n \in next[b], n \in next[c]
               PROVE  b = c
    BY DEF OneWayIn
  <2>1. b \in prev[n] /\ c \in prev[n] /\ prev[n] \subseteq Block
    BY DEF Init, Preds
  <2>2. IsFiniteSet(prev[n])
    BY <2>1, ProgramAssumption, FS_Subset
  <2> QED
    BY <2>1, <2>2, FS_Singleton
<1>5. Heads = {} /\ Entry \in Block
  BY BlockAssumption DEF Heads, Init
<1>6. Accounted /\ NextIsThere /\ Reached /\ Spreading /\ AllMet
  BY <1>1, <1>2, <1>5 DEF Init, Accounted, NextIsThere, Reached, Spreading, AllMet
<1> QED
  BY <1>3, <1>4, <1>6 DEF Inv

LEMMA VisitInv == ASSUME Inv, NEW b \in Block, Visit(b) PROVE Inv'
<1>1. /\ Shaped /\ Accounted /\ NextIsThere /\ OneWayIn /\ Reached /\ Spreading
      /\ stage = "walk" /\ current = Null /\ b \in pending /\ b # Null
      /\ pending' = pending \ {b}
      /\ UNCHANGED <<input, stage, content>>
  BY BlockAssumption DEF Inv, Visit
<1>2. /\ input' = input /\ stage' = stage /\ data' = data /\ flow' = flow /\ next' = next
      /\ prev' = prev /\ phi' = phi /\ body' = body
  BY <1>1 DEF content
<1>3. CASE remap[b] = Null
  <2>1. current' = b /\ remap' = [remap EXCEPT ![b] = b]
    BY <1>3 DEF Visit
  <2>2. Shaped'
    BY <1>1, <1>2, <2>1 DEF Shaped
  <2>3. /\ \A c \in Block : remap'[c] = IF c = b THEN b ELSE remap[c]
        /\ Heads' = Heads \cup {b} /\ b \notin Heads /\ b \in pending
    BY <1>1, <1>3, <2>1 DEF Shaped, Heads
  <2>4. Accounted' /\ NextIsThere' /\ OneWayIn'
    BY <1>1, <1>2, <1>3, <2>3 DEF Accounted, NextIsThere, OneWayIn
  <2>5. Reached'
    BY <1>1, <1>2, <2>1, <2>3 DEF Reached
  <2>6. Spreading'
    <3>1. Range(input.flow[b].to) = next[b]
      BY <1>1, <1>3 DEF Accounted
    <3> QED
      BY <1>1, <1>2, <2>1, <2>3, <3>1, InputFacts, BlockAssumption DEF Spreading, Shaped
  <2>7. AllMet'
    BY <1>1, <1>2 DEF AllMet
  <2> QED
    BY <2>2, <2>4, <2>5, <2>6, <2>7 DEF Inv
<1>4. CASE remap[b] # Null
  <2>1. current' = current /\ remap' = remap /\ Heads' = Heads
    BY <1>4 DEF Visit, Heads
  <2>2. Shaped' /\ Accounted' /\ NextIsThere' /\ OneWayIn' /\ AllMet'
    BY <1>1, <1>2, <2>1 DEF Shaped, Accounted, NextIsThere, OneWayIn, AllMet
  <2>3. Reached'
    BY <1>1, <1>2, <2>1 DEF Reached
  <2>4. Spreading'
    BY <1>1, <1>2, <1>4, <2>1 DEF Spreading
  <2> QED
    BY <2>2, <2>3, <2>4 DEF Inv
<1> QED
  BY <1>3, <1>4

\* What is merged is no head, and no longer a successor or to be walked to.
LEMMA MergedIsUnknown ==
  ASSUME Inv, NEW n \in Block, Merge(n)
  PROVE  /\ current \in Heads /\ n # current
         /\ n \notin Heads /\ n \notin pending
         /\ remap[n] = Null /\ flow[n] # Null
         /\ \A b \in Block : n \in next[b] => b = current
<1>1. /\ Shaped /\ Accounted /\ NextIsThere /\ OneWayIn /\ Reached /\ AllMet
      /\ current # Null /\ next[current] = {n} /\ Cardinality(prev[n]) = 1
  BY DEF Inv, Merge, Mergeable
<1>2. current \in Heads /\ stage = "walk" /\ current \in Block
  BY <1>1 DEF Reached, AllMet, Shaped
<1>3. \A b \in Block : n \in next[b] => b = current
  BY <1>1, <1>2 DEF OneWayIn
<1>4. n # Entry /\ flow[n] # Null
  BY <1>1, <1>2 DEF NextIsThere
<1>5. n \notin pending \cup Heads
  BY <1>1, <1>3, <1>4 DEF Reached, Heads
<1>6. remap[n] = Null
  BY <1>1, <1>4, <1>5 DEF Accounted, Heads
<1> QED
  BY <1>2, <1>3, <1>4, <1>5, <1>6

LEMMA MergeInv == ASSUME Inv, NEW n \in Block, Merge(n) PROVE Inv'
<1>1. /\ Shaped /\ Accounted /\ NextIsThere /\ OneWayIn /\ Reached /\ Spreading /\ AllMet
      /\ current # Null /\ next[current] = {n}
  BY DEF Inv, Merge, Mergeable
<1>2. /\ current \in Block /\ current \in Heads /\ n # current /\ n # Null
      /\ n \notin Heads /\ n \notin pending
      /\ remap[n] = Null /\ flow[n] # Null
      /\ \A b \in Block : n \in next[b] => b = current
  BY <1>1, MergedIsUnknown, BlockAssumption DEF Shaped
<1>3. /\ input' = input /\ stage' = stage /\ data' = data
      /\ pending' = pending /\ current' = current
      /\ next' = [next EXCEPT ![current] = next[n], ![n] = {}]
      /\ flow' = [flow EXCEPT ![current] = flow[n], ![n] = Null]
      /\ prev' = [prev EXCEPT ![n] = {}]
      /\ phi' = [phi EXCEPT ![n] = {}]
      /\ body' = [body EXCEPT ![current] = @ \o body[n], ![n] = <<>>]
      /\ remap' = [remap EXCEPT ![n] = current]
  BY <1>2 DEF Merge, Successors
<1>4. /\ \A b \in Block : next'[b] = IF b = n THEN {} ELSE IF b = current THEN next[n] ELSE next[b]
      /\ \A b \in Block : flow'[b] = IF b = n THEN Null ELSE IF b = current THEN flow[n] ELSE flow[b]
      /\ \A b \in Block : remap'[b] = IF b = n THEN current ELSE remap[b]
      /\ \A b \in Block : b # n => prev'[b] = prev[b]
  BY <1>1, <1>2, <1>3 DEF Shaped
<1>5. Heads' = Heads
  BY <1>2, <1>4 DEF Heads
<1>6. Shaped'
  <2>1. body[current] \o body[n] \in Seq(Block) /\ <<>> \in Seq(Block)
    BY <1>1, <1>2, ConcatProperties, EmptySeq DEF Shaped
  <2>2. body' \in [Block -> Seq(Block)]
    BY <1>1, <1>2, <1>3, <2>1 DEF Shaped
  <2>3. next' \in [Block -> SUBSET Block] /\ flow' \in [Block -> FlowStmt \cup {Null}]
    BY <1>1, <1>2, <1>3 DEF Shaped
  <2> QED
    BY <1>1, <1>2, <1>3, <2>2, <2>3 DEF Shaped
<1>7. Accounted'
  <2>1. remap[current] = current
    BY <1>2 DEF Heads
  <2> SUFFICES ASSUME NEW b \in Block
               PROVE  /\ flow'[b] = Null <=> remap'[b] \notin {b, Null}
                      /\ remap'[b] = Null => next'[b] = Range(input.flow[b].to)
    BY <1>3 DEF Accounted
  <2>2. CASE b = n
    BY <1>2, <1>4, <2>2, BlockAssumption
  <2>3. CASE b = current
    BY <1>2, <1>4, <2>1, <2>3, BlockAssumption
  <2>4. CASE b # n /\ b # current
    BY <1>1, <1>4, <2>4 DEF Accounted
  <2> QED
    BY <2>2, <2>3, <2>4
<1>8. NextIsThere'
  <2> SUFFICES ASSUME NEW b \in Block, NEW m \in next'[b] PROVE flow'[m] # Null /\ m # Entry
    BY DEF NextIsThere
  <2>1. PICK c \in Block : m \in next[c] /\ (c = b \/ c = n) /\ b # n
    BY <1>2, <1>4
  <2>2. m \in Block /\ flow[m] # Null /\ m # Entry
    BY <1>1, <2>1 DEF NextIsThere, Shaped
  <2>3. m # n
    BY <1>2, <1>4, <2>1
  <2> QED
    BY <1>2, <1>4, <2>2, <2>3
<1>9. OneWayIn'
  <2> SUFFICES ASSUME stage = "walk", NEW m \in Block, NEW b \in Block, NEW c \in Block,
                      Cardinality(prev'[m]) = 1, m \in next'[b], m \in next'[c]
               PROVE  b = c
    BY <1>3 DEF OneWayIn
  <2> DEFINE origin(d) == IF d = current THEN n ELSE d
  <2>1. m # n
    BY <1>2, <1>4
  <2>2. m \in next[origin(b)] /\ m \in next[origin(c)] /\ b # n /\ c # n
    BY <1>4
  <2>3. origin(b) = origin(c)
    BY <1>1, <1>4, <2>1, <2>2 DEF OneWayIn
  <2> QED
    BY <2>2, <2>3
<1>10. Reached'
  <2> SUFFICES ASSUME NEW m \in pending \cup Heads
               PROVE  /\ flow'[m] # Null
                      /\ m = Entry \/ \E b \in Heads \ {current} : m \in next'[b]
    BY <1>2, <1>3, <1>5 DEF Reached
  <2>1. m \in Block /\ m # n /\ flow[m] # Null
    BY <1>1, <1>2 DEF Reached, Shaped, Heads
  <2>2. flow'[m] # Null
    BY <1>2, <1>4, <2>1
  <2>3. ASSUME NEW b \in Heads \ {current}, m \in next[b] PROVE m \in next'[b]
    BY <1>2, <1>4, <2>3 DEF Heads
  <2> QED
    BY <1>1, <2>2, <2>3 DEF Reached
<1>11. Spreading'
  <2>1. Range(input.flow[n].to) = next'[current]
    BY <1>1, <1>2, <1>4 DEF Accounted
  <2>2. \A t \in Block : t \in next[current] => remap'[t] # Null
    BY <1>1, <1>2, <1>4, BlockAssumption
  <2> QED
    BY <1>1, <1>2, <1>3, <1>4, <2>1, <2>2, InputFacts, BlockAssumption DEF Spreading, Shaped
<1>12. AllMet'
  BY <1>1, <1>3 DEF AllMet
<1> QED
  BY <1>6, <1>7, <1>8, <1>9, <1>10, <1>11, <1>12 DEF Inv

LEMMA DescendInv == Inv /\ Descend => Inv'
<1> SUFFICES ASSUME Inv, Descend PROVE Inv'
  OBVIOUS
<1>1. /\ Shaped /\ Accounted /\ NextIsThere /\ OneWayIn /\ Reached /\ Spreading /\ AllMet
      /\ current # Null /\ pending' = pending \cup next[current] /\ current' = Null
      /\ input' = input /\ stage' = stage /\ data' = data /\ flow' = flow /\ next' = next
      /\ prev' = prev /\ phi' = phi /\ body' = body /\ remap' = remap
  BY DEF Inv, Descend, content
<1>2. Heads' = Heads /\ current \in Heads /\ current \in Block /\ Null \notin Heads
  BY <1>1, BlockAssumption DEF Heads, Reached
<1>3. Shaped' /\ Accounted' /\ NextIsThere' /\ OneWayIn' /\ AllMet'
  BY <1>1, <1>2 DEF Shaped, Accounted, NextIsThere, OneWayIn, AllMet
<1>4. Reached'
  BY <1>1, <1>2 DEF Reached, NextIsThere
<1>5. Spreading'
  BY <1>1 DEF Spreading
<1> QED
  BY <1>3, <1>4, <1>5 DEF Inv

\* Every block is reachable, so the walk has met every block.
LEMMA AllBlocksMet ==
  ASSUME Inv, current = Null, pending = {}
  PROVE  \A b \in Block : remap[b] # Null
<1> DEFINE S == {b \in Block : remap[b] # Null} \cup {Dummy}
           edges == Edges(input.flow, FALSE)
<1>1. Shaped /\ Spreading
  BY DEF Inv
<1>2. input.flow \in [Block -> FlowStmt] /\ Connected(edges, Entry)
  BY <1>1, InputFacts DEF Shaped, WellFormed, Root
<1>3. Entry \in S /\ S \in SUBSET Node
  BY <1>1, BlockAssumption DEF Spreading, Node
<1>4. Closed(edges, S)
  <2> SUFFICES ASSUME NEW e \in edges, e[1] \in S PROVE e[2] \in S
    BY DEF Closed
  <2>1. e \in ForwardEdges(input.flow)
    BY DEF Edges
  <2>2. PICK b \in Block : e \in {b} \X Targets(input.flow[b])
    BY <2>1 DEF ForwardEdges
  <2>3. b = e[1] /\ e[2] \in Targets(input.flow[b])
    BY <2>2
  <2>4. CASE e[2] = Dummy
    BY <2>4
  <2>5. CASE e[2] # Dummy
    <3>1. e[2] \in Range(input.flow[b].to) /\ e[2] \in Block
      BY <1>2, <2>3, <2>5, TargetFacts
    <3>2. remap[b] # Null
      BY <2>3, BlockAssumption
    <3> QED
      BY <1>1, <3>1, <3>2 DEF Spreading
  <2> QED
    BY <2>4, <2>5
<1>5. S = Node
  BY <1>2, <1>3, <1>4 DEF Connected
<1> QED
  BY <1>5, BlockAssumption DEF Node

LEMMA FinishInv == Inv /\ Finish => Inv'
<1> SUFFICES ASSUME Inv, Finish PROVE Inv'
  OBVIOUS
<1>1. /\ Shaped /\ Accounted /\ NextIsThere /\ OneWayIn /\ Reached /\ Spreading
      /\ current = Null /\ pending = {} /\ stage' = "done"
      /\ phi' = [b \in Block |-> Renamed(phi[b])]
      /\ prev' = [b \in Block |-> Renamed(prev[b])]
      /\ data' = {b \in data : remap[b] = b}
      /\ input' = input /\ flow' = flow /\ next' = next /\ body' = body
      /\ remap' = remap /\ pending' = pending /\ current' = current
  BY DEF Inv, Finish
<1>2. \A b \in Block : remap[b] # Null
  BY <1>1, AllBlocksMet
<1>3. \A S \in SUBSET Block : Renamed(S) \in SUBSET Block
  BY <1>1, <1>2 DEF Renamed, Shaped
<1>4. Shaped'
  BY <1>1, <1>3 DEF Shaped
<1>5. Accounted' /\ NextIsThere' /\ OneWayIn' /\ AllMet'
  BY <1>1, <1>2 DEF Accounted, NextIsThere, OneWayIn, AllMet
<1>6. Reached' /\ Spreading'
  BY <1>1 DEF Reached, Spreading, Heads
<1> QED
  BY <1>4, <1>5, <1>6 DEF Inv

\* The invariant is one.
THEOREM Invariance == Spec => []Inv
<1>1. Inv /\ [Next]_vars => Inv'
  <2> SUFFICES ASSUME Inv, [Next]_vars PROVE Inv'
    OBVIOUS
  <2>1. CASE UNCHANGED vars
    BY <2>1 DEF vars, Inv, Shaped, Accounted, NextIsThere, OneWayIn, Reached, Heads, Spreading, AllMet
  <2> QED
    BY <2>1, VisitInv, MergeInv, DescendInv, FinishInv DEF Next
<1> QED
  BY InitInv, <1>1, PTL DEF Spec

\* Every variable keeps its shape, and the renaming in update makes no name
\* null: remap holds every block when it is used.
THEOREM TypeCorrect == Spec => []TypeOK
<1>1. Inv => TypeOK
  BY BlockAssumption DEF Inv, Shaped, AllMet, TypeOK, Range
<1> QED
  BY Invariance, <1>1, PTL

\* A block that dfs has handed back to the pool is met by no call of dfs, in
\* any order of the successors.
THEOREM MergedIsForgotten == Spec => []FreedIsForgotten
<1>1. Inv => FreedIsForgotten
  <2> SUFFICES ASSUME Inv, NEW b \in Block, b \in pending \cup {current} PROVE flow[b] # Null
    BY DEF FreedIsForgotten, Freed
  <2> QED
    BY BlockAssumption DEF Inv, Reached
<1> QED
  BY Invariance, <1>1, PTL

(***************************************************************************)
(* The edges.  The name of a block stands for the head it was merged into, *)
(* or for itself; what has an edge to a block that is left is what its     *)
(* predecessors stand for, and no two of them stand for the same.          *)
(***************************************************************************)
HeadOf(map, b) == IF map[b] = Null THEN b ELSE map[b]

HeadsNamed == \A b \in Block : remap[b] # Null => remap[b] \in Heads

\* Until update, prev and phi of a block that is left are as they were.
Kept ==
  stage = "walk" =>
    /\ data = Block
    /\ \A n \in Block : flow[n] # Null =>
         /\ next[n] = Range(flow[n].to)
         /\ prev[n] = Preds(input.flow, n)
         /\ phi[n] = IF n \in input.joins THEN prev[n] ELSE {}

Sourced ==
  stage = "walk" =>
    \A n \in Block : flow[n] # Null =>
      /\ \A b \in Block : n \in next[b] <=> \E p \in prev[n] : HeadOf(remap, p) = b
      /\ \A p, q \in prev[n] : HeadOf(remap, p) = HeadOf(remap, q) => p = q

\* Where the while loop is over, it has nothing more to merge.
Exhausted ==
  stage = "walk" => \A b \in Heads \ {current} : \A n \in Block : ~Mergeable(b, n)

\* The blocks that are left are the heads.
Removed == stage = "done" => data = Heads

EdgeInv == HeadsNamed /\ Kept /\ Sourced /\ Exhausted /\ Removed

Outcome == CfgAndPhiMatchFlow /\ NothingLeftToMerge

LEMMA InitEdges == Init => EdgeInv /\ Outcome
<1> SUFFICES ASSUME Init PROVE EdgeInv /\ Outcome
  OBVIOUS
<1>1. Heads = {} /\ \A b \in Block : HeadOf(remap, b) = b /\ remap[b] = Null
  BY BlockAssumption DEF Heads, HeadOf, Init
<1>2. HeadsNamed /\ Kept /\ Exhausted
  BY <1>1 DEF HeadsNamed, Kept, Exhausted, Init
<1>3. Sourced
  BY <1>1 DEF Sourced, Init, Preds
<1> QED
  BY <1>2, <1>3 DEF EdgeInv, Removed, Outcome, CfgAndPhiMatchFlow, NothingLeftToMerge, Init

LEMMA VisitEdges == ASSUME Inv, EdgeInv, NEW b \in Block, Visit(b) PROVE EdgeInv' /\ Outcome'
<1>1. /\ stage = "walk" /\ current = Null /\ b # Null /\ remap \in [Block -> Block \cup {Null}]
      /\ input' = input /\ stage' = stage /\ data' = data /\ flow' = flow /\ next' = next
      /\ prev' = prev /\ phi' = phi
      /\ \A n \in Block : prev[n] \subseteq Block
  BY BlockAssumption DEF Inv, Shaped, Visit, content
<1>2. /\ \A c \in Block : remap'[c] = IF c = b /\ remap[b] = Null THEN b ELSE remap[c]
      /\ current' = IF remap[b] = Null THEN b ELSE Null
  BY <1>1 DEF Visit
<1>3. \A c \in Block : HeadOf(remap', c) = HeadOf(remap, c)
  BY <1>1, <1>2 DEF HeadOf
<1>4. Heads' \ {current'} \subseteq Heads \ {current} /\ Heads \subseteq Heads'
  BY <1>1, <1>2, BlockAssumption DEF Heads
<1>5. HeadsNamed' /\ Kept'
  BY <1>1, <1>2, <1>4 DEF EdgeInv, HeadsNamed, Kept, Heads
<1>6. Sourced'
  BY <1>1, <1>3 DEF EdgeInv, Sourced
<1>7. Exhausted'
  BY <1>1, <1>4 DEF EdgeInv, Exhausted, Mergeable
<1> QED
  BY <1>1, <1>5, <1>6, <1>7 DEF EdgeInv, Removed, Outcome, CfgAndPhiMatchFlow,
       NothingLeftToMerge

LEMMA MergeEdges == ASSUME Inv, EdgeInv, NEW n \in Block, Merge(n) PROVE EdgeInv' /\ Outcome'
<1>1. /\ Shaped /\ NextIsThere /\ HeadsNamed /\ Kept /\ Sourced /\ Exhausted
      /\ current # Null /\ next[current] = {n} /\ stage = "walk"
  BY DEF Inv, EdgeInv, AllMet, Shaped, Merge, Mergeable
<1>2. /\ current \in Block /\ current \in Heads /\ n # current /\ n # Null
      /\ n \notin Heads /\ remap[n] = Null /\ flow[n] # Null
      /\ \A b \in Block : n \in next[b] => b = current
  BY <1>1, MergedIsUnknown, BlockAssumption DEF Shaped
<1>3. /\ input' = input /\ stage' = stage /\ data' = data /\ current' = current
      /\ \A b \in Block : next'[b] = IF b = n THEN {} ELSE IF b = current THEN next[n] ELSE next[b]
      /\ \A b \in Block : flow'[b] = IF b = n THEN Null ELSE IF b = current THEN flow[n] ELSE flow[b]
      /\ \A b \in Block : remap'[b] = IF b = n THEN current ELSE remap[b]
      /\ \A b \in Block : b # n => prev'[b] = prev[b] /\ phi'[b] = phi[b]
  BY <1>1, <1>2 DEF Merge, Shaped, Successors
<1>4. flow[current] # Null /\ Heads' = Heads
  BY <1>2, <1>3 DEF Inv, Reached, Heads
<1>5. HeadsNamed'
  BY <1>1, <1>2, <1>3, <1>4 DEF HeadsNamed
<1>6. \A p \in Block : HeadOf(remap', p) = IF HeadOf(remap, p) = n THEN current ELSE HeadOf(remap, p)
  BY <1>1, <1>2, <1>3, BlockAssumption DEF HeadOf, HeadsNamed
<1>7. Kept'
  BY <1>1, <1>2, <1>3, <1>4 DEF Kept
<1>8. Sourced'
  <2> SUFFICES ASSUME NEW m \in Block, flow'[m] # Null
               PROVE  /\ \A b \in Block : m \in next'[b] <=> \E p \in prev'[m] : HeadOf(remap', p) = b
                      /\ \A p, q \in prev'[m] : HeadOf(remap', p) = HeadOf(remap', q) => p = q
    BY DEF Sourced
  <2>1. m # n /\ flow[m] # Null /\ prev'[m] = prev[m] /\ prev[m] \subseteq Block
    BY <1>1, <1>3, <1>4 DEF Shaped
  <2>2. \A b \in Block : m \in next[b] <=> \E p \in prev[m] : HeadOf(remap, p) = b
    BY <1>1, <2>1 DEF Sourced
  <2>3. m \notin next[current]
    BY <1>1, <2>1
  <2>4. \A b \in Block : m \in next'[b] <=> \E p \in prev[m] : HeadOf(remap', p) = b
    <3> SUFFICES ASSUME NEW b \in Block
                 PROVE  m \in next'[b] <=> \E p \in prev[m] : HeadOf(remap', p) = b
      OBVIOUS
    <3>1. CASE b = n
      BY <1>2, <1>3, <1>6, <2>1, <3>1
    <3>2. CASE b = current
      BY <1>2, <1>3, <1>6, <2>1, <2>2, <2>3, <3>2
    <3>3. CASE b # n /\ b # current
      BY <1>3, <1>6, <2>1, <2>2, <3>3
    <3> QED
      BY <3>1, <3>2, <3>3
  <2>5. ASSUME NEW p \in prev[m], NEW q \in prev[m], HeadOf(remap', p) = HeadOf(remap', q) PROVE p = q
    <3>1. HeadOf(remap, p) # current /\ HeadOf(remap, q) # current
      BY <1>2, <2>2, <2>3
    <3>2. HeadOf(remap, p) = HeadOf(remap, q)
      BY <1>6, <2>1, <2>5, <3>1
    <3> QED
      BY <1>1, <2>1, <3>2 DEF Sourced
  <2> QED
    BY <2>1, <2>4, <2>5
<1>9. Exhausted'
  <2> SUFFICES ASSUME NEW b \in Heads \ {current}, NEW m \in Block, Mergeable(b, m)' PROVE FALSE
    BY <1>3, <1>4 DEF Exhausted
  <2>1. b \in Block /\ b # n /\ b # current
    BY <1>2 DEF Heads
  <2>2. next[b] = {m}
    BY <1>3, <2>1 DEF Mergeable
  <2>3. m # n
    BY <1>2, <2>1, <2>2
  <2>4. Mergeable(b, m)
    BY <1>3, <2>2, <2>3 DEF Mergeable
  <2> QED
    BY <1>1, <2>4 DEF Exhausted
<1> QED
  BY <1>1, <1>3, <1>5, <1>7, <1>8, <1>9 DEF EdgeInv, Removed, Outcome, CfgAndPhiMatchFlow,
       NothingLeftToMerge

LEMMA DescendEdges == Inv /\ EdgeInv /\ Descend => EdgeInv' /\ Outcome'
<1> SUFFICES ASSUME Inv, EdgeInv, Descend PROVE EdgeInv' /\ Outcome'
  OBVIOUS
<1>1. /\ stage = "walk" /\ current # Null /\ current' = Null
      /\ \A n \in Block : ~Mergeable(current, n)
      /\ input' = input /\ stage' = stage /\ data' = data /\ flow' = flow /\ next' = next
      /\ prev' = prev /\ phi' = phi /\ remap' = remap
  BY DEF Inv, Shaped, AllMet, Descend, content
<1>2. Heads' = Heads /\ \A b : HeadOf(remap', b) = HeadOf(remap, b)
  BY <1>1 DEF Heads, HeadOf
<1>3. HeadsNamed' /\ Kept' /\ Sourced'
  BY <1>1, <1>2 DEF EdgeInv, HeadsNamed, Kept, Sourced
<1>4. Exhausted'
  BY <1>1, <1>2 DEF EdgeInv, Exhausted, Mergeable
<1> QED
  BY <1>1, <1>3, <1>4 DEF EdgeInv, Removed, Outcome, CfgAndPhiMatchFlow,
       NothingLeftToMerge

LEMMA FinishEdges == Inv /\ EdgeInv /\ Finish => EdgeInv' /\ Outcome'
<1> SUFFICES ASSUME Inv, EdgeInv, Finish PROVE EdgeInv' /\ Outcome'
  OBVIOUS
<1>1. /\ Shaped /\ Accounted /\ NextIsThere /\ HeadsNamed /\ Kept /\ Sourced /\ Exhausted
      /\ stage = "walk" /\ current = Null /\ pending = {} /\ stage' = "done"
      /\ phi' = [b \in Block |-> Renamed(phi[b])]
      /\ prev' = [b \in Block |-> Renamed(prev[b])]
      /\ data' = {b \in data : remap[b] = b}
      /\ input' = input /\ flow' = flow /\ next' = next /\ remap' = remap /\ current' = current
  BY DEF Inv, EdgeInv, Finish
<1>2. \A b \in Block : remap[b] # Null /\ HeadOf(remap, b) = remap[b]
  BY <1>1, AllBlocksMet DEF HeadOf
<1>3. /\ Heads' = Heads /\ data' = Heads
      /\ \A b \in Block : b \in Heads <=> flow[b] # Null
  BY <1>1, <1>2 DEF Heads, Kept, Accounted
<1>4. ASSUME NEW n \in Heads
      PROVE  /\ next[n] = Range(flow[n].to) /\ next[n] \subseteq Heads
             /\ prev'[n] = {p \in Heads : n \in next[p]}
             /\ phi'[n] = IF n \in input.joins THEN prev'[n] ELSE {}
  <2>1. n \in Block /\ flow[n] # Null
    BY <1>3 DEF Heads
  <2>2. next[n] = Range(flow[n].to) /\ next[n] \subseteq Heads
    BY <1>1, <1>3, <2>1 DEF Kept, NextIsThere, Shaped
  <2>3. prev[n] \subseteq Block
    BY <1>1, <2>1 DEF Shaped
  <2>4. prev'[n] = {remap[p] : p \in prev[n]}
    BY <1>1, <2>1 DEF Renamed
  <2>5. \A b \in Block : n \in next[b] <=> \E p \in prev[n] : remap[p] = b
    BY <1>1, <1>2, <2>1, <2>3 DEF Sourced
  <2>6. prev'[n] = {p \in Heads : n \in next[p]}
    BY <1>1, <1>2, <2>3, <2>4, <2>5 DEF HeadsNamed, Heads
  <2>7. phi'[n] = IF n \in input.joins THEN prev'[n] ELSE {}
    BY <1>1, <2>1 DEF Kept, Renamed
  <2> QED
    BY <2>2, <2>6, <2>7
<1>5. CfgAndPhiMatchFlow'
  <2>1. data' = Block \ Freed'
    BY <1>1, <1>3 DEF Freed, Heads
  <2>2. \A b \in Heads :
          /\ next'[b] = Range(flow'[b].to) /\ next'[b] \subseteq Heads
          /\ prev'[b] = {p \in Heads : b \in next'[p]}
          /\ b \in input'.joins => phi'[b] = prev'[b]
    BY <1>1, <1>4
  <2> QED
    BY <1>3, <2>1, <2>2 DEF CfgAndPhiMatchFlow
<1>6. NothingLeftToMerge'
  <2> SUFFICES ASSUME NEW b \in Heads, NEW n \in Heads,
                      next[b] = {n}, prev'[n] = {b}, n \notin input.joins
               PROVE  FALSE
    BY <1>1, <1>3 DEF NothingLeftToMerge
  <2>1. b \in Block /\ n \in Block /\ flow[n] # Null /\ prev[n] \subseteq Block
    BY <1>1, <1>3 DEF Heads, Shaped
  <2>2. {remap[p] : p \in prev[n]} = {b}
    BY <1>1, <2>1 DEF Renamed
  <2>3. PICK p \in prev[n] : remap[p] = b
    BY <2>2
  <2>4. \A q \in prev[n] : q = p
    <3> TAKE q \in prev[n]
    <3>1. remap[q] = b
      BY <2>2
    <3>2. HeadOf(remap, q) = HeadOf(remap, p)
      BY <1>2, <2>1, <2>3, <3>1
    <3> QED
      BY <1>1, <2>1, <2>3, <3>2 DEF Sourced
  <2>5. prev[n] = {p}
    BY <2>3, <2>4
  <2>6. Cardinality(prev[n]) = 1
    BY <2>5, FS_Singleton
  <2>7. phi[n] = {}
    BY <1>1, <2>1 DEF Kept
  <2>8. b # current
    BY <1>1, <2>1, BlockAssumption
  <2> QED
    BY <1>1, <2>1, <2>6, <2>7, <2>8 DEF Exhausted, Mergeable
<1>7. EdgeInv'
  BY <1>1, <1>3 DEF EdgeInv, HeadsNamed, Kept, Sourced, Exhausted, Removed
<1> QED
  BY <1>5, <1>6, <1>7 DEF Outcome

LEMMA EdgeInvariance == Spec => [](EdgeInv /\ Outcome)
<1>1. Inv /\ EdgeInv /\ Outcome /\ [Next]_vars => EdgeInv' /\ Outcome'
  <2> SUFFICES ASSUME Inv, EdgeInv, Outcome, [Next]_vars PROVE EdgeInv' /\ Outcome'
    OBVIOUS
  <2>1. CASE UNCHANGED vars
    BY <2>1 DEF vars, EdgeInv, HeadsNamed, Heads, Kept, Sourced, HeadOf, Exhausted, Mergeable,
         Removed, Outcome, CfgAndPhiMatchFlow, NothingLeftToMerge, Freed
  <2> QED
    BY <2>1, VisitEdges, MergeEdges, DescendEdges, FinishEdges DEF Next
<1> QED
  BY InitEdges, Invariance, <1>1, PTL DEF Spec

\* The edges that dfs and update keep by hand are those of the flow statements
\* that are left, and phi statements have an entry for each predecessor.
THEOREM EdgesKept == Spec => []CfgAndPhiMatchFlow
<1> QED
  BY EdgeInvariance, PTL DEF Outcome

\* One call of the pass merges whatever can be merged.
THEOREM OneCallIsEnough == Spec => []NothingLeftToMerge
<1> QED
  BY EdgeInvariance, PTL DEF Outcome

(***************************************************************************)
(* The statements.  The body of a block that is left is a chain of blocks, *)
(* each of which has no way on but to the next and is its only way in.     *)
(***************************************************************************)
Forced(b, n) ==
  input.flow[b] = Jump(n) /\ Preds(input.flow, n) = {b} /\ n \notin input.joins

Chained ==
  \A b \in Block : flow[b] # Null =>
    /\ Len(body[b]) >= 1 /\ body[b][1] = b
    /\ flow[b] = input.flow[body[b][Len(body[b])]]
    /\ \A i \in 1..Len(body[b]) : HeadOf(remap, body[b][i]) = b
    /\ \A i, j \in 1..Len(body[b]) : body[b][i] = body[b][j] => i = j
    /\ \A i \in 1..Len(body[b]) - 1 : Forced(body[b][i], body[b][i + 1])

\* No statement is lost.
Placed == \A c \in Block : \E i \in 1..Len(body[HeadOf(remap, c)]) : body[HeadOf(remap, c)][i] = c

BodyInv == Chained /\ Placed

\* Where the elements of a concatenation come from.
LEMMA JoinFacts ==
  ASSUME NEW S, NEW s \in Seq(S), NEW t \in Seq(S)
  PROVE  /\ Len(s) \in Nat /\ Len(t) \in Nat /\ Len(s \o t) = Len(s) + Len(t)
         /\ \A i \in 1..Len(s) : i \in 1..Len(s \o t) /\ (s \o t)[i] = s[i]
         /\ \A i \in 1..Len(t) : Len(s) + i \in 1..Len(s \o t) /\ (s \o t)[Len(s) + i] = t[i]
         /\ \A i \in 1..Len(s \o t) :
              i \in 1..Len(s) \/ \E k \in 1..Len(t) : i = Len(s) + k
<1> DEFINE u == s \o t
<1>1. /\ Len(s) \in Nat /\ Len(t) \in Nat /\ Len(u) = Len(s) + Len(t)
      /\ \A i \in 1..Len(s) + Len(t) : u[i] = IF i <= Len(s) THEN s[i] ELSE t[i - Len(s)]
  BY ConcatProperties, LenProperties
<1> HIDE DEF u
<1> DEFINE m == Len(s)
           n == Len(t)
<1>2. m \in Nat /\ n \in Nat /\ Len(u) = m + n
  BY <1>1
<1>3. \A i \in 1..m : i \in 1..(m + n) /\ u[i] = s[i]
  BY <1>1
<1>4. \A i \in 1..n : m + i \in 1..(m + n) /\ u[m + i] = t[i]
  <2> TAKE i \in 1..n
  <2>1. m + i \in 1..(m + n) /\ ~(m + i <= m) /\ (m + i) - m = i
    BY <1>2
  <2> QED
    BY <1>1, <2>1
<1>5. \A i \in 1..(m + n) : i \in 1..m \/ \E k \in 1..n : i = m + k
  <2> TAKE i \in 1..(m + n)
  <2>1. CASE i > m
    <3>1. i - m \in 1..n /\ i = m + (i - m)
      BY <1>2, <2>1
    <3> QED
      BY <3>1
  <2> QED
    BY <1>2, <2>1
<1> QED
  BY <1>2, <1>3, <1>4, <1>5 DEF u

\* A flow statement with one target is a jump: no branch has it twice.
LEMMA OneTargetJumps ==
  ASSUME NEW stmt \in FlowStmt, NEW n \in Block, Range(stmt.to) = {n},
         stmt.op = "branch" => stmt.to[1] # stmt.to[2]
  PROVE  stmt = Jump(n)
<1>1. CASE stmt \in {Return, Unreachable}
  <2>1. DOMAIN stmt.to = {}
    BY <1>1 DEF Return, Unreachable
  <2> QED
    BY <2>1 DEF Range
<1>2. CASE \E q \in Block : stmt = Jump(q)
  BY <1>2, OneTarget
<1>3. CASE \E b, c \in Block : stmt = Branch(b, c)
  <2>1. /\ DOMAIN stmt.to = {1, 2} /\ stmt.op = "branch"
    BY <1>3 DEF Branch
  <2>2. stmt.to[1] \in Range(stmt.to) /\ stmt.to[2] \in Range(stmt.to)
    BY <2>1 DEF Range
  <2> QED
    BY <2>1, <2>2
<1> QED
  BY <1>1, <1>2, <1>3 DEF FlowStmt

LEMMA InitBodies == Init => BodyInv
<1> SUFFICES ASSUME Init PROVE BodyInv
  OBVIOUS
<1>1. \A b \in Block : /\ body[b] = <<b>> /\ Len(body[b]) = 1 /\ body[b][1] = b
                        /\ HeadOf(remap, b) = b /\ flow[b] = input.flow[b]
  BY DEF Init, HeadOf
<1> QED
  BY <1>1 DEF BodyInv, Chained, Placed

\* Visit, Descend and Finish move no statement and change no head.
LEMMA SameBodies ==
  ASSUME BodyInv, UNCHANGED <<input, flow, body>>, \A c \in Block : HeadOf(remap', c) = HeadOf(remap, c),
         \A b \in Block : body[b] \in Seq(Block)
  PROVE  BodyInv'
<1>1. \A b \in Block : \A i \in 1..Len(body[b]) : body[b][i] \in Block
  BY LenProperties
<1>2. Chained'
  <2> SUFFICES ASSUME NEW b \in Block, flow[b] # Null
               PROVE  /\ Len(body[b]) >= 1 /\ body[b][1] = b
                      /\ flow[b] = input.flow[body[b][Len(body[b])]]
                      /\ \A i \in 1..Len(body[b]) : HeadOf(remap', body[b][i]) = b
                      /\ \A i, j \in 1..Len(body[b]) : body[b][i] = body[b][j] => i = j
                      /\ \A i \in 1..Len(body[b]) - 1 : Forced(body[b][i], body[b][i + 1])
    BY DEF Chained, Forced
  <2> QED
    BY <1>1 DEF BodyInv, Chained
<1>3. Placed'
  BY DEF BodyInv, Placed
<1> QED
  BY <1>2, <1>3 DEF BodyInv

LEMMA MergeBodies == ASSUME Inv, EdgeInv, BodyInv, NEW n \in Block, Merge(n) PROVE BodyInv'
<1>1. /\ Shaped /\ HeadsNamed /\ Kept /\ Chained /\ Placed
      /\ current # Null /\ next[current] = {n} /\ stage = "walk"
      /\ Cardinality(prev[n]) = 1 /\ phi[n] = {}
  BY DEF Inv, EdgeInv, BodyInv, AllMet, Shaped, Merge, Mergeable
<1>2. /\ current \in Block /\ current \in Heads /\ n # current /\ n # Null
      /\ n \notin Heads /\ remap[n] = Null /\ flow[n] # Null
  BY <1>1, MergedIsUnknown, BlockAssumption DEF Shaped
<1>3. /\ input' = input
      /\ \A b \in Block : flow'[b] = IF b = n THEN Null ELSE IF b = current THEN flow[n] ELSE flow[b]
      /\ \A b \in Block : remap'[b] = IF b = n THEN current ELSE remap[b]
      /\ \A b \in Block : body'[b] = IF b = n THEN <<>>
                                     ELSE IF b = current THEN body[current] \o body[n] ELSE body[b]
  BY <1>1, <1>2 DEF Merge, Shaped
<1>4. flow[current] # Null
  BY <1>2 DEF Inv, Reached
<1>5. \A p \in Block : HeadOf(remap', p) = IF HeadOf(remap, p) = n THEN current ELSE HeadOf(remap, p)
  BY <1>1, <1>2, <1>3, BlockAssumption DEF HeadOf, HeadsNamed
<1> DEFINE s == body[current]
           t == body[n]
           u == body'[current]
<1>6. /\ s \in Seq(Block) /\ t \in Seq(Block)
      /\ Len(s) \in Nat /\ Len(t) \in Nat /\ Len(s) >= 1 /\ Len(t) >= 1
      /\ s[1] = current /\ t[1] = n
      /\ \A i \in 1..Len(s) : s[i] \in Block /\ HeadOf(remap, s[i]) = current
      /\ \A i \in 1..Len(t) : t[i] \in Block /\ HeadOf(remap, t[i]) = n
  BY <1>1, <1>2, <1>4, LenProperties DEF Shaped, Chained
<1>7. /\ Len(u) = Len(s) + Len(t)
      /\ \A i \in 1..Len(s) : i \in 1..Len(u) /\ u[i] = s[i]
      /\ \A i \in 1..Len(t) : Len(s) + i \in 1..Len(u) /\ u[Len(s) + i] = t[i]
      /\ \A i \in 1..Len(u) : i \in 1..Len(s) \/ \E k \in 1..Len(t) : i = Len(s) + k
  <2>1. u = s \o t
    BY <1>2, <1>3
  <2>2. s \in Seq(Block) /\ t \in Seq(Block)
    BY <1>6
  <2> HIDE DEF s, t, u
  <2>3. /\ Len(s \o t) = Len(s) + Len(t)
        /\ \A i \in 1..Len(s) : i \in 1..Len(s \o t) /\ (s \o t)[i] = s[i]
        /\ \A i \in 1..Len(t) : Len(s) + i \in 1..Len(s \o t) /\ (s \o t)[Len(s) + i] = t[i]
        /\ \A i \in 1..Len(s \o t) :
             i \in 1..Len(s) \/ \E k \in 1..Len(t) : i = Len(s) + k
    BY <2>2, JoinFacts
  <2> QED
    BY ONLY <2>1, <2>3, Zenon
<1>11. /\ flow[current] = input.flow[s[Len(s)]] /\ flow[n] = input.flow[t[Len(t)]]
       /\ \A i, j \in 1..Len(s) : s[i] = s[j] => i = j
       /\ \A i, j \in 1..Len(t) : t[i] = t[j] => i = j
       /\ \A i \in 1..Len(s) - 1 : Forced(s[i], s[i + 1])
       /\ \A i \in 1..Len(t) - 1 : Forced(t[i], t[i + 1])
  BY <1>1, <1>2, <1>4 DEF Chained
<1>8. Forced(s[Len(s)], n)
  <2>1. s[Len(s)] \in Block /\ input.flow[s[Len(s)]] = flow[current]
    BY <1>1, <1>2, <1>4, <1>6 DEF Chained
  <2>2. Range(flow[current].to) = {n}
    BY <1>1, <1>2, <1>4 DEF Kept
  <2>3. /\ input.flow[s[Len(s)]] \in FlowStmt
        /\ LET stmt == input.flow[s[Len(s)]] IN stmt.op = "branch" => stmt.to[1] # stmt.to[2]
    BY <1>1, <2>1, ProgramAssumption DEF Shaped
  <2>4. input.flow[s[Len(s)]] = Jump(n)
    BY <2>1, <2>2, <2>3, OneTargetJumps
  <2>5. prev[n] = Preds(input.flow, n) /\ s[Len(s)] \in prev[n]
    BY <1>1, <1>2, <2>1, <2>2 DEF Kept, Preds
  <2>6. prev[n] = {s[Len(s)]}
    <3>1. IsFiniteSet(prev[n])
      BY <1>1, ProgramAssumption, FS_Subset DEF Shaped
    <3> QED
      BY <1>1, <2>5, <3>1, FS_Singleton
  <2>7. n \notin input.joins
    BY <1>1, <1>2, <2>6 DEF Kept
  <2> QED
    BY <2>4, <2>5, <2>6, <2>7 DEF Forced
<1>9. Chained'
  <2> SUFFICES ASSUME NEW b \in Block, flow'[b] # Null
               PROVE  /\ Len(body'[b]) >= 1 /\ body'[b][1] = b
                      /\ flow'[b] = input.flow[body'[b][Len(body'[b])]]
                      /\ \A i \in 1..Len(body'[b]) : HeadOf(remap', body'[b][i]) = b
                      /\ \A i, j \in 1..Len(body'[b]) : body'[b][i] = body'[b][j] => i = j
                      /\ \A i \in 1..Len(body'[b]) - 1 : Forced(body'[b][i], body'[b][i + 1])
    BY <1>3 DEF Chained, Forced
  <2>1. CASE b # current
    <3>1. b # n /\ body'[b] = body[b] /\ flow'[b] = flow[b] /\ flow[b] # Null
      BY <1>3, <2>1
    <3>2. \A i \in 1..Len(body[b]) : body[b][i] \in Block /\ HeadOf(remap, body[b][i]) = b
      BY <1>1, <3>1, LenProperties DEF Chained, Shaped
    <3>3. \A i \in 1..Len(body[b]) : HeadOf(remap', body[b][i]) = b
      BY <1>5, <3>1, <3>2
    <3> QED
      BY <1>1, <3>1, <3>3 DEF Chained
  <2>2. CASE b = current
    <3> HIDE DEF s, t, u
    <3>1. Len(u) >= 1 /\ u[1] = current
      BY <1>6, <1>7
    <3>2. flow'[current] = input.flow[u[Len(u)]]
      <4>1. Len(t) \in 1..Len(t)
        BY <1>6
      <4> QED
        BY <1>2, <1>3, <1>7, <1>11, <4>1
    <3>3. \A i \in 1..Len(u) : HeadOf(remap', u[i]) = current
      <4>1. \A i \in 1..Len(s) : HeadOf(remap', s[i]) = current
        BY <1>2, <1>5, <1>6
      <4>2. \A i \in 1..Len(t) : HeadOf(remap', t[i]) = current
        BY <1>5, <1>6
      <4>3. ASSUME NEW i \in 1..Len(u)
            PROVE  \/ \E k \in 1..Len(s) : u[i] = s[k]
                   \/ \E k \in 1..Len(t) : u[i] = t[k]
        BY <1>7
      <4> QED
        BY <4>1, <4>2, <4>3
    <3>4. \A i \in 1..Len(s), k \in 1..Len(t) : s[i] # t[k]
      BY <1>2, <1>6
    <3>5. ASSUME NEW i \in 1..Len(u), NEW j \in 1..Len(u), u[i] = u[j] PROVE i = j
      <4>1. CASE i \in 1..Len(s) /\ j \in 1..Len(s)
        <5>1. u[i] = s[i] /\ u[j] = s[j]
          BY <1>7, <4>1
        <5> QED
          BY <1>11, <3>5, <4>1, <5>1
      <4>2. CASE i \in 1..Len(s) /\ \E k \in 1..Len(t) : j = Len(s) + k
        <5>1. PICK k \in 1..Len(t) : u[j] = t[k] /\ u[i] = s[i]
          BY <1>7, <4>2
        <5> QED
          BY <3>4, <3>5, <4>2, <5>1
      <4>3. CASE j \in 1..Len(s) /\ \E k \in 1..Len(t) : i = Len(s) + k
        <5>1. PICK k \in 1..Len(t) : u[i] = t[k] /\ u[j] = s[j]
          BY <1>7, <4>3
        <5> QED
          BY <3>4, <3>5, <4>3, <5>1
      <4>4. CASE (\E k \in 1..Len(t) : i = Len(s) + k) /\ \E k \in 1..Len(t) : j = Len(s) + k
        <5>1. PICK k \in 1..Len(t) : i = Len(s) + k
          BY <4>4
        <5>2. PICK l \in 1..Len(t) : j = Len(s) + l
          BY <4>4
        <5>3. t[k] = t[l]
          BY <1>7, <3>5, <5>1, <5>2
        <5> QED
          BY <1>11, <5>1, <5>2, <5>3
      <4> QED
        BY <1>7, <4>1, <4>2, <4>3, <4>4
    <3>6. ASSUME NEW i \in 1..Len(u) - 1 PROVE Forced(u[i], u[i + 1])
      <4>1. CASE i < Len(s)
        <5>1. i \in 1..Len(s) - 1 /\ i \in 1..Len(s) /\ i + 1 \in 1..Len(s)
          BY <1>6, <1>7, <4>1
        <5> QED
          BY <1>7, <1>11, <5>1
      <4>2. CASE i = Len(s)
        <5>1. Len(s) \in 1..Len(s) /\ 1 \in 1..Len(t)
          BY <1>6
        <5>2. u[i] = s[Len(s)] /\ u[i + 1] = n
          BY <1>6, <1>7, <4>2, <5>1
        <5> QED
          BY <1>8, <5>2
      <4>3. CASE i > Len(s)
        <5>1. PICK k \in 1..Len(t) - 1 : i = Len(s) + k
          <6>1. i - Len(s) \in 1..Len(t) - 1 /\ i = Len(s) + (i - Len(s))
            BY <1>6, <1>7, <4>3
          <6> QED
            BY <6>1
        <5>2. k \in 1..Len(t) /\ k + 1 \in 1..Len(t) /\ i + 1 = Len(s) + (k + 1)
          BY <1>6, <5>1
        <5>3. u[i] = t[k] /\ u[i + 1] = t[k + 1]
          BY <1>7, <5>1, <5>2
        <5> QED
          BY <1>11, <5>1, <5>3
      <4> QED
        BY <1>6, <1>7, <4>1, <4>2, <4>3
    <3>7. body'[b] = u /\ flow'[b] = flow'[current]
      BY <2>2 DEF u
    <3> QED
      BY <2>2, <3>1, <3>2, <3>3, <3>5, <3>6, <3>7
  <2> QED
    BY <2>1, <2>2
<1>10. Placed'
  <2> SUFFICES ASSUME NEW c \in Block
               PROVE  \E i \in 1..Len(body'[HeadOf(remap', c)]) : body'[HeadOf(remap', c)][i] = c
    BY DEF Placed
  <2>1. PICK i \in 1..Len(body[HeadOf(remap, c)]) : body[HeadOf(remap, c)][i] = c
    BY <1>1 DEF Placed
  <2>2. CASE HeadOf(remap, c) = n
    <3>1. Len(s) + i \in 1..Len(u) /\ u[Len(s) + i] = c
      BY <1>6, <1>7, <2>1, <2>2
    <3> QED
      BY <1>5, <2>2, <3>1
  <2>3. CASE HeadOf(remap, c) = current
    <3>1. i \in 1..Len(u) /\ u[i] = c /\ HeadOf(remap', c) = current
      BY <1>2, <1>5, <1>6, <1>7, <2>1, <2>3
    <3> QED
      BY <3>1
  <2>4. CASE HeadOf(remap, c) # n /\ HeadOf(remap, c) # current
    <3>1. HeadOf(remap, c) \in Block
      BY <1>1 DEF HeadOf, Shaped
    <3> QED
      BY <1>3, <1>5, <2>1, <2>4, <3>1
  <2> QED
    BY <2>2, <2>3, <2>4
<1> QED
  BY <1>9, <1>10 DEF BodyInv

\* What the invariant says of the blocks that are left in the end.
LEMMA BodiesInTheEnd == Inv /\ EdgeInv /\ BodyInv => BodiesAreChains
<1> SUFFICES ASSUME Inv, EdgeInv, BodyInv, stage = "done" PROVE BodiesAreChains
  BY DEF BodiesAreChains
<1>1. Shaped /\ Accounted /\ HeadsNamed /\ Chained /\ Placed /\ data = Heads
  BY DEF Inv, EdgeInv, BodyInv, Removed
<1>2. \A b \in Block : remap[b] # Null /\ HeadOf(remap, b) = remap[b]
  BY DEF Inv, AllMet, HeadOf
<1>3. Heads \subseteq Block /\ \A b \in Heads : flow[b] # Null
  BY <1>1, <1>2 DEF Heads, Accounted
<1>4. \A b \in Block : DOMAIN body[b] = 1..Len(body[b])
  BY <1>1, LenProperties DEF Shaped
<1>5. ASSUME NEW c \in Block PROVE Cardinality({b \in data : c \in Range(body[b])}) = 1
  <2>1. remap[c] \in Heads
    BY <1>1, <1>2 DEF HeadsNamed
  <2>2. c \in Range(body[remap[c]])
    BY <1>1, <1>2, <1>3, <1>4, <2>1 DEF Placed, Range
  <2>3. \A b \in Heads : c \in Range(body[b]) => b = remap[c]
    BY <1>1, <1>2, <1>3, <1>4 DEF Chained, Range
  <2>4. {b \in data : c \in Range(body[b])} = {remap[c]}
    BY <1>1, <2>1, <2>2, <2>3
  <2> QED
    BY <2>4, FS_Singleton
<1>6. ASSUME NEW b \in data
      PROVE  /\ body[b][1] = b /\ IsInjective(body[b])
             /\ flow[b] = input.flow[Last(body[b])]
             /\ \A i \in 1..Len(body[b]) - 1 : Forced(body[b][i], body[b][i + 1])
  BY <1>1, <1>3, <1>4 DEF Chained, IsInjective, Last
<1> QED
  BY <1>5, <1>6 DEF BodiesAreChains, Forced

LEMMA BodyInvariance == Spec => []BodyInv
<1>1. Inv /\ EdgeInv /\ BodyInv /\ [Next]_vars => BodyInv'
  <2> SUFFICES ASSUME Inv, EdgeInv, BodyInv, [Next]_vars PROVE BodyInv'
    OBVIOUS
  <2>1. \A b \in Block : body[b] \in Seq(Block)
    BY DEF Inv, Shaped
  <2>2. CASE \E n \in Block : Merge(n)
    BY <2>2, MergeBodies
  <2>3. CASE \E b \in Block : Visit(b)
    <3>1. PICK b \in Block : Visit(b)
      BY <2>3
    <3>2. UNCHANGED <<input, flow, body>>
      BY <3>1 DEF Visit, content
    <3>3. \A c \in Block : HeadOf(remap', c) = HeadOf(remap, c)
      BY <3>1, BlockAssumption DEF Visit, HeadOf, Inv, Shaped
    <3> QED
      BY <2>1, <3>2, <3>3, SameBodies
  <2>4. CASE Descend \/ Finish \/ UNCHANGED vars
    <3>1. UNCHANGED <<input, flow, body, remap>>
      BY <2>4 DEF Descend, Finish, content, vars
    <3>2. \A c \in Block : HeadOf(remap', c) = HeadOf(remap, c)
      BY <3>1 DEF HeadOf
    <3> QED
      BY <2>1, <3>1, <3>2, SameBodies
  <2> QED
    BY <2>2, <2>3, <2>4 DEF Next
<1> QED
  BY InitBodies, Invariance, EdgeInvariance, <1>1, PTL DEF Spec

\* No statement is lost, doubled or moved past another: a block is merged only
\* behind the one block that always goes there, and it has no phi statement.
THEOREM StatementsKept == Spec => []BodiesAreChains
<1> QED
  BY Invariance, EdgeInvariance, BodyInvariance, BodiesInTheEnd, PTL

=============================================================================

---------------------------- MODULE DominantProofs ----------------------------
(***************************************************************************)
(* Proofs about dominantMaker, for every well-formed function of any size  *)
(* and both directions.                                                    *)
(***************************************************************************)
EXTENDS Dominant, FlowGraphProofs, SequenceTheorems, WellFoundedInduction, TLAPS

(***************************************************************************)
(* Facts about the sequences of the walk.                                  *)
(***************************************************************************)

LEMMA AppendFacts ==
  ASSUME NEW S, NEW s \in Seq(S), NEW x \in S
  PROVE  /\ Append(s, x) \in Seq(S)
         /\ Len(Append(s, x)) = Len(s) + 1
         /\ \A i \in 1..Len(s) : Append(s, x)[i] = s[i]
         /\ Append(s, x)[Len(s) + 1] = x
         /\ Range(Append(s, x)) = Range(s) \cup {x}
<1>1. /\ Append(s, x) \in Seq(S)
      /\ Len(Append(s, x)) = Len(s) + 1
      /\ \A i \in 1..Len(s) : Append(s, x)[i] = s[i]
      /\ Append(s, x)[Len(s) + 1] = x
  BY AppendProperties
<1>2. DOMAIN s = 1..Len(s) /\ DOMAIN Append(s, x) = 1..(Len(s) + 1)
  BY <1>1, LenProperties
<1>3. Range(Append(s, x)) = Range(s) \cup {x}
  BY <1>1, <1>2, LenProperties DEF Range
<1> QED
  BY <1>1, <1>3

LEMMA FrontFacts ==
  ASSUME NEW S, NEW s \in Seq(S), s # <<>>
  PROVE  /\ Front(s) \in Seq(S)
         /\ Len(s) \in Nat \ {0}
         /\ Len(Front(s)) = Len(s) - 1
         /\ \A i \in 1..(Len(s) - 1) : Front(s)[i] = s[i]
         /\ Last(s) \in S
         /\ Range(s) = Range(Front(s)) \cup {Last(s)}
<1>1. Len(s) \in Nat \ {0} /\ DOMAIN s = 1..Len(s) /\ s \in [1..Len(s) -> S]
  BY EmptySeq, LenProperties
<1>2. /\ Front(s) \in Seq(S)
      /\ Len(Front(s)) = Len(s) - 1
      /\ \A i \in 1..(Len(s) - 1) : Front(s)[i] = s[i]
  BY <1>1, SubSeqProperties DEF Front
<1>3. DOMAIN Front(s) = 1..(Len(s) - 1)
  BY <1>2, LenProperties
<1>4. Last(s) \in S
  BY <1>1 DEF Last
<1>5. Range(s) = Range(Front(s)) \cup {Last(s)}
  BY <1>1, <1>2, <1>3 DEF Range, Last
<1> QED
  BY <1>1, <1>2, <1>4, <1>5

LEMMA ReverseFacts ==
  ASSUME NEW S, NEW s \in Seq(S)
  PROVE  /\ Reverse(s) \in Seq(S)
         /\ Len(Reverse(s)) = Len(s)
         /\ \A i \in 1..Len(s) : Reverse(s)[i] = s[Len(s) - i + 1]
         /\ Range(Reverse(s)) = Range(s)
<1>1. Len(s) \in Nat /\ DOMAIN s = 1..Len(s) /\ s \in [1..Len(s) -> S]
  BY LenProperties
<1>2. \A i \in 1..Len(s) : Len(s) - i + 1 \in 1..Len(s)
  BY <1>1
<1>3. Reverse(s) \in [1..Len(s) -> S]
  BY <1>1, <1>2 DEF Reverse
<1>4. Reverse(s) \in Seq(S) /\ Len(Reverse(s)) = Len(s)
  BY <1>1, <1>3
<1>5. \A i \in 1..Len(s) : Reverse(s)[i] = s[Len(s) - i + 1]
  BY DEF Reverse
<1>6. \A i \in 1..Len(s) : s[i] = Reverse(s)[Len(s) - i + 1]
  BY <1>1, <1>2, <1>5
<1>7. Range(Reverse(s)) = Range(s)
  BY <1>1, <1>2, <1>3, <1>5, <1>6 DEF Range
<1> QED
  BY <1>4, <1>5, <1>7

\* A set of positions has a greatest one.
LEMMA MaxFacts ==
  ASSUME NEW n \in Nat, NEW T \in SUBSET (1..n), T # {}
  PROVE  Max(T) \in T /\ \A y \in T : y <= Max(T)
<1> DEFINE U == {n - i : i \in T}
           less == {ss \in Nat \X Nat : ss[1] < ss[2]}
<1>1. less = OpToRel(<, Nat)
  BY DEF OpToRel
<1>2. IsWellFoundedOn(less, Nat)
  BY <1>1, NatLessThanWellFounded
<1>3. U \subseteq Nat /\ U # {}
  <2>1. \A i \in T : n - i \in Nat
    OBVIOUS
  <2>2. PICK i \in T : TRUE
    OBVIOUS
  <2>3. n - i \in U
    OBVIOUS
  <2> QED BY <2>1, <2>3
<1>4. PICK u \in U : \A v \in U : <<v, u>> \notin less
  <2> HIDE DEF U, less
  <2> QED BY <1>2, <1>3, WFMin
<1>5. PICK x \in T : u = n - x
  OBVIOUS
<1>6. \A y \in T : x >= y
  <2> SUFFICES ASSUME NEW y \in T, ~(x >= y) PROVE FALSE
    OBVIOUS
  <2>1. n - y \in U /\ n - y \in Nat /\ n - x \in Nat /\ n - y < n - x
    OBVIOUS
  <2> QED BY <1>4, <1>5, <2>1
<1>7. \E z \in T : \A y \in T : z >= y
  BY <1>6
<1>8. Max(T) \in T /\ \A y \in T : Max(T) >= y
  BY <1>7 DEF Max
<1> QED BY <1>8

\* Erasing the dummy from a sequence without repetition leaves only blocks.
LEMMA ErasedFacts ==
  ASSUME NEW s \in Seq(Node), IsInjective(s)
  PROVE  Erased(s) \in Seq(Block)
<1>1. Len(s) \in Nat /\ DOMAIN s = 1..Len(s) /\ s \in [1..Len(s) -> Node]
  BY LenProperties
<1>2. CASE Dummy \notin Range(s)
  <2>1. s \in [1..Len(s) -> Block]
    BY <1>1, <1>2 DEF Range, Node
  <2> QED BY <2>1, <1>1, <1>2 DEF Erased
<1>3. CASE Dummy \in Range(s)
  <2> DEFINE k == CHOOSE i \in 1..Len(s) : s[i] = Dummy
  <2>1. k \in 1..Len(s) /\ s[k] = Dummy
    BY <1>1, <1>3 DEF Range
  <2> HIDE DEF k
  <2>2. \A i \in 1..Len(s) : i # k => s[i] \in Block
    BY <1>1, <2>1 DEF IsInjective, Node
  <2>3. SubSeq(s, 1, k - 1) \in Seq(Block)
    BY <1>1, <2>1, <2>2, SubSeqProperties
  <2>4. SubSeq(s, k + 1, Len(s)) \in Seq(Block)
    BY <1>1, <2>1, <2>2, SubSeqProperties
  <2>5. RemoveAt(s, k) \in Seq(Block)
    BY <2>3, <2>4, ConcatProperties DEF RemoveAt
  <2> QED BY <1>3, <2>5 DEF Erased, k
<1> QED BY <1>2, <1>3

(***************************************************************************)
(* The inductive invariant.                                                *)
(***************************************************************************)

walked == Edges(flow, post)

\* next and prev are the edges of the analysis until they are swapped back.
Linked ==
  stage \in {"walk", "iterate", "build", "restore"} =>
    \A n \in Node : next[n] = SuccOf(walked, n) /\ prev[n] = PredOf(walked, n)

\* Nothing is numbered before the walk.
Fresh == stage = "link" => rpo = <<>>

\* The nodes met are those on the stack and those numbered, each once; a node
\* is numbered after all its successors are met; the root is numbered last.
Walking ==
  stage = "walk" =>
    /\ visited = Range(stack) \cup Range(rpo)
    /\ IsInjective(stack) /\ IsInjective(rpo)
    /\ Range(stack) \cap Range(rpo) = {}
    /\ \A n \in Range(rpo) : next[n] \subseteq visited
    /\ \A n \in Range(stack) : next[n] \ todo[n] \subseteq visited
    /\ \A n \in Node : todo[n] \subseteq next[n]
    /\ \A n \in Node \ visited : todo[n] = next[n]
    /\ IF stack = <<>> THEN rpo # <<>> /\ Last(rpo) = root ELSE stack[1] = root

\* The dominators of a node on the stack are below it on the stack; those of a
\* numbered node are on the stack or numbered later.
Ancestors ==
  stage = "walk" =>
    /\ \A i \in 1..Len(stack) : \A d \in Node :
         <<d, stack[i]>> \in trueDominance => \E j \in 1..i : stack[j] = d
    /\ \A i \in 1..Len(rpo) : \A d \in Node :
         <<d, rpo[i]>> \in trueDominance =>
           d \in Range(stack) \/ \E j \in i..Len(rpo) : rpo[j] = d

\* The numbering holds every node once, the root first, dominators first.
Numbering ==
  stage \in {"iterate", "build", "restore"} =>
    /\ Range(rpo) = Node /\ IsInjective(rpo)
    /\ rpo # <<>> /\ rpo[1] = root
    /\ \A i \in 1..Len(rpo) : \A d \in Node :
         <<d, rpo[i]>> \in trueDominance => \E j \in 1..i : rpo[j] = d

\* No bitset is too small; without a change so far, the nodes before the cursor
\* satisfy their equation; after the last round the bitsets are exact.
Iterating ==
  stage \in {"iterate", "build", "restore", "done"} =>
    /\ dom[root] = {root}
    /\ \A d, n \in Node : <<d, n>> \in trueDominance => d \in dom[n]
    /\ stage = "iterate" =>
         /\ cursor >= 2
         /\ ~changed =>
              \A j \in 2..Len(rpo) : j < cursor => dom[rpo[j]] = Meet(rpo[j])
    /\ stage # "iterate" =>
         \A d, n \in Node : d \in dom[n] => <<d, n>> \in trueDominance

Inv == TypeOK /\ Linked /\ Fresh /\ Walking /\ Ancestors /\ Numbering /\ Iterating

\* What the assumption on Programs says of the function under analysis.
LEMMA ProgramFacts ==
  ASSUME flow \in Programs, post \in BOOLEAN
  PROVE  /\ flow \in [Block -> FlowStmt]
         /\ walked \subseteq Node \X Node
         /\ Connected(walked, root)
         /\ root \in Node
BY ProgramAssumption, EdgesArePairs, RootIsNode DEF WellFormed, walked, root

THEOREM InitInv == Init => Inv
<1> SUFFICES ASSUME Init PROVE Inv
  OBVIOUS
<1>1. TypeOK
  BY EmptySeq DEF Init, TypeOK, Named, Nothing
<1> QED
  BY <1>1 DEF Init, Inv, Linked, Fresh, Walking, Ancestors, Numbering, Iterating

LEMMA LinkStep == ASSUME Inv, Link PROVE Inv'
<1>1. /\ flow \in [Block -> FlowStmt]
      /\ walked \subseteq Node \X Node
      /\ root \in Node
  BY ProgramFacts DEF Inv, TypeOK, Named
<1>2. walked' = walked /\ root' = root /\ trueDominance' = trueDominance
  BY DEF Link, walked, root, trueDominance
<1>3. TypeOK'
  <2>1. /\ next' \in [Node -> SUBSET Node]
        /\ prev' \in [Node -> SUBSET Node]
        /\ todo' = next'
    BY DEF Link, SuccOf, PredOf
  <2>2. stack' \in Seq(Node)
    BY <1>1 DEF Link
  <2> QED BY <1>1, <2>1, <2>2 DEF Inv, TypeOK, Named, Link
<1>4. Linked'
  BY DEF Link, Linked, walked
<1>5. /\ stack' = <<root>> /\ rpo' = <<>> /\ visited' = {root} /\ todo' = next'
      /\ stage' = "walk"
  BY DEF Link, Inv, Fresh
<1>6. Walking'
  BY <1>1, <1>2, <1>5 DEF Walking, Range, IsInjective
<1>7. Ancestors'
  BY <1>1, <1>2, <1>5, RootHasOneDominator DEF Ancestors, trueDominance, walked
<1> QED
  BY <1>3, <1>4, <1>5, <1>6, <1>7 DEF Inv, Fresh, Numbering, Iterating

LEMMA EnterStep == ASSUME Inv, NEW m \in Node, Enter(m) PROVE Inv'
<1>1. /\ flow \in [Block -> FlowStmt]
      /\ walked \subseteq Node \X Node
      /\ root \in Node
  BY ProgramFacts DEF Inv, TypeOK, Named
<1>2. walked' = walked /\ root' = root /\ trueDominance' = trueDominance
  BY DEF Enter, walked, root, trueDominance
<1>3. /\ stack \in Seq(Node) /\ rpo \in Seq(Node)
      /\ todo \in [Node -> SUBSET Node]
      /\ visited \in SUBSET Node
      /\ stage = "walk" /\ stage' = "walk"
  BY DEF Inv, TypeOK, Named, Enter
<1>4. /\ stack # <<>>
      /\ m \in todo[Last(stack)] \ visited
      /\ stack' = Append(stack, m) /\ rpo' = rpo /\ next' = next
      /\ visited' = visited \cup {m}
      /\ todo' = [todo EXCEPT ![Last(stack)] = @ \ {m}]
  BY DEF Enter
<1>5. /\ stack' \in Seq(Node)
      /\ Len(stack') = Len(stack) + 1
      /\ \A i \in 1..Len(stack) : stack'[i] = stack[i]
      /\ stack'[Len(stack) + 1] = m
      /\ Range(stack') = Range(stack) \cup {m}
  BY <1>3, <1>4, AppendFacts
<1>6. /\ Len(stack) \in Nat \ {0} /\ Last(stack) \in Node
      /\ Last(stack) = stack[Len(stack)] /\ Last(stack) \in Range(stack)
      /\ DOMAIN stack = 1..Len(stack) /\ DOMAIN stack' = 1..(Len(stack) + 1)
  BY <1>3, <1>4, <1>5, FrontFacts, LenProperties DEF Last
<1>7. /\ visited = Range(stack) \cup Range(rpo)
      /\ IsInjective(stack) /\ IsInjective(rpo)
      /\ Range(stack) \cap Range(rpo) = {}
      /\ \A n \in Range(rpo) : next[n] \subseteq visited
      /\ \A n \in Range(stack) : next[n] \ todo[n] \subseteq visited
      /\ \A n \in Node : todo[n] \subseteq next[n]
      /\ \A n \in Node \ visited : todo[n] = next[n]
      /\ stack[1] = root
  BY <1>3, <1>4 DEF Inv, Walking
<1>8. TypeOK'
  BY <1>3, <1>4, <1>5, <1>6 DEF Inv, TypeOK, Named, Enter
<1>9. Linked' /\ Fresh' /\ Numbering' /\ Iterating'
  BY <1>2, <1>3 DEF Inv, Linked, Fresh, Numbering, Iterating, Enter
<1>10. Walking'
  <2>1. m \notin Range(stack) /\ m \notin Range(rpo)
    BY <1>4, <1>7
  <2>2. IsInjective(stack')
    BY <1>5, <1>6, <1>7, <2>1 DEF IsInjective, Range
  <2>3. ASSUME NEW n \in Range(stack') PROVE next[n] \ todo'[n] \subseteq visited'
    <3>1. n \in Node /\ (n = m \/ n \in Range(stack))
      BY <1>5, <1>6 DEF Range
    <3>2. todo[n] \ todo'[n] \subseteq {m}
      BY <1>3, <1>4, <1>6, <3>1
    <3>3. next[n] \ todo[n] \subseteq visited
      BY <1>4, <1>7, <3>1
    <3> QED BY <1>4, <3>2, <3>3
  <2>4. \A n \in Node : todo'[n] \subseteq next[n]
    BY <1>3, <1>4, <1>6, <1>7
  <2>5. \A n \in Node \ visited' : todo'[n] = next[n]
    BY <1>3, <1>4, <1>6, <1>7
  <2>6. stack' # <<>> /\ stack'[1] = root'
    BY <1>2, <1>5, <1>6, <1>7
  <2> QED
    BY <1>3, <1>4, <1>5, <1>7, <2>1, <2>2, <2>3, <2>4, <2>5, <2>6 DEF Walking
<1>11. Ancestors'
  <2>1. \A i \in 1..Len(stack) : \A d \in Node :
          <<d, stack[i]>> \in trueDominance => \E j \in 1..i : stack[j] = d
    BY <1>3 DEF Inv, Ancestors
  <2>2. ASSUME NEW i \in 1..Len(stack'), NEW d \in Node,
               <<d, stack'[i]>> \in trueDominance
        PROVE  \E j \in 1..i : stack'[j] = d
    <3>1. CASE i \in 1..Len(stack)
      BY <1>5, <1>6, <2>1, <2>2, <3>1
    <3>2. CASE i = Len(stack) + 1 /\ d # m
      <4>1. <<Last(stack), m>> \in walked
        BY <1>3, <1>4, <1>6, <1>7, <1>8 DEF Inv, Linked, SuccOf
      <4>2. <<d, Last(stack)>> \in trueDominance
        BY <1>5, <1>6, <2>2, <3>2, <4>1, DominatesPredecessors
           DEF trueDominance, walked
      <4>3. PICK j \in 1..Len(stack) : stack[j] = d
        BY <1>6, <2>1, <4>2
      <4> QED BY <1>5, <1>6, <3>2, <4>3
    <3>3. CASE i = Len(stack) + 1 /\ d = m
      BY <1>5, <1>6, <3>3
    <3> QED BY <1>5, <1>6, <3>1, <3>2, <3>3
  <2>3. \A i \in 1..Len(rpo) : \A d \in Node :
          <<d, rpo[i]>> \in trueDominance =>
             d \in Range(stack) \/ \E j \in i..Len(rpo) : rpo[j] = d
    BY <1>3 DEF Inv, Ancestors
  <2> QED
    BY <1>2, <1>3, <1>4, <1>5, <2>2, <2>3 DEF Ancestors
<1> QED
  BY <1>8, <1>9, <1>10, <1>11 DEF Inv

LEMMA LeaveStep == ASSUME Inv, Leave PROVE Inv'
<1>1. walked' = walked /\ root' = root /\ trueDominance' = trueDominance
  BY DEF Leave, walked, root, trueDominance
<1>2. /\ stack \in Seq(Node) /\ rpo \in Seq(Node)
      /\ stage = "walk" /\ stage' = "walk"
  BY DEF Inv, TypeOK, Named, Leave
<1> DEFINE n == Last(stack)
<1>3. /\ stack # <<>>
      /\ todo[n] \subseteq visited
      /\ stack' = Front(stack) /\ rpo' = Append(rpo, n)
      /\ next' = next /\ visited' = visited /\ todo' = todo
  BY DEF Leave
<1>4. /\ stack' \in Seq(Node)
      /\ Len(stack) \in Nat \ {0} /\ Len(stack') = Len(stack) - 1
      /\ \A i \in 1..(Len(stack) - 1) : stack'[i] = stack[i]
      /\ Range(stack) = Range(stack') \cup {n}
      /\ n \in Node /\ n = stack[Len(stack)]
      /\ DOMAIN stack = 1..Len(stack) /\ DOMAIN stack' = 1..(Len(stack) - 1)
  BY <1>2, <1>3, FrontFacts, LenProperties DEF Last
<1>5. /\ rpo' \in Seq(Node)
      /\ Len(rpo) \in Nat /\ Len(rpo') = Len(rpo) + 1
      /\ \A i \in 1..Len(rpo) : rpo'[i] = rpo[i]
      /\ rpo'[Len(rpo) + 1] = n
      /\ Range(rpo') = Range(rpo) \cup {n}
      /\ DOMAIN rpo = 1..Len(rpo) /\ DOMAIN rpo' = 1..(Len(rpo) + 1)
  BY <1>2, <1>3, <1>4, AppendFacts, LenProperties
<1> HIDE DEF n
<1>6. /\ visited = Range(stack) \cup Range(rpo)
      /\ IsInjective(stack) /\ IsInjective(rpo)
      /\ Range(stack) \cap Range(rpo) = {}
      /\ \A k \in Range(rpo) : next[k] \subseteq visited
      /\ \A k \in Range(stack) : next[k] \ todo[k] \subseteq visited
      /\ \A k \in Node : todo[k] \subseteq next[k]
      /\ \A k \in Node \ visited : todo[k] = next[k]
      /\ stack[1] = root
  BY <1>2, <1>3 DEF Inv, Walking
<1>7. TypeOK'
  BY <1>2, <1>3, <1>4, <1>5 DEF Inv, TypeOK, Named, Leave
<1>8. Linked' /\ Fresh' /\ Numbering' /\ Iterating'
  BY <1>1, <1>2 DEF Inv, Linked, Fresh, Numbering, Iterating, Leave
<1>9. Walking'
  <2>1. n \notin Range(stack')
    BY <1>4, <1>6 DEF IsInjective, Range
  <2>2. n \notin Range(rpo)
    BY <1>4, <1>6
  <2>3. IsInjective(stack')
    BY <1>4, <1>6 DEF IsInjective
  <2>4. IsInjective(rpo')
    BY <1>5, <1>6, <2>2 DEF IsInjective, Range
  <2>5. \A k \in Range(rpo') : next[k] \subseteq visited
    BY <1>3, <1>4, <1>5, <1>6
  <2>6. IF stack' = <<>> THEN rpo' # <<>> /\ Last(rpo') = root' ELSE stack'[1] = root'
    <3>1. CASE stack' = <<>>
      <4>1. Len(stack) = 1
        BY <1>4, <3>1
      <4> QED BY <1>1, <1>4, <1>5, <1>6, <3>1, <4>1 DEF Last
    <3>2. CASE stack' # <<>>
      <4>1. Len(stack') # 0
        BY <1>4, <3>2, EmptySeq
      <4> QED BY <1>1, <1>4, <1>6, <3>2, <4>1
    <3> QED BY <3>1, <3>2
  <2> QED
    BY <1>2, <1>3, <1>4, <1>5, <1>6, <2>1, <2>2, <2>3, <2>4, <2>5, <2>6 DEF Walking
<1>10. Ancestors'
  <2>1. /\ \A i \in 1..Len(stack) : \A d \in Node :
             <<d, stack[i]>> \in trueDominance => \E j \in 1..i : stack[j] = d
        /\ \A i \in 1..Len(rpo) : \A d \in Node :
             <<d, rpo[i]>> \in trueDominance =>
               d \in Range(stack) \/ \E j \in i..Len(rpo) : rpo[j] = d
    BY <1>2 DEF Inv, Ancestors
  <2>2. ASSUME NEW i \in 1..Len(stack'), NEW d \in Node,
               <<d, stack'[i]>> \in trueDominance
        PROVE  \E j \in 1..i : stack'[j] = d
    <3>1. i \in 1..(Len(stack) - 1) /\ i \in 1..Len(stack) /\ stack'[i] = stack[i]
      BY <1>4
    <3>2. PICK j \in 1..i : stack[j] = d
      BY <2>1, <2>2, <3>1
    <3>3. j \in 1..(Len(stack) - 1)
      BY <3>1, <1>4
    <3> QED BY <1>4, <3>2, <3>3
  <2>3. ASSUME NEW i \in 1..Len(rpo'), NEW d \in Node,
               <<d, rpo'[i]>> \in trueDominance
        PROVE  d \in Range(stack') \/ \E j \in i..Len(rpo') : rpo'[j] = d
    <3>1. CASE d = n
      BY <1>5, <3>1
    <3>2. CASE d # n /\ i \in 1..Len(rpo)
      <4>1. d \in Range(stack) \/ \E j \in i..Len(rpo) : rpo[j] = d
        BY <1>5, <2>1, <2>3, <3>2
      <4>2. CASE d \in Range(stack)
        BY <1>4, <3>2, <4>2
      <4>3. CASE \E j \in i..Len(rpo) : rpo[j] = d
        BY <1>5, <3>2, <4>3
      <4> QED BY <4>1, <4>2, <4>3
    <3>3. CASE d # n /\ i = Len(rpo) + 1
      <4>1. PICK j \in 1..Len(stack) : stack[j] = d
        BY <1>4, <1>5, <2>1, <2>3, <3>3
      <4> QED BY <1>4, <3>3, <4>1 DEF Range
    <3> QED BY <1>5, <3>1, <3>2, <3>3
  <2> QED BY <1>1, <1>2, <2>2, <2>3 DEF Ancestors
<1> QED
  BY <1>7, <1>8, <1>9, <1>10 DEF Inv

\* All nodes have been met when the walk is over: what was met is closed.
LEMMA WalkMeetsAll ==
  ASSUME Inv, stage = "walk", stack = <<>>
  PROVE  Range(rpo) = Node
<1>1. /\ walked \subseteq Node \X Node /\ Connected(walked, root)
      /\ rpo \in Seq(Node) /\ DOMAIN rpo = 1..Len(rpo) /\ Len(rpo) \in Nat
      /\ Range(rpo) \subseteq Node
  BY ProgramFacts, LenProperties DEF Inv, TypeOK, Named, Range
<1>2. /\ visited = Range(rpo)
      /\ \A n \in Range(rpo) : next[n] \subseteq Range(rpo)
      /\ rpo # <<>> /\ Last(rpo) = root
  BY DEF Inv, Walking, Range
<1>3. root \in Range(rpo)
  BY <1>1, <1>2, EmptySeq DEF Last, Range
<1>4. ASSUME NEW e \in walked, e[1] \in Range(rpo) PROVE e[2] \in Range(rpo)
  <2>1. e = <<e[1], e[2]>> /\ e[1] \in Node /\ e[2] \in Node
    BY <1>1
  <2>2. e[2] \in next[e[1]]
    BY <2>1 DEF Inv, Linked, SuccOf
  <2> QED BY <1>2, <1>4, <2>2
<1> QED
  BY <1>1, <1>3, <1>4 DEF Connected, Closed

LEMMA StartIterateStep == ASSUME Inv, StartIterate PROVE Inv'
<1>1. walked' = walked /\ root' = root /\ trueDominance' = trueDominance
  BY DEF StartIterate, walked, root, trueDominance
<1>2. /\ rpo \in Seq(Node) /\ Len(rpo) \in Nat
      /\ stage = "walk" /\ stack = <<>> /\ stage' = "iterate"
      /\ root \in Node
  BY ProgramFacts, LenProperties DEF Inv, TypeOK, Named, StartIterate
<1>3. /\ rpo' \in Seq(Node) /\ Len(rpo') = Len(rpo)
      /\ \A i \in 1..Len(rpo) : rpo'[i] = rpo[Len(rpo) - i + 1]
      /\ Range(rpo') = Range(rpo)
      /\ DOMAIN rpo = 1..Len(rpo) /\ DOMAIN rpo' = 1..Len(rpo)
  BY <1>2, ReverseFacts, LenProperties DEF StartIterate, Numbered
<1>4. Range(rpo) = Node
  BY <1>2, WalkMeetsAll
<1>5. /\ dom' \in [Node -> SUBSET Node] /\ dom'[root] = {root}
      /\ \A n \in Node : n # root => dom'[n] = Node
  BY <1>2, <1>4 DEF StartIterate, Initially
<1>6. TypeOK'
  BY <1>2, <1>3, <1>5 DEF Inv, TypeOK, Named, StartIterate, walk
<1>7. Linked'
  BY <1>1, <1>2 DEF Inv, Linked, StartIterate
<1>8. Numbering'
  <2>1. /\ IsInjective(rpo) /\ rpo # <<>> /\ Last(rpo) = root
    BY <1>2 DEF Inv, Walking
  <2>2. IsInjective(rpo')
    <3> SUFFICES ASSUME NEW i \in 1..Len(rpo), NEW j \in 1..Len(rpo), rpo'[i] = rpo'[j]
                 PROVE  i = j
      BY <1>3 DEF IsInjective
    <3>1. Len(rpo) - i + 1 \in 1..Len(rpo) /\ Len(rpo) - j + 1 \in 1..Len(rpo)
      BY <1>2
    <3>2. Len(rpo) - i + 1 = Len(rpo) - j + 1
      BY <1>3, <2>1, <3>1 DEF IsInjective
    <3> QED BY <1>2, <3>2
  <2>3. Len(rpo) >= 1
    BY <1>2, <2>1, EmptySeq
  <2>4. rpo' # <<>> /\ rpo'[1] = root
    BY <1>2, <1>3, <2>1, <2>3 DEF Last
  <2>5. ASSUME NEW i \in 1..Len(rpo), NEW d \in Node, <<d, rpo'[i]>> \in trueDominance
        PROVE  \E j \in 1..i : rpo'[j] = d
    <3>1. Len(rpo) - i + 1 \in 1..Len(rpo) /\ rpo'[i] = rpo[Len(rpo) - i + 1]
      BY <1>2, <1>3
    <3>2. \E j \in (Len(rpo) - i + 1)..Len(rpo) : rpo[j] = d
      BY <1>2, <2>5, <3>1 DEF Inv, Ancestors, Range
    <3>3. PICK j \in (Len(rpo) - i + 1)..Len(rpo) : rpo[j] = d
      BY <3>2
    <3>4. Len(rpo) - j + 1 \in 1..i /\ Len(rpo) - (Len(rpo) - j + 1) + 1 = j
      BY <1>2, <3>3
    <3>5. rpo'[Len(rpo) - j + 1] = d
      BY <1>2, <1>3, <3>3, <3>4
    <3> QED BY <3>4, <3>5
  <2> QED
    BY <1>1, <1>3, <1>4, <2>2, <2>4, <2>5 DEF Numbering
<1>9. Iterating'
  <2>1. \A d, n \in Node : <<d, n>> \in trueDominance => d \in dom'[n]
    BY <1>2, <1>5, RootHasOneDominator DEF trueDominance
  <2>2. cursor' = 2 /\ \A j \in 2..Len(rpo') : ~(j < cursor')
    BY DEF StartIterate
  <2> QED
    BY <1>1, <1>2, <1>5, <2>1, <2>2 DEF Iterating
<1>10. Fresh' /\ Walking' /\ Ancestors'
  BY <1>2 DEF Fresh, Walking, Ancestors
<1> QED
  BY <1>6, <1>7, <1>8, <1>9, <1>10 DEF Inv

\* The meet keeps every dominator: one that is not the node itself dominates
\* all predecessors.
LEMMA MeetKeepsDominators ==
  ASSUME Inv, stage = "iterate",
         NEW n \in Node, NEW d \in Node, <<d, n>> \in trueDominance
  PROVE  d \in Meet(n)
<1>1. CASE d = n
  BY <1>1 DEF Meet
<1>2. CASE d # n
  <2> SUFFICES ASSUME NEW p \in prev[n] PROVE d \in dom[p]
    BY DEF Meet
  <2>1. p \in Node /\ <<p, n>> \in walked
    BY DEF Inv, Linked, PredOf
  <2>2. <<d, p>> \in trueDominance
    BY <1>2, <2>1, DominatesPredecessors DEF trueDominance, walked
  <2> QED BY <2>1, <2>2 DEF Inv, Iterating
<1> QED BY <1>1, <1>2

LEMMA UpdateStep == ASSUME Inv, Update PROVE Inv'
<1>1. walked' = walked /\ root' = root /\ trueDominance' = trueDominance
  BY DEF Update, walked, root, trueDominance
<1> DEFINE n == rpo[cursor]
<1>2. /\ stage = "iterate" /\ stage' = "iterate"
      /\ rpo' = rpo /\ rpo \in Seq(Node) /\ Len(rpo) \in Nat /\ DOMAIN rpo = 1..Len(rpo)
      /\ cursor \in Nat /\ cursor >= 2 /\ cursor <= Len(rpo) /\ cursor' = cursor + 1
      /\ dom \in [Node -> SUBSET Node] /\ dom' = [dom EXCEPT ![n] = Meet(n)]
      /\ prev' = prev /\ root \in Node
  BY ProgramFacts, LenProperties DEF Inv, TypeOK, Named, Iterating, Update
<1>3. /\ IsInjective(rpo) /\ rpo[1] = root
      /\ dom[root] = {root}
      /\ \A d, m \in Node : <<d, m>> \in trueDominance => d \in dom[m]
  BY <1>2 DEF Inv, Numbering, Iterating
<1>4. n \in Node /\ n # root /\ Meet(n) \in SUBSET Node
  <2>1. cursor \in 1..Len(rpo) /\ 1 \in 1..Len(rpo)
    BY <1>2
  <2> QED BY <1>2, <1>3, <2>1, ElementOfSeq DEF IsInjective, Meet
<1>5. TypeOK'
  BY <1>2, <1>4 DEF Inv, TypeOK, Named, Update, Changed, walk
<1>6. Linked' /\ Fresh' /\ Walking' /\ Ancestors' /\ Numbering'
  BY <1>1, <1>2 DEF Inv, Linked, Fresh, Walking, Ancestors, Numbering, Update
<1>7. Iterating'
  <2>1. dom'[root] = {root}
    BY <1>2, <1>3, <1>4
  <2>2. \A d, m \in Node : <<d, m>> \in trueDominance => d \in dom'[m]
    BY <1>2, <1>3, <1>4, MeetKeepsDominators
  <2>3. ASSUME ~changed', NEW j \in 2..Len(rpo), j < cursor'
        PROVE  dom'[rpo[j]] = Meet(rpo[j])'
    <3>1. ~changed /\ dom' = dom
      BY <2>3 DEF Update, Changed
    <3>2. Meet(rpo[j])' = Meet(rpo[j])
      BY <1>2, <3>1 DEF Meet
    <3>3. CASE j = cursor
      BY <1>2, <1>4, <3>1, <3>2, <3>3
    <3>4. CASE j < cursor
      BY <1>2, <3>1, <3>2, <3>4 DEF Inv, Iterating
    <3> QED BY <1>2, <2>3, <3>3, <3>4
  <2> QED
    BY <1>1, <1>2, <2>1, <2>2, <2>3 DEF Iterating
<1> QED
  BY <1>5, <1>6, <1>7 DEF Inv

\* Bitsets that satisfy all equations are exact: the nodes d is missing from
\* are a set that avoids d.
LEMMA FixpointHasOnlyDominators ==
  ASSUME Inv, stage = "iterate", ~changed, cursor > Len(rpo),
         NEW d \in Node, NEW n \in Node, d \in dom[n]
  PROVE  <<d, n>> \in trueDominance
<1> DEFINE S == {m \in Node : d \notin dom[m]}
<1>1. /\ root \in Node /\ walked \subseteq Node \X Node
      /\ rpo \in Seq(Node) /\ Len(rpo) \in Nat /\ DOMAIN rpo = 1..Len(rpo)
      /\ Range(rpo) = Node /\ rpo[1] = root /\ dom[root] = {root} /\ cursor \in Nat
  BY ProgramFacts, LenProperties DEF Inv, TypeOK, Named, Numbering, Iterating
<1>2. ASSUME NEW m \in Node, m # root PROVE dom[m] = Meet(m)
  <2>1. PICK j \in 1..Len(rpo) : rpo[j] = m
    BY <1>1 DEF Range
  <2>2. j \in 2..Len(rpo) /\ j < cursor
    BY <1>1, <1>2, <2>1
  <2> QED BY <2>1, <2>2 DEF Inv, Iterating
<1>3. d \notin S
  BY <1>1, <1>2 DEF Meet
<1>4. root \in S \cup {d}
  BY <1>1
<1>5. ASSUME NEW e \in walked, e[1] \in S PROVE e[2] \in S \cup {d}
  <2>1. e = <<e[1], e[2]>> /\ e[1] \in Node /\ e[2] \in Node
    BY <1>1
  <2>2. e[1] \in prev[e[2]]
    BY <2>1 DEF Inv, Linked, PredOf
  <2>3. CASE e[2] = root
    BY <1>4, <2>3
  <2>4. CASE e[2] # root /\ e[2] # d
    <3>1. d \notin Meet(e[2])
      BY <1>5, <2>2, <2>4 DEF Meet
    <3> QED BY <1>2, <2>1, <2>4, <3>1
  <2> QED BY <2>1, <2>3, <2>4
<1>6. n \notin S /\ S \in SUBSET Node
  OBVIOUS
<1>7. Avoids(walked, root, d, S)
  BY <1>3, <1>4, <1>5 DEF Avoids
<1> QED
  BY <1>6, <1>7, DominanceWitness DEF trueDominance, walked

LEMMA EndRoundStep == ASSUME Inv, EndRound PROVE Inv'
<1>1. walked' = walked /\ root' = root /\ trueDominance' = trueDominance
  BY DEF EndRound, walked, root, trueDominance
<1>2. /\ stage = "iterate" /\ cursor > Len(rpo)
      /\ rpo' = rpo /\ dom' = dom /\ prev' = prev /\ ~changed'
      /\ changed \in BOOLEAN
      /\ \/ changed /\ cursor' = 2 /\ stage' = "iterate"
         \/ ~changed /\ cursor' = cursor /\ stage' = "build"
  BY DEF Inv, TypeOK, Named, EndRound
<1>3. TypeOK'
  <2>1. Named' = Named /\ cursor' \in Nat /\ stage' \in {"iterate", "build"}
    BY <1>2 DEF Inv, TypeOK, Named
  <2>2. UNCHANGED <<flow, post, next, prev, stack, todo, visited, rpo, dom, result>>
        /\ changed' \in BOOLEAN
    BY DEF EndRound, walk
  <2> QED BY <2>1, <2>2 DEF Inv, TypeOK
<1>4. Linked' /\ Fresh' /\ Walking' /\ Ancestors' /\ Numbering'
  BY <1>1, <1>2 DEF Inv, Linked, Fresh, Walking, Ancestors, Numbering, EndRound
<1>5. Iterating'
  <2>1. /\ dom'[root'] = {root'}
        /\ \A d, n \in Node : <<d, n>> \in trueDominance' => d \in dom'[n]
    BY <1>1, <1>2 DEF Inv, Iterating
  <2>2. CASE changed
    BY <1>2, <2>1, <2>2 DEF Iterating
  <2>3. CASE ~changed
    BY <1>1, <1>2, <2>1, <2>3, FixpointHasOnlyDominators DEF Iterating
  <2> QED BY <1>2, <2>2, <2>3
<1> QED
  BY <1>3, <1>4, <1>5 DEF Inv

LEMMA BuildDomTreeStep == ASSUME Inv, BuildDomTree PROVE Inv'
<1>1. walked' = walked /\ root' = root /\ trueDominance' = trueDominance
  BY DEF BuildDomTree, walked, root, trueDominance
<1>2. /\ stage = "build" /\ stage' = "restore"
      /\ rpo' = rpo /\ dom' = dom /\ prev' = prev /\ next' = next
      /\ rpo \in Seq(Node) /\ Len(rpo) \in Nat /\ DOMAIN rpo = 1..Len(rpo)
      /\ dom \in [Node -> SUBSET Node]
  BY LenProperties DEF Inv, TypeOK, Named, BuildDomTree, iteration
<1>3. ASSUME NEW n \in Node PROVE LastBefore(n) \in Node \cup {Null}
  <2> DEFINE at == {i \in 1..Len(rpo) : rpo[i] \in dom[n] \ {n}}
  <2>1. CASE at = {}
    BY <2>1 DEF LastBefore
  <2>2. CASE at # {}
    <3>1. Max(at) \in at
      <4>1. at \in SUBSET (1..Len(rpo))
        OBVIOUS
      <4> HIDE DEF at
      <4> QED BY <1>2, <2>2, <4>1, MaxFacts
    <3>2. rpo[Max(at)] \in Node
      BY <1>2, <3>1
    <3> QED BY <2>2, <3>2 DEF LastBefore
  <2> QED BY <2>1, <2>2
<1>4. result' \in [Node -> [dom : SUBSET Node, fro : SUBSET Node, idom : Node \cup {Null}]]
  BY <1>2, <1>3 DEF BuildDomTree
<1>5. TypeOK'
  <2>1. /\ flow \in Programs /\ post \in BOOLEAN
        /\ next \in [Node -> SUBSET Node] /\ prev \in [Node -> SUBSET Node]
        /\ stack \in Seq(Node) /\ todo \in [Node -> SUBSET Node] /\ visited \in SUBSET Node
        /\ cursor \in Nat /\ changed \in BOOLEAN
    BY DEF Inv, TypeOK, Named
  <2>2. UNCHANGED <<flow, post, next, prev, stack, todo, visited, cursor, changed>>
    BY DEF BuildDomTree, walk, iteration
  <2>3. Named' = Node
    BY <1>2 DEF Named
  <2> QED BY <1>2, <1>4, <2>1, <2>2, <2>3 DEF TypeOK
<1>6. Linked' /\ Fresh' /\ Walking' /\ Ancestors' /\ Numbering'
  BY <1>1, <1>2 DEF Inv, Linked, Fresh, Walking, Ancestors, Numbering
<1>7. Iterating'
  BY <1>1, <1>2 DEF Inv, Iterating
<1> QED
  BY <1>5, <1>6, <1>7 DEF Inv

LEMMA RemoveDummyStep == ASSUME Inv, RemoveDummy PROVE Inv'
<1>1. walked' = walked /\ root' = root /\ trueDominance' = trueDominance
  BY DEF RemoveDummy, walked, root, trueDominance
<1>2. /\ stage = "restore" /\ stage' = "done" /\ dom' = dom
      /\ rpo \in Seq(Node) /\ rpo' = Erased(rpo)
      /\ IsInjective(rpo)
  BY DEF Inv, TypeOK, Named, Numbering, RemoveDummy, iteration
<1>3. rpo' \in Seq(Block)
  BY <1>2, ErasedFacts
<1>4. /\ next \in [Node -> SUBSET Node] /\ prev \in [Node -> SUBSET Node]
      /\ result \in [Node -> [dom : SUBSET Node, fro : SUBSET Node, idom : Node \cup {Null}]]
  BY <1>2 DEF Inv, TypeOK, Named
<1>5. next' \in [Node -> SUBSET Node] /\ prev' \in [Node -> SUBSET Node]
  BY <1>4 DEF RemoveDummy, SwappedBack
<1>6. result' \in [Node -> [dom : SUBSET Block, fro : SUBSET Block, idom : Node \cup {Null}]]
  <2>1. ASSUME NEW n \in Node
        PROVE  WithoutDummy(result[n]) \in
                 [dom : SUBSET Block, fro : SUBSET Block, idom : Node \cup {Null}]
    BY <1>4 DEF WithoutDummy, Node
  <2> QED BY <2>1 DEF RemoveDummy
<1>7. TypeOK'
  BY <1>2, <1>3, <1>5, <1>6 DEF Inv, TypeOK, Named, RemoveDummy, walk, iteration
<1>8. Linked' /\ Fresh' /\ Walking' /\ Ancestors' /\ Numbering'
  BY <1>2 DEF Linked, Fresh, Walking, Ancestors, Numbering
<1>9. Iterating'
  BY <1>1, <1>2 DEF Inv, Iterating
<1> QED
  BY <1>7, <1>8, <1>9 DEF Inv

LEMMA StutterStep == ASSUME Inv, UNCHANGED vars PROVE Inv'
<1>1. /\ walked' = walked /\ root' = root /\ trueDominance' = trueDominance
      /\ \A n \in Node : Meet(n)' = Meet(n)
  BY DEF vars, walked, root, trueDominance, Meet
<1>2. TypeOK'
  BY DEF Inv, TypeOK, Named, vars
<1>3. Linked' /\ Fresh' /\ Walking' /\ Ancestors' /\ Numbering'
  BY <1>1 DEF Inv, Linked, Fresh, Walking, Ancestors, Numbering, vars
<1>4. Iterating'
  BY <1>1 DEF Inv, TypeOK, Named, Iterating, vars, Meet
<1> QED BY <1>2, <1>3, <1>4 DEF Inv

(***************************************************************************)
(* The theorems.                                                           *)
(***************************************************************************)

\* The invariant holds of every run of the analysis.
THEOREM Invariance == Spec => []Inv
<1>1. Inv /\ [Next]_vars => Inv'
  BY LinkStep, EnterStep, LeaveStep, StartIterateStep, UpdateStep, EndRoundStep,
     BuildDomTreeStep, RemoveDummyStep, StutterStep DEF Next
<1> QED
  BY InitInv, <1>1, PTL DEF Spec

\* Every variable keeps its shape, and after removeDummy no list of a block and
\* no numbering names the dummy.
THEOREM TypeCorrect == Spec => []TypeOK
<1>1. Inv => TypeOK
  BY DEF Inv
<1> QED BY Invariance, <1>1, PTL

\* No round of iterate drops a true dominator from a bitset.
THEOREM DominatorsKept == Spec => []NeverLosesADominator
<1>1. Inv => NeverLosesADominator
  <2> SUFFICES ASSUME Inv, stage \in {"iterate", "build"}, NEW e \in trueDominance
               PROVE  e[1] \in dom[e[2]]
    BY DEF NeverLosesADominator
  <2>1. e = <<e[1], e[2]>> /\ e[1] \in Node /\ e[2] \in Node
    BY DEF trueDominance, Dominance
  <2> QED BY <2>1 DEF Inv, Iterating
<1> QED BY Invariance, <1>1, PTL

\* When iterate ends, the bitsets are exactly the dominator sets.
THEOREM IterationExact == Spec => []FixpointIsExact
<1>1. Inv => FixpointIsExact
  <2> SUFFICES ASSUME Inv, stage \in {"build", "restore", "done"}, NEW n \in Node
               PROVE  dom[n] = DominatorsOf(trueDominance, n)
    BY DEF FixpointIsExact
  <2>1. dom[n] \subseteq Node
    BY DEF Inv, TypeOK, Named
  <2> QED BY <2>1 DEF Inv, Iterating, DominatorsOf
<1> QED BY Invariance, <1>1, PTL

\* The step that ends the analysis leaves the edges of the flow statements.
LEMMA RemoveDummyRestores ==
  ASSUME Inv, RemoveDummy
  PROVE  CfgRestored'
<1>1. /\ flow \in [Block -> FlowStmt] /\ post \in BOOLEAN /\ Dummy \notin Block
      /\ flow' = flow
  BY ProgramFacts, BlockAssumption DEF Inv, TypeOK, RemoveDummy
<1>2. ASSUME NEW b \in Block
      PROVE  /\ next'[b] = (IF post THEN prev[b] ELSE next[b]) \ {Dummy}
             /\ prev'[b] = (IF post THEN next[b] ELSE prev[b]) \ {Dummy}
  BY <1>1 DEF RemoveDummy, SwappedBack, Node
<1>3. ASSUME NEW b \in Block
      PROVE  /\ (IF post THEN prev[b] ELSE next[b]) = {m \in Node : <<b, m>> \in ForwardEdges(flow)}
             /\ (IF post THEN next[b] ELSE prev[b]) = {m \in Node : <<m, b>> \in ForwardEdges(flow)}
  <2>1. next[b] = SuccOf(walked, b) /\ prev[b] = PredOf(walked, b)
    BY DEF Inv, Linked, RemoveDummy, Node
  <2> QED BY <1>1, <2>1, EdgeBetween DEF SuccOf, PredOf, walked
<1>4. ASSUME NEW b \in Block PROVE next'[b] = Range(flow[b].to)
  <2>1. {m \in Node : <<b, m>> \in ForwardEdges(flow)} \ {Dummy} = Range(flow[b].to)
    BY <1>1, TargetFacts DEF Node
  <2> QED BY <1>2, <1>3, <2>1
<1>5. ASSUME NEW b \in Block PROVE prev'[b] = {c \in Block : b \in Range(flow[c].to)}
  <2>1. {m \in Node : <<m, b>> \in ForwardEdges(flow)} \ {Dummy}
          = {c \in Block : <<c, b>> \in ForwardEdges(flow)}
    BY <1>1 DEF Node
  <2>2. \A c \in Block : <<c, b>> \in ForwardEdges(flow) <=> b \in Range(flow[c].to)
    BY <1>1, TargetFacts
  <2> QED BY <1>2, <1>3, <2>1, <2>2
<1> QED
  BY <1>1, <1>4, <1>5 DEF CfgRestored

\* After the analysis next and prev are the edges of the flow statements.
THEOREM EdgesRestored == Spec => []CfgRestored
<1>1. Init => CfgRestored
  BY DEF Init, CfgRestored
<1>2. Inv /\ CfgRestored /\ [Next]_vars => CfgRestored'
  <2> SUFFICES ASSUME Inv, CfgRestored, [Next]_vars PROVE CfgRestored'
    OBVIOUS
  <2>1. CASE RemoveDummy
    BY <2>1, RemoveDummyRestores
  <2>2. CASE Link \/ (\E m \in Node : Enter(m)) \/ Leave \/ StartIterate \/ Update
               \/ EndRound \/ BuildDomTree
    <3>1. stage' # "done"
      BY <2>2 DEF Link, Enter, Leave, StartIterate, Update, EndRound, BuildDomTree
    <3> QED BY <3>1 DEF CfgRestored
  <2>3. CASE UNCHANGED vars
    BY <2>3 DEF vars, CfgRestored
  <2> QED BY <2>1, <2>2, <2>3 DEF Next
<1> QED BY Invariance, <1>1, <1>2, PTL DEF Spec

\* The reverse post-order puts dominators first.
THEOREM NumberingSound == Spec => []DominatorsComeFirst
<1>1. Inv => DominatorsComeFirst
  <2> SUFFICES ASSUME Inv, stage = "build",
                      NEW i \in 1..Len(rpo), NEW j \in 1..Len(rpo),
                      <<rpo[i], rpo[j]>> \in trueDominance
               PROVE  i <= j
    BY DEF DominatorsComeFirst
  <2>1. /\ rpo \in Seq(Node) /\ Len(rpo) \in Nat /\ DOMAIN rpo = 1..Len(rpo)
        /\ rpo[i] \in Node
    BY LenProperties, ElementOfSeq DEF Inv, TypeOK, Named
  <2>2. PICK k \in 1..j : rpo[k] = rpo[i]
    BY <2>1 DEF Inv, Numbering
  <2>3. k = i
    BY <2>1, <2>2 DEF Inv, Numbering, IsInjective
  <2> QED BY <2>2, <2>3
<1> QED BY Invariance, <1>1, PTL

(***************************************************************************)
(* The refinement of DominatorTree.                                        *)
(***************************************************************************)

\* The last dominator before n in the numbering is its immediate dominator.
LEMMA LastBeforeIsImmediate ==
  ASSUME Inv, stage = "restore", NEW n \in Node
  PROVE  LastBefore(n) = ImmediateDominator(trueDominance, root, n)
<1> DEFINE strict == DominatorsOf(trueDominance, n) \ {n}
           at == {i \in 1..Len(rpo) : rpo[i] \in dom[n] \ {n}}
<1>1. /\ rpo \in Seq(Node) /\ Len(rpo) \in Nat /\ DOMAIN rpo = 1..Len(rpo)
      /\ Range(rpo) = Node /\ IsInjective(rpo) /\ root \in Node
      /\ \A i \in 1..Len(rpo) : rpo[i] \in Node
  BY ProgramFacts, LenProperties, ElementOfSeq DEF Inv, TypeOK, Named, Numbering
<1>2. dom[n] \ {n} = strict
  BY DEF Inv, TypeOK, Iterating, DominatorsOf
<1>3. CASE n = root
  <2>1. dom[n] \ {n} = {}
    BY <1>3 DEF Inv, Iterating
  <2> QED BY <1>3, <2>1 DEF LastBefore, ImmediateDominator
<1>4. CASE n # root
  <2>1. root \in strict
    BY <1>1, <1>4, RootDominatesAll DEF DominatorsOf, trueDominance
  <2>2. PICK r \in 1..Len(rpo) : rpo[r] = root
    BY <1>1 DEF Range
  <2>3. at \in SUBSET (1..Len(rpo)) /\ at # {}
    BY <1>2, <2>1, <2>2
  <2>4. Max(at) \in at /\ \A i \in at : i <= Max(at)
    <3> HIDE DEF at
    <3> QED BY <1>1, <2>3, MaxFacts
  <2> DEFINE d == rpo[Max(at)]
  <2>5. d \in strict /\ d \in Node
    BY <1>1, <1>2, <2>4
  <2>6. ASSUME NEW e \in strict PROVE <<e, d>> \in trueDominance
    <3>1. e \in Node /\ <<e, n>> \in trueDominance /\ <<d, n>> \in trueDominance
      BY <2>5 DEF DominatorsOf
    <3>2. PICK i \in 1..Len(rpo) : rpo[i] = e
      BY <1>1, <3>1 DEF Range
    <3>3. i <= Max(at)
      BY <1>2, <2>4, <3>2
    <3>4. CASE <<d, e>> \in trueDominance
      <4>1. PICK k \in 1..i : rpo[k] = d
        BY <2>5, <3>2, <3>4 DEF Inv, Numbering
      <4>2. k = Max(at)
        BY <1>1, <2>4, <4>1 DEF IsInjective
      <4>3. d = e
        BY <1>1, <2>4, <3>2, <3>3, <4>1, <4>2
      <4> QED BY <3>1, <4>3, <3>4
    <3>5. CASE <<d, e>> \notin trueDominance
      <4>1. walked \in SUBSET (Node \X Node) /\ Connected(walked, root)
        BY ProgramFacts DEF Inv, TypeOK
      <4> HIDE DEF d
      <4> QED BY <1>1, <2>5, <3>1, <3>5, <4>1, DominatorsAreChained DEF trueDominance, walked
    <3> QED BY <3>4, <3>5
  <2>7. ASSUME NEW c \in strict, \A e \in strict : <<e, c>> \in trueDominance
        PROVE  c = d
    <3>1. c \in Node /\ <<d, c>> \in trueDominance /\ <<c, d>> \in trueDominance
      BY <2>5, <2>6, <2>7 DEF DominatorsOf
    <3>2. PICK i \in 1..Len(rpo) : rpo[i] = c
      BY <1>1, <3>1 DEF Range
    <3>3. PICK k \in 1..i : rpo[k] = d
      BY <2>5, <3>1, <3>2 DEF Inv, Numbering
    <3>4. PICK l \in 1..k : rpo[l] = c
      <4>1. k \in 1..Len(rpo) /\ <<c, rpo[k]>> \in trueDominance
        BY <1>1, <3>1, <3>2, <3>3
      <4> HIDE DEF d, strict, at
      <4> QED BY <3>1, <4>1 DEF Inv, Numbering
    <3>5. l = i
      BY <1>1, <3>2, <3>3, <3>4 DEF IsInjective
    <3> QED BY <3>2, <3>3, <3>5
  <2>8. ImmediateDominator(trueDominance, root, n) = d
    <3> HIDE DEF d
    <3>1. ImmediateDominator(trueDominance, root, n)
            = CHOOSE c \in strict : \A e \in strict : <<e, c>> \in trueDominance
      BY <1>4 DEF ImmediateDominator
    <3> HIDE DEF strict
    <3> QED BY <2>5, <2>6, <2>7, <3>1
  <2>9. LastBefore(n) = d
    BY <2>3 DEF LastBefore
  <2> QED BY <2>8, <2>9
<1> QED BY <1>3, <1>4

\* What initFrontier collects is the frontier.
LEMMA FrontierCollected ==
  ASSUME Inv, stage = "restore", NEW n \in Node
  PROVE  {m \in Node : n \in HasFrontier(m)} = Frontier(walked, trueDominance, n)
<1>1. ASSUME NEW m \in Node
      PROVE  n \in HasFrontier(m) <=>
               /\ m = n \/ <<n, m>> \notin trueDominance
               /\ \E p \in Node : <<p, m>> \in walked /\ <<n, p>> \in trueDominance
  <2>1. \A k \in Node : n \in dom[k] <=> <<n, k>> \in trueDominance
    BY DEF Inv, Iterating
  <2>2. prev[m] = {p \in Node : <<p, m>> \in walked}
    BY DEF Inv, Linked, PredOf
  <2> QED BY <2>1, <2>2 DEF HasFrontier
<1> QED BY <1>1 DEF Frontier

\* Between buildDomTree and removeDummy the block fields hold the bitsets.
Fields ==
  [n \in Node |-> [dom  |-> dom[n],
                   fro  |-> {m \in Node : n \in HasFrontier(m)},
                   idom |-> LastBefore(n)]]

Built == stage = "restore" => result = Fields

LEMMA BuiltInvariant == Spec => []Built
<1>1. Init => Built
  BY DEF Init, Built
<1>2. Inv /\ Built /\ [Next]_vars => Built'
  <2> SUFFICES ASSUME Inv, Built, [Next]_vars PROVE Built'
    OBVIOUS
  <2>1. CASE BuildDomTree
    <3>1. UNCHANGED <<dom, prev, rpo>>
      BY <2>1 DEF BuildDomTree, iteration
    <3>2. Fields' = Fields
      BY <3>1 DEF Fields, HasFrontier, LastBefore
    <3>3. result' = Fields
      BY <2>1 DEF BuildDomTree, Fields
    <3> QED BY <3>2, <3>3 DEF Built
  <2>2. CASE Link \/ (\E m \in Node : Enter(m)) \/ Leave \/ StartIterate \/ Update
               \/ EndRound \/ RemoveDummy
    <3>1. stage' # "restore"
      BY <2>2 DEF Link, Enter, Leave, StartIterate, Update, EndRound, RemoveDummy
    <3> QED BY <3>1 DEF Built
  <2>3. CASE UNCHANGED vars
    <3>1. Fields' = Fields
      BY <2>3 DEF vars, Fields, HasFrontier, LastBefore
    <3> QED BY <2>3, <3>1 DEF vars, Built
  <2> QED BY <2>1, <2>2, <2>3 DEF Next
<1> QED BY Invariance, <1>1, <1>2, PTL DEF Spec

\* DominatorTree sees the notions of FlowGraph as they are seen here.
LEMMA SameNotions ==
  /\ Promise!Node = Node
  /\ \A f, p : Promise!Edges(f, p) = Edges(f, p) /\ Promise!Root(p) = Root(p)
  /\ Promise!FlowStmt = FlowStmt
  /\ \A f : Promise!WellFormed(f) = WellFormed(f)
  /\ \A g, r : Promise!Dominance(g, r) = Dominance(g, r)
  /\ \A domi, n : Promise!DominatorsOf(domi, n) = DominatorsOf(domi, n)
  /\ \A g, domi, n : Promise!Frontier(g, domi, n) = Frontier(g, domi, n)
  /\ \A domi, r, n : Promise!ImmediateDominator(domi, r, n) = ImmediateDominator(domi, r, n)
<1>1. Promise!Node = Node
  BY DEF Promise!Node, Node
<1>2. \A f : Promise!ForwardEdges(f) = ForwardEdges(f)
  <2>1. \A stmt : Promise!Targets(stmt) = Targets(stmt)
    BY DEF Promise!Targets, Targets, Promise!Range, Range
  <2> QED BY <2>1 DEF Promise!ForwardEdges, ForwardEdges
<1>3. \A f, p : Promise!Edges(f, p) = Edges(f, p) /\ Promise!Root(p) = Root(p)
  BY <1>2 DEF Promise!Edges, Edges, Promise!Root, Root
<1>4. \A g, r, d, S : Promise!Avoids(g, r, d, S) = Avoids(g, r, d, S)
  BY DEF Promise!Avoids, Avoids
<1>5. \A g, r : Promise!Dominance(g, r) = Dominance(g, r)
  BY <1>1, <1>4 DEF Promise!Dominance, Dominance
<1>6. \A domi, n : Promise!DominatorsOf(domi, n) = DominatorsOf(domi, n)
  BY <1>1 DEF Promise!DominatorsOf, DominatorsOf
<1>7. \A g, domi, n : Promise!Frontier(g, domi, n) = Frontier(g, domi, n)
  BY <1>1 DEF Promise!Frontier, Frontier
<1>8. \A domi, r, n : Promise!ImmediateDominator(domi, r, n) = ImmediateDominator(domi, r, n)
  BY DEF Promise!ImmediateDominator, ImmediateDominator, Promise!DominatorsOf,
         DominatorsOf, Promise!Node, Node
<1>9. Promise!FlowStmt = FlowStmt
  BY DEF Promise!FlowStmt, FlowStmt, Promise!Return, Return, Promise!Unreachable, Unreachable,
         Promise!Jump, Jump, Promise!Branch, Branch
<1>10. \A f : Promise!WellFormed(f) = WellFormed(f)
  BY <1>1, <1>3 DEF Promise!WellFormed, WellFormed, Promise!Connected, Connected,
         Promise!Closed, Closed
<1> QED BY <1>1, <1>3, <1>5, <1>6, <1>7, <1>8, <1>9, <1>10

\* The step that ends the analysis gives the answer DominatorTree asks for.
LEMMA RemoveDummyAnswers ==
  ASSUME Inv, Built, RemoveDummy
  PROVE  answer' = Promise!Answer(Edges(flow, post), Root(post))
<1> DEFINE reply(b) ==
      [dom  |-> DominatorsOf(trueDominance, b) \cap Block,
       fro  |-> Frontier(walked, trueDominance, b) \cap Block,
       idom |-> ImmediateDominator(trueDominance, root, b)]
<1>1. answer' = [b \in Block |-> result'[b]]
  BY DEF answer, RemoveDummy
<1>2. Promise!Answer(Edges(flow, post), Root(post)) = [b \in Block |-> reply(b)]
  BY SameNotions DEF Promise!Answer, trueDominance, walked, root
<1>3. ASSUME NEW b \in Block PROVE result'[b] = reply(b)
  <2>1. stage = "restore" /\ b \in Node /\ \A S \in SUBSET Node : S \ {Dummy} = S \cap Block
    BY BlockAssumption DEF RemoveDummy, Node
  <2>2. result'[b] = WithoutDummy(result[b])
    BY <2>1 DEF RemoveDummy
  <2>3. result[b] = [dom  |-> dom[b],
                     fro  |-> {m \in Node : b \in HasFrontier(m)},
                     idom |-> LastBefore(b)]
    BY <2>1 DEF Built, Fields
  <2>4. result'[b] = [dom  |-> dom[b] \ {Dummy},
                      fro  |-> {m \in Node : b \in HasFrontier(m)} \ {Dummy},
                      idom |-> LastBefore(b)]
    BY <2>2, <2>3 DEF WithoutDummy
  <2>5. dom[b] = DominatorsOf(trueDominance, b)
    BY <2>1 DEF Inv, TypeOK, Iterating, DominatorsOf
  <2>6. {m \in Node : b \in HasFrontier(m)} = Frontier(walked, trueDominance, b)
    BY <2>1, FrontierCollected
  <2>7. LastBefore(b) = ImmediateDominator(trueDominance, root, b)
    BY <2>1, LastBeforeIsImmediate
  <2>8. /\ DominatorsOf(trueDominance, b) \ {Dummy} = DominatorsOf(trueDominance, b) \cap Block
        /\ Frontier(walked, trueDominance, b) \ {Dummy}
             = Frontier(walked, trueDominance, b) \cap Block
    BY <2>1 DEF DominatorsOf, Frontier
  <2> QED BY <2>4, <2>5, <2>6, <2>7, <2>8
<1> QED BY <1>1, <1>2, <1>3

\* The constructor is the one step of DominatorTree: for every function whose
\* blocks are all reachable and all reach a return, of any size and shape, and
\* for both directions, it leaves the blocks' true dominators, dominance
\* frontiers and immediate dominators.
THEOREM Refinement == Spec => RefinesDominatorTree
<1>1. Init => Promise!Init
  BY ProgramAssumption, SameNotions DEF Init, Promise!Init, answer, answered
<1>2. Inv /\ Built /\ [Next]_vars => [Promise!Analyse]_<<flow, post, answer, answered>>
  <2> SUFFICES ASSUME Inv, Built, [Next]_vars
               PROVE  Promise!Analyse \/ UNCHANGED <<flow, post, answer, answered>>
    OBVIOUS
  <2>1. CASE RemoveDummy
    <3>1. ~answered /\ answered' /\ UNCHANGED <<flow, post>>
      BY <2>1 DEF RemoveDummy, answered
    <3> QED BY <2>1, <3>1, RemoveDummyAnswers, SameNotions DEF Promise!Analyse
  <2>2. CASE Link \/ (\E m \in Node : Enter(m)) \/ Leave \/ StartIterate \/ Update
               \/ EndRound \/ BuildDomTree
    <3>1. stage # "done" /\ stage' # "done" /\ UNCHANGED <<flow, post>>
      BY <2>2 DEF Link, Enter, Leave, StartIterate, Update, EndRound, BuildDomTree
    <3> QED BY <3>1 DEF answer, answered
  <2>3. CASE UNCHANGED vars
    BY <2>3 DEF vars, answer, answered
  <2> QED BY <2>1, <2>2, <2>3 DEF Next
<1> QED
  BY Invariance, BuiltInvariant, <1>1, <1>2, PTL DEF Spec, RefinesDominatorTree, Promise!Spec

=============================================================================

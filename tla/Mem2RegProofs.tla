---------------------------- MODULE Mem2RegProofs ----------------------------
(***************************************************************************)
(* Theorems about Mem2Reg, for every function: the work list that reserves *)
(* phi statements misses none, although a block is queued again only if    *)
(* nothing was left in its list.                                           *)
(*                                                                         *)
(* What makes it so is Waiting: a block with something in its list is in   *)
(* the queue.  So a block that is not queued again, because its list was   *)
(* not empty, is there already.                                            *)
(*                                                                         *)
(* The assertion of updateBlock fails rightly: in a block behind a store a *)
(* dominator gives the local a value, and the walk that renames is within  *)
(* the calls of all dominators.                                            *)
(***************************************************************************)
EXTENDS Mem2Reg, FlowGraphProofs, FiniteSetTheorems, SequenceTheorems, WellFoundedInduction, TLAPS

Shape ==
  /\ code \in Programs
  /\ DOMAIN phiMap = Block /\ DOMAIN added = Block
  /\ queue \in Seq(Block)

Waiting == \A b \in Block : added[b] # {} => b \in Range(queue)

Inv == Shape /\ Waiting /\ SpreadOrQueued

Ways == ForwardEdges(code.flow)
Domi == Dominance(Ways, Entry)

LEMMA ShapeFacts ==
  ASSUME code \in Programs
  PROVE  /\ code.flow \in [Block -> FlowStmt]
         /\ code.fro \in [Block -> SUBSET Block]
         /\ \A b \in Block : code.fro[b] = Frontier(Ways, Domi, b) \cap Block
         /\ Ways \in SUBSET (Node \X Node)
<1> DEFINE answer == Answer(Ways, Entry)
<1>1. code.flow \in [Block -> FlowStmt] /\ code.fro = [b \in Block |-> answer[b].fro]
  <2>1. <<code.flow, code.fro>> \in {<<p.flow, p.fro>> : p \in Programs}
    OBVIOUS
  <2> QED
    BY <2>1, ProgramsAssumption DEF Ways
<1>2. \A b \in Block : answer[b].fro = Frontier(Ways, Domi, b) \cap Block
  BY DEF Answer, Domi
<1>3. Ways \in SUBSET (Node \X Node)
  <2>1. Edges(code.flow, FALSE) = Ways
    BY DEF Edges, Ways
  <2> QED
    BY <1>1, <2>1, EdgesArePairs
<1> QED
  BY <1>1, <1>2, <1>3

LEMMA RangeHas ==
  ASSUME NEW r \in Seq(Block), NEW i \in 1..Len(r)
  PROVE  r[i] \in Range(r)
BY DEF Range

\* A queue whose head is taken and that grows at its end keeps the others.
LEMMA QueueKeeps ==
  ASSUME NEW q \in Seq(Block), q # <<>>, NEW p \in Seq(Block)
  PROVE  /\ Tail(q) \o p \in Seq(Block)
         /\ \A b \in Range(q) : b # Head(q) => b \in Range(Tail(q) \o p)
         /\ Range(p) \subseteq Range(Tail(q) \o p)
<1>1. Tail(q) \o p \in Seq(Block)
  OBVIOUS
<1>2. ASSUME NEW b \in Range(q), b # Head(q) PROVE b \in Range(Tail(q) \o p)
  <2>1. PICK i \in 1..Len(q) : q[i] = b
    BY DEF Range
  <2>2. i # 1
    BY <2>1, <1>2
  <2>3. i - 1 \in 1..Len(Tail(q)) /\ Tail(q)[i - 1] = b
    BY <2>1, <2>2
  <2>4. i - 1 \in 1..Len(Tail(q) \o p) /\ (Tail(q) \o p)[i - 1] = b
    BY <2>3
  <2> QED
    BY <2>4, <1>1, RangeHas
<1>3. ASSUME NEW b \in Range(p) PROVE b \in Range(Tail(q) \o p)
  <2>1. PICK i \in 1..Len(p) : p[i] = b
    BY DEF Range
  <2>2. Len(Tail(q)) + i \in 1..Len(Tail(q) \o p) /\ (Tail(q) \o p)[Len(Tail(q)) + i] = b
    BY <2>1
  <2> QED
    BY <2>2, <1>1, RangeHas
<1> QED
  BY <1>1, <1>2, <1>3

LEMMA OrderHasAll ==
  ASSUME NEW S \in SUBSET Block, NEW p \in Orders(S)
  PROVE  p \in Seq(Block) /\ S \subseteq Range(p)
<1>1. Cardinality(S) \in Nat
  BY ProgramsAssumption, FS_Subset, FS_CardinalityType
<1>2. p \in Seq(S) /\ DOMAIN p = 1..Cardinality(S)
  BY <1>1 DEF Orders
<1>3. p \in Seq(Block)
  BY <1>2
<1>4. S \subseteq Range(p)
  BY <1>2 DEF Orders, Range
<1> QED
  BY <1>3, <1>4

LEMMA InitInv == Init => Inv
BY DEF Init, Inv, Shape, Waiting, SpreadOrQueued

LEMMA SpreadDefInv == ASSUME Inv, SpreadDef PROVE Inv'
<1> USE DEF Inv
<1>1. code' = code /\ queue' = code.rpo /\ stage' = "spread"
  BY DEF SpreadDef
<1>2. code.rpo \in Seq(Block) /\ Range(code.rpo) = Block
  BY ProgramsAssumption DEF Shape
<1>3. Shape' /\ Waiting'
  BY <1>1, <1>2 DEF Shape, Waiting, SpreadDef
<1>4. ASSUME NEW b \in Block, NEW n \in code.fro[b], NEW x \in Stores(b) \cup phiMap'[b]
      PROVE  x \in phiMap'[n] \/ x \in added'[b]
  <2>1. n \in Block
    BY ShapeFacts DEF Shape
  <2>2. CASE x \in Stores(b)
    BY <2>1, <2>2 DEF SpreadDef
  <2>3. CASE x \in phiMap'[b]
    BY <2>3 DEF SpreadDef
  <2> QED
    BY <1>4, <2>2, <2>3
<1>5. SpreadOrQueued'
  BY <1>1, <1>2, <1>4 DEF SpreadOrQueued, Stores
<1> QED
  BY <1>3, <1>5

LEMMA SpreadPhiInv == ASSUME Inv, SpreadPhi PROVE Inv'
<1> DEFINE node == Head(queue)
           left == [added EXCEPT ![node] = {}]
           new  == [n \in Block |-> IF n \in code.fro[node] THEN NewIn(n, added[node]) ELSE {}]
           again == {n \in Block : Push(n, new[n], left[n])}
<1> USE DEF Inv
<1>1. /\ code' = code /\ stage' = stage /\ stage # "def"
      /\ queue # <<>> /\ queue \in Seq(Block) /\ node \in Block
      /\ phiMap' = [n \in Block |-> phiMap[n] \cup new[n]]
      /\ added' = [n \in Block |-> left[n] \cup new[n]]
  BY DEF SpreadPhi, Shape
<1>2. PICK pushed \in Orders(again) : queue' = Tail(queue) \o pushed
  BY DEF SpreadPhi
<1>3. /\ queue' \in Seq(Block)
      /\ \A b \in Range(queue) : b # node => b \in Range(queue')
      /\ again \subseteq Range(queue')
  <2>1. pushed \in Seq(Block) /\ again \subseteq Range(pushed)
    BY OrderHasAll
  <2> QED
    BY <1>1, <1>2, <2>1, QueueKeeps
<1>4. left[node] = {} /\ \A b \in Block : b # node => left[b] = added[b]
  BY <1>1 DEF Shape
<1>5. Shape'
  BY <1>1, <1>3 DEF Shape
<1>6. Waiting'
  <2> SUFFICES ASSUME NEW b \in Block, left[b] \cup new[b] # {} PROVE b \in Range(queue')
    BY <1>1 DEF Waiting
  <2>1. CASE left[b] # {}
    <3>1. b # node /\ added[b] # {}
      BY <2>1, <1>4
    <3> QED
      BY <3>1, <1>3 DEF Waiting
  <2>2. CASE left[b] = {}
    <3>1. b \in again
      BY <2>2 DEF Push
    <3> QED
      BY <3>1, <1>3
  <2> QED
    BY <2>1, <2>2
<1>7. ASSUME NEW b \in Block, NEW n \in code.fro[b], NEW x \in Stores(b) \cup phiMap'[b]
      PROVE  x \in phiMap'[n] \/ (x \in added'[b] /\ b \in Range(queue'))
  <2>1. n \in Block
    BY ShapeFacts DEF Shape
  <2>2. CASE x \in new[b]
    BY <2>2, <1>1, <1>5, <1>6 DEF Waiting
  <2>3. CASE x \in Stores(b) \cup phiMap[b]
    <3>1. x \in phiMap[n] \/ (x \in added[b] /\ b \in Range(queue))
      BY <2>3, <1>1 DEF SpreadOrQueued
    <3>2. CASE b = node
      BY <3>1, <3>2, <2>1, <1>1 DEF NewIn
    <3>3. CASE b # node
      BY <3>1, <3>3, <2>1, <1>1, <1>3, <1>4
    <3> QED
      BY <3>2, <3>3
  <2> QED
    BY <1>7, <2>2, <2>3, <1>1
<1>8. \A b \in Block : Stores(b)' = Stores(b)
  BY <1>1 DEF Stores
<1>9. SpreadOrQueued'
  <2> HIDE DEF node, left, new, again
  <2> QED
    BY <1>1, <1>7, <1>8 DEF SpreadOrQueued
<1> QED
  BY <1>5, <1>6, <1>9

\* Nothing else touches the lists, except that the walk begins when none is left.
LEMMA OthersInv ==
  ASSUME Inv, UNCHANGED <<code, placing>>, stage' = stage \/ stage # "def" PROVE Inv'
BY DEF Inv, Shape, Waiting, SpreadOrQueued, Stores, placing

LEMMA Inductive == Spec => []Inv
<1>1. Init => Inv
  BY InitInv
<1>2. Inv /\ [Next]_vars => Inv'
  <2> SUFFICES ASSUME Inv, [Next]_vars PROVE Inv'
    OBVIOUS
  <2>1. CASE SpreadDef
    BY <2>1, SpreadDefInv
  <2>2. CASE SpreadPhi
    BY <2>2, SpreadPhiInv
  <2>3. CASE StartRename
    BY <2>3, OthersInv DEF StartRename
  <2>4. ASSUME NEW c \in Block, Descend(c) PROVE Inv'
    BY <2>4, OthersInv DEF Descend
  <2>5. CASE Leave
    BY <2>5, OthersInv DEF Leave
  <2>6. CASE InsertPhi
    BY <2>6, OthersInv DEF InsertPhi
  <2>7. CASE \E c \in Exits(run.at) : RunOn(c)
    BY <2>7, OthersInv DEF RunOn
  <2>8. CASE UNCHANGED vars
    BY <2>8, OthersInv DEF vars
  <2> QED
    BY <2>1, <2>2, <2>3, <2>4, <2>5, <2>6, <2>7, <2>8 DEF Next
<1> QED
  BY <1>1, <1>2, PTL DEF Spec

\* A local that is stored to, or has a new phi statement, in a block has one in
\* its frontier, or the block is still to spread it (spreadDef and spreadPhi).
THEOREM PhisAreSpread == Spec => []SpreadOrQueued
<1>1. Inv => SpreadOrQueued
  BY DEF Inv
<1> QED
  BY <1>1, Inductive, PTL

\* When the work list of spreadPhi is empty, the new phi statements are closed
\* under frontiers: what rename relies on.
PhisClosed ==
  stage # "def" /\ queue = <<>> =>
    \A b \in Block : \A n \in code.fro[b] : Stores(b) \cup phiMap[b] \subseteq phiMap[n]

THEOREM PhisAreClosed == Spec => []PhisClosed
<1>1. Inv => PhisClosed
  BY DEF Inv, PhisClosed, SpreadOrQueued, Range
<1> QED
  BY <1>1, Inductive, PTL

(***************************************************************************)
(* The steps of updateBlock.                                               *)
(***************************************************************************)

IsSteps(at, w, b, n) ==
  at = [i \in 0..n |-> IF i = 0 THEN w ELSE UpdateStmt(at[i - 1], b, i)]

LEMMA StepsExist ==
  ASSUME NEW w, NEW b, NEW n \in Nat
  PROVE  \E at : IsSteps(at, w, b, n)
<1> DEFINE S == {k \in Nat : \E at : IsSteps(at, w, b, k)}
<1>1. 0 \in S
  <2> DEFINE at == [i \in 0..0 |-> w]
  <2>1. IsSteps(at, w, b, 0)
    BY DEF IsSteps
  <2> QED
    BY <2>1
<1>2. ASSUME NEW k \in Nat, k \in S PROVE k + 1 \in S
  <2> PICK at : IsSteps(at, w, b, k)
    BY <1>2
  <2> DEFINE last == UpdateStmt(at[k], b, k + 1)
             next == [i \in 0..(k + 1) |-> IF i = k + 1 THEN last ELSE at[i]]
  <2>1. \A i \in 0..k : at[i] = IF i = 0 THEN w ELSE UpdateStmt(at[i - 1], b, i)
    BY DEF IsSteps
  <2>2. \A i \in 1..(k + 1) : next[i - 1] = at[i - 1]
    OBVIOUS
  <2>3. \A i \in 0..(k + 1) : next[i] = IF i = 0 THEN w ELSE UpdateStmt(next[i - 1], b, i)
    <3> SUFFICES ASSUME NEW i \in 0..(k + 1)
                 PROVE  next[i] = IF i = 0 THEN w ELSE UpdateStmt(next[i - 1], b, i)
      OBVIOUS
    <3>1. CASE i = k + 1
      <4>1. next[i] = last /\ next[i - 1] = at[k] /\ i # 0
        BY <3>1, <2>2
      <4> QED
        BY <3>1, <4>1
    <3>2. CASE i \in 0..k
      <4>1. next[i] = at[i] /\ (i # 0 => next[i - 1] = at[i - 1])
        BY <3>2, <2>2
      <4> QED
        BY <3>2, <4>1, <2>1
    <3> QED
      BY <3>1, <3>2
  <2>4. next = [i \in 0..(k + 1) |-> next[i]]
    OBVIOUS
  <2> HIDE DEF next
  <2>5. IsSteps(next, w, b, k + 1)
    BY <2>3, <2>4 DEF IsSteps
  <2> QED
    BY <2>5
<1> HIDE DEF S
<1>3. n \in S
  BY <1>1, <1>2, Induction
<1> QED
  BY <1>3 DEF S

(***************************************************************************)
(* What updateBlock needs of the function, and keeps.  The operands that   *)
(* may become the value of a local are those that are stored, the new phi  *)
(* statements and undefined.                                               *)
(***************************************************************************)
Operand ==
  {Undefined} \cup {Named(NewPhi(b, x)) : b \in Block, x \in Local}
    \cup UNION {{code.data[b][i].args[1] : i \in {j \in DOMAIN code.data[b] : code.data[b][j].op = "store"}} :
                  b \in Block}

Value == Operand \cup {Null}

\* A statement that was not reached yet is as it was, but for its operands.
SameStmt(new, old) ==
  /\ new = Stmt(old.op, old.dest, new.args)
  /\ old.op = "load" => new.args = old.args
  /\ old.op = "store" => new.args = <<new.args[1]>> /\ new.args[1] \in Operand

SameBody(body, b) ==
  /\ body \in Seq(Range(body))
  /\ Len(body) = Len(code.data[b])
  /\ \A i \in 1..Len(code.data[b]) : SameStmt(body[i], code.data[b][i])

\* The work of updateBlock while the blocks of U are still to come.
Work(w, U) ==
  /\ w = [data |-> w.data, phi |-> w.phi, varMap |-> w.varMap, failed |-> w.failed]
  /\ DOMAIN w.data = Block
  /\ \A b \in U : SameBody(w.data[b], b)
  /\ w.varMap \in [Local -> Value] /\ w.failed \in BOOLEAN

\* A load or a store is of a local, and only a store has one for destination.
OfLocals(stmt) ==
  /\ stmt = Stmt(stmt.op, stmt.dest, stmt.args)
  /\ stmt.op = "load" => stmt.dest \in code.temps /\ \E x \in Local : stmt.args = <<Named(x)>>
  /\ stmt.op = "store" => stmt.args = <<stmt.args[1]>> /\ stmt.args[1] # Null
  /\ stmt.op = "store" <=> stmt.dest \in Local

LEMMA CodeFacts ==
  ASSUME code \in Programs, NEW b \in Block
  PROVE  /\ code.data[b] \in Seq(Range(code.data[b]))
         /\ Len(code.data[b]) \in Nat
         /\ DOMAIN code.data[b] = 1..Len(code.data[b])
         /\ \A i \in 1..Len(code.data[b]) : OfLocals(code.data[b][i])
<1>1. /\ code.data[b] \in Seq(Range(code.data[b]))
      /\ \A i \in DOMAIN code.data[b] : StatementOK(code, b, i)
      /\ code.temps \cap (Local \cup AllNewPhis \cup {Null}) = {} /\ Null \notin Local
  BY StatementsAssumption
<1>2. Len(code.data[b]) \in Nat /\ DOMAIN code.data[b] = 1..Len(code.data[b])
  BY <1>1, LenProperties
<1>3. ASSUME NEW i \in 1..Len(code.data[b]) PROVE OfLocals(code.data[b][i])
  BY <1>1, <1>2 DEF StatementOK, OfLocals
<1> QED
  BY <1>1, <1>2, <1>3

LEMMA NoOperandIsNull ==
  ASSUME code \in Programs PROVE Null \notin Operand
<1>1. ASSUME NEW b \in Block, NEW i \in DOMAIN code.data[b], code.data[b][i].op = "store"
      PROVE  code.data[b][i].args[1] # Null
  BY <1>1, CodeFacts DEF OfLocals
<1> QED
  BY <1>1, NullAssumption DEF Operand, AllNewPhis

\* A sequence is known by its domain.
LEMMA IsSequence ==
  ASSUME NEW f, NEW n \in Nat, f = [i \in 1..n |-> f[i]]
  PROVE  f \in Seq(Range(f)) /\ Len(f) = n
<1>1. f \in [1..n -> Range(f)]
  BY DEF Range
<1> QED
  BY <1>1

\* At the beginning.
LEMMA CodeIsSame ==
  ASSUME code \in Programs, NEW b \in Block PROVE SameBody(code.data[b], b)
<1>1. ASSUME NEW i \in 1..Len(code.data[b]) PROVE SameStmt(code.data[b][i], code.data[b][i])
  <2>1. OfLocals(code.data[b][i])
    BY CodeFacts
  <2>2. code.data[b][i].op = "store" => code.data[b][i].args[1] \in Operand
    BY CodeFacts DEF Operand
  <2> QED
    BY <2>1, <2>2 DEF OfLocals, SameStmt
<1> QED
  BY <1>1, CodeFacts DEF SameBody

\* Replacing the temporary of a load by an operand spoils nothing.
LEMMA UsesUpdated ==
  ASSUME code \in Programs, NEW U \in SUBSET Block, NEW w, Work(w, U),
         NEW t, t \notin Local, NEW value \in Operand
  PROVE  /\ Work(UpdateUses(w, t, value), U)
         /\ UpdateUses(w, t, value).varMap = w.varMap
         /\ UpdateUses(w, t, value).failed = w.failed
<1> DEFINE Args(args) == AllSubstituted(args, t, value)
           body(b) == [i \in DOMAIN w.data[b] |-> [w.data[b][i] EXCEPT !.args = Args(@)]]
           u == UpdateUses(w, t, value)
<1>1. /\ u = [data |-> u.data, phi |-> u.phi, varMap |-> w.varMap, failed |-> w.failed]
      /\ u.data = [b \in Block |-> body(b)]
  <2> DEFINE phis == [b \in Block |-> [i \in DOMAIN w.phi[b] |->
                        [w.phi[b][i] EXCEPT !.from = AllSubstituted(@, t, value)]]]
             bodies == [b \in Block |-> body(b)]
  <2>1. u = [w EXCEPT !.data = bodies, !.phi = phis]
    BY DEF UpdateUses
  <2> HIDE DEF phis, bodies, u
  <2>2. w = [data |-> w.data, phi |-> w.phi, varMap |-> w.varMap, failed |-> w.failed]
    BY DEF Work
  <2>3. u = [data |-> bodies, phi |-> phis, varMap |-> w.varMap, failed |-> w.failed]
    BY <2>1, <2>2
  <2> QED
    BY <2>3 DEF bodies
<1>2. ASSUME NEW b \in U PROVE SameBody(body(b), b)
  <2>1. /\ SameBody(w.data[b], b) /\ Len(code.data[b]) \in Nat
        /\ DOMAIN w.data[b] = 1..Len(code.data[b])
    BY CodeFacts, LenProperties DEF Work, SameBody
  <2>2. body(b) \in Seq(Range(body(b))) /\ Len(body(b)) = Len(code.data[b])
    BY <2>1, IsSequence
  <2>3. ASSUME NEW i \in 1..Len(code.data[b]) PROVE SameStmt(body(b)[i], code.data[b][i])
    <3> DEFINE old == code.data[b][i]
               mid == w.data[b][i]
               new == body(b)[i]
    <3>1. SameStmt(mid, old) /\ OfLocals(old)
      BY <2>1, CodeFacts DEF SameBody
    <3>2. new = [mid EXCEPT !.args = Args(@)]
      BY <2>1
    <3> HIDE DEF mid, new, old
    <3>3. new = Stmt(old.op, old.dest, new.args) /\ new.args = Args(mid.args)
      BY <3>1, <3>2 DEF SameStmt, Stmt
    <3>4. ASSUME old.op = "load" PROVE new.args = old.args
      <4>1. PICK x \in Local : old.args = <<Named(x)>>
        BY <3>1, <3>4 DEF OfLocals
      <4>2. mid.args = <<Named(x)>>
        BY <3>1, <3>4, <4>1 DEF SameStmt
      <4>3. Substituted(Named(x), t, value) = Named(x)
        BY DEF Substituted, Named
      <4> QED
        BY <3>3, <4>1, <4>2, <4>3 DEF AllSubstituted
    <3>5. ASSUME old.op = "store"
          PROVE  new.args = <<new.args[1]>> /\ new.args[1] \in Operand
      <4>1. mid.args = <<mid.args[1]>> /\ mid.args[1] \in Operand
        BY <3>1, <3>5 DEF SameStmt
      <4>2. new.args = <<Substituted(mid.args[1], t, value)>>
        BY <3>3, <4>1 DEF AllSubstituted
      <4>3. Substituted(mid.args[1], t, value) \in Operand
        BY <4>1 DEF Substituted
      <4> QED
        BY <4>2, <4>3
    <3> QED
      BY <3>3, <3>4, <3>5 DEF SameStmt, new, old
  <2> QED
    BY <2>2, <2>3 DEF SameBody
<1> HIDE DEF body, u
<1>3. DOMAIN u.data = Block /\ \A b \in U : SameBody(u.data[b], b)
  BY <1>1, <1>2
<1> QED
  BY <1>1, <1>3 DEF Work, u

\* What becomes of the work w at a statement.
Updated(u, w, U, old) ==
  /\ Work(u, U)
  /\ \A x \in Local : w.varMap[x] # Null => u.varMap[x] # Null
  /\ old.op = "store" => u.varMap[old.dest] # Null
  /\ u.failed <=> w.failed \/ (old.op = "load" /\ w.varMap[old.args[1].v] = Null)

LEMMA StmtUpdated ==
  ASSUME code \in Programs, NEW U \in SUBSET Block, NEW w, Work(w, U),
         NEW b \in U, NEW i \in 1..Len(code.data[b])
  PROVE  Updated(UpdateStmt(w, b, i), w, U, code.data[b][i])
<1> DEFINE u == UpdateStmt(w, b, i)
           old == code.data[b][i]
           mid == w.data[b][i]
<1>1. SameStmt(mid, old) /\ OfLocals(old)
  BY CodeFacts DEF Work, SameBody
<1>2. mid.op = old.op /\ mid.dest = old.dest /\ (old.op = "load" => mid.args = old.args)
  BY <1>1 DEF SameStmt, Stmt
<1>3. /\ w = [data |-> w.data, phi |-> w.phi, varMap |-> w.varMap, failed |-> w.failed]
      /\ w.varMap \in [Local -> Value] /\ w.failed \in BOOLEAN
      /\ DOMAIN w.data = Block /\ \A c \in U : SameBody(w.data[c], c)
  BY DEF Work
<1> HIDE DEF old
<1>4. CASE old.op = "store"
  <2>1. old.dest \in Local /\ mid.args[1] \in Operand
    BY <1>1, <1>4 DEF OfLocals, SameStmt
  <2>2. u = [w EXCEPT !.varMap[mid.dest] = mid.args[1]]
    BY <1>2, <1>4 DEF UpdateStmt
  <2> HIDE DEF u, mid
  <2>3. u = [data |-> w.data, phi |-> w.phi, failed |-> w.failed,
             varMap |-> [w.varMap EXCEPT ![old.dest] = mid.args[1]]]
    BY <1>2, <1>3, <2>2
  <2>4. u.varMap \in [Local -> Value] /\ u.varMap[old.dest] # Null
        /\ \A x \in Local : w.varMap[x] # Null => u.varMap[x] # Null
    BY <1>3, <2>1, <2>3, NoOperandIsNull DEF Value
  <2>5. Work(u, U)
    BY <1>3, <2>3, <2>4 DEF Work
  <2>6. Updated(u, w, U, old)
    BY <1>3, <1>4, <2>3, <2>4, <2>5 DEF Updated
  <2> QED
    BY <2>6 DEF u, old
<1>5. CASE old.op = "load"
  <2>1. PICK x \in Local : old.args = <<Named(x)>>
    BY <1>1, <1>5 DEF OfLocals
  <2>2. mid.args[1].v = x /\ old.args[1].v = x /\ old.dest \notin Local
    BY <1>1, <1>2, <1>5, <2>1 DEF Named, OfLocals
  <2>3. CASE w.varMap[x] = Null
    <3>1. u = [w EXCEPT !.failed = TRUE]
      BY <1>2, <1>5, <2>2, <2>3 DEF UpdateStmt
    <3> HIDE DEF u, mid
    <3>2. u = [data |-> w.data, phi |-> w.phi, varMap |-> w.varMap, failed |-> TRUE]
      BY <1>3, <3>1
    <3>3. Work(u, U)
      BY <1>3, <3>2 DEF Work
    <3>4. Updated(u, w, U, old)
      BY <1>5, <2>2, <2>3, <3>2, <3>3 DEF Updated
    <3> QED
      BY <3>4 DEF u, old
  <2>4. CASE w.varMap[x] # Null
    <3>1. u = UpdateUses(w, old.dest, w.varMap[x])
      BY <1>2, <1>5, <2>2, <2>4 DEF UpdateStmt
    <3>2. w.varMap[x] \in Operand
      BY <1>3, <2>4 DEF Value
    <3> HIDE DEF u, mid
    <3>3. Work(u, U) /\ u.varMap = w.varMap /\ u.failed = w.failed
      <4> DEFINE t == old.dest
                 value == w.varMap[x]
      <4>1. t \notin Local /\ value \in Operand /\ u = UpdateUses(w, t, value)
        BY <2>2, <3>1, <3>2
      <4> HIDE DEF t, value
      <4> QED
        BY <4>1, UsesUpdated
    <3>4. Updated(u, w, U, old)
      BY <1>3, <1>5, <2>2, <2>4, <3>3 DEF Updated
    <3> QED
      BY <3>4 DEF u, old
  <2> QED
    BY <2>3, <2>4
<1>6. CASE old.op # "store" /\ old.op # "load"
  <2>1. u = w
    BY <1>2, <1>6 DEF UpdateStmt
  <2> HIDE DEF u, mid
  <2>2. Updated(u, w, U, old)
    BY <1>3, <1>6, <2>1 DEF Updated
  <2> QED
    BY <2>2 DEF u, old
<1> QED
  BY <1>4, <1>5, <1>6

\* The whole block: it fails only at a load of a local without a value, which
\* neither had one before nor got one in the block.
UpdatedBlock(done, w, U, b) ==
  /\ Work(done, U \ {b})
  /\ \A x \in Local : w.varMap[x] # Null => done.varMap[x] # Null
  /\ \A x \in Stores(b) : done.varMap[x] # Null
  /\ done.failed =>
       \E i \in 1..Len(code.data[b]) :
         /\ code.data[b][i].op = "load"
         /\ w.varMap[code.data[b][i].args[1].v] = Null
         /\ \A j \in 1..(i - 1) : code.data[b][j].dest # code.data[b][i].args[1].v

LEMMA BlockUpdated ==
  ASSUME code \in Programs, NEW U \in SUBSET Block, NEW w, Work(w, U), w.failed = FALSE,
         NEW b \in U
  PROVE  UpdatedBlock(UpdateBlock(w, b), w, U, b)
<1> DEFINE n == Len(code.data[b])
           at == CHOOSE at : IsSteps(at, w, b, n)
           Stored(x, k) == \E j \in 1..k : code.data[b][j].op = "store" /\ code.data[b][j].dest = x
           Lacking(i) == /\ code.data[b][i].op = "load"
                         /\ w.varMap[code.data[b][i].args[1].v] = Null
                         /\ ~Stored(code.data[b][i].args[1].v, i - 1)
           Good(k) ==
             /\ Work(at[k], U)
             /\ \A x \in Local : w.varMap[x] # Null \/ Stored(x, k) => at[k].varMap[x] # Null
             /\ at[k].failed => \E i \in 1..k : Lacking(i)
           S == {k \in Nat : k \in 0..n => Good(k)}
<1>1. n \in Nat /\ \A i \in 1..n : OfLocals(code.data[b][i])
  BY CodeFacts
<1>2. at[0] = w /\ \A i \in 1..n : at[i] = UpdateStmt(at[i - 1], b, i)
  <2>1. IsSteps(at, w, b, n)
    BY <1>1, StepsExist
  <2> HIDE DEF at
  <2> QED
    BY <1>1, <2>1 DEF IsSteps
<1>3. UpdateBlock(w, b) = [at[n] EXCEPT !.data[b] =
                             [k \in DOMAIN Staying(at[n].data[b]) |-> @[Staying(at[n].data[b])[k]]]]
  <2>1. Len(w.data[b]) = n
    BY DEF Work, SameBody
  <2> QED
    BY <2>1 DEF UpdateBlock, IsSteps
<1> HIDE DEF at
<1>4. 0 \in S
  BY <1>2
<1>5. ASSUME NEW k \in Nat, k \in S PROVE k + 1 \in S
  <2> SUFFICES ASSUME k + 1 \in 0..n PROVE Good(k + 1)
    OBVIOUS
  <2> DEFINE old == code.data[b][k + 1]
  <2>1. Good(k) /\ k + 1 \in 1..n /\ at[k + 1] = UpdateStmt(at[k], b, k + 1)
    BY <1>1, <1>2, <1>5
  <2>2. /\ Work(at[k + 1], U)
        /\ \A x \in Local : at[k].varMap[x] # Null => at[k + 1].varMap[x] # Null
        /\ old.op = "store" => at[k + 1].varMap[old.dest] # Null
        /\ at[k + 1].failed <=> at[k].failed \/ (old.op = "load" /\ at[k].varMap[old.args[1].v] = Null)
    <3>1. Updated(at[k + 1], at[k], U, old)
      <4> DEFINE u == at[k]
                 m == k + 1
      <4>1. Work(u, U) /\ m \in 1..Len(code.data[b]) /\ at[m] = UpdateStmt(u, b, m)
        BY <2>1
      <4> HIDE DEF u, m
      <4>2. Updated(at[m], u, U, code.data[b][m])
        BY <4>1, StmtUpdated
      <4> QED
        BY <4>2 DEF u, m
    <3> QED
      BY <3>1 DEF Updated
  <2>3. \A x : Stored(x, k + 1) <=> Stored(x, k) \/ (old.op = "store" /\ old.dest = x)
    OBVIOUS
  <2>4. ASSUME NEW x \in Local, w.varMap[x] # Null \/ Stored(x, k + 1)
        PROVE  at[k + 1].varMap[x] # Null
    <3> HIDE DEF old, Stored
    <3> QED
      BY <2>1, <2>2, <2>3, <2>4
  <2>5. ASSUME at[k + 1].failed PROVE \E i \in 1..(k + 1) : Lacking(i)
    <3>1. CASE at[k].failed
      <4>1. PICK i \in 1..k : Lacking(i)
        BY <2>1, <3>1
      <4> HIDE DEF Lacking
      <4> QED
        BY <4>1
    <3>2. CASE old.op = "load" /\ at[k].varMap[old.args[1].v] = Null
      <4>1. PICK x \in Local : old.args = <<Named(x)>>
        BY <1>1, <2>1, <3>2 DEF OfLocals
      <4>2. old.args[1].v = x
        BY <4>1 DEF Named
      <4>3. w.varMap[x] = Null /\ ~Stored(x, k)
        <5> HIDE DEF Stored
        <5> QED
          BY <2>1, <3>2, <4>2
      <4>4. Lacking(k + 1)
        BY <3>2, <4>2, <4>3
      <4> HIDE DEF Lacking
      <4> QED
        BY <4>4
    <3> QED
      BY <2>2, <2>5, <3>1, <3>2
  <2> QED
    BY <2>2, <2>4, <2>5
<1>6. Good(n)
  <2>1. n \in S
    <3> HIDE DEF S
    <3> QED
      BY <1>1, <1>4, <1>5, Induction
  <2>2. n \in 0..n
    BY <1>1
  <2> HIDE DEF Good
  <2> QED
    BY <2>1, <2>2
<1> DEFINE done == UpdateBlock(w, b)
<1>7. /\ done.varMap = at[n].varMap /\ done.failed = at[n].failed
      /\ Work(done, U \ {b})
  <2> DEFINE d == [at[n].data EXCEPT ![b] =
                     [k \in DOMAIN Staying(at[n].data[b]) |-> @[Staying(at[n].data[b])[k]]]]
  <2>1. at[n] = [data |-> at[n].data, phi |-> at[n].phi,
                 varMap |-> at[n].varMap, failed |-> at[n].failed]
        /\ at[n].failed \in BOOLEAN
        /\ DOMAIN at[n].data = Block
        /\ \A c \in U : SameBody(at[n].data[c], c)
        /\ at[n].varMap \in [Local -> Value]
    BY <1>6 DEF Work
  <2>2. done = [at[n] EXCEPT !.data = d]
    BY <1>3
  <2> HIDE DEF done
  <2>3. done = [data |-> d, phi |-> at[n].phi, varMap |-> at[n].varMap, failed |-> at[n].failed]
    <3> HIDE DEF d
    <3> QED
      BY <2>1, <2>2
  <2>4. DOMAIN d = Block /\ \A c \in U \ {b} : d[c] = at[n].data[c]
    BY <2>1
  <2> HIDE DEF d
  <2> QED
    BY <2>1, <2>3, <2>4 DEF Work
<1>8. \A x \in Stores(b) : Stored(x, n) /\ x \in Local
  BY <1>1, CodeFacts DEF Stores, OfLocals
<1>9. ASSUME NEW i \in 1..n, Lacking(i)
      PROVE  \A j \in 1..(i - 1) : code.data[b][j].dest # code.data[b][i].args[1].v
  <2>1. PICK x \in Local : code.data[b][i].args = <<Named(x)>>
    BY <1>1, <1>9 DEF OfLocals
  <2>2. code.data[b][i].args[1].v = x
    BY <2>1 DEF Named
  <2>3. \A j \in 1..(i - 1) : OfLocals(code.data[b][j])
    BY <1>1
  <2> QED
    BY <1>1, <1>9, <2>2, <2>3 DEF OfLocals
<1> HIDE DEF done, Lacking
<1>10. \A x \in Local : w.varMap[x] # Null => done.varMap[x] # Null
  BY <1>6, <1>7
<1>11. \A x \in Stores(b) : done.varMap[x] # Null
  BY <1>6, <1>7, <1>8
<1>12. ASSUME done.failed
       PROVE  \E i \in 1..n :
                    /\ code.data[b][i].op = "load"
                    /\ w.varMap[code.data[b][i].args[1].v] = Null
                    /\ \A j \in 1..(i - 1) : code.data[b][j].dest # code.data[b][i].args[1].v
  <2>1. PICK i \in 1..n : Lacking(i)
    BY <1>6, <1>7, <1>12
  <2> QED
    BY <1>9, <2>1 DEF Lacking
<1> QED
  BY <1>7, <1>10, <1>11, <1>12 DEF done, UpdatedBlock

(***************************************************************************)
(* Behind a store.  What is reachable from a block that stores to x either *)
(* has a new phi statement for x or a strict dominator that gives x a      *)
(* value: these nodes are closed, for where the dominance of such a block  *)
(* ends is its frontier.                                                   *)
(***************************************************************************)
Gives(b) == Stores(b) \cup phiMap[b]

Behind(x) ==
  {n \in Node : \/ n = Dummy
                \/ n \in Block /\ x \in phiMap[n]
                \/ \E d \in Block : d # n /\ <<d, n>> \in Domi /\ x \in Gives(d)}

\* The step from a node that a block giving x a value dominates.
LEMMA StepBehind ==
  ASSUME Inv, stage # "def", queue = <<>>,
         NEW x, NEW d \in Block, x \in Gives(d),
         NEW n, NEW m, <<n, m>> \in Ways, <<d, n>> \in Domi
  PROVE  m \in Behind(x)
<1>1. n \in Node /\ m \in Node /\ d \in Node
  BY ShapeFacts DEF Inv, Shape, Node
<1>2. CASE m = Dummy
  BY <1>1, <1>2 DEF Behind
<1>3. CASE m # Dummy /\ m # d /\ <<d, m>> \in Domi
  BY <1>1, <1>3 DEF Behind
<1>4. CASE m # Dummy /\ (m = d \/ <<d, m>> \notin Domi)
  <2>1. m \in Block
    BY <1>1, <1>4 DEF Node
  <2>2. m \in Frontier(Ways, Domi, d)
    BY <1>1, <1>4 DEF Frontier
  <2>3. m \in code.fro[d]
    BY <2>1, <2>2, ShapeFacts DEF Inv, Shape
  <2>4. x \in phiMap[m]
    BY <2>3 DEF Inv, SpreadOrQueued, Gives, Range
  <2> QED
    BY <1>1, <2>1, <2>4 DEF Behind
<1> QED
  BY <1>2, <1>3, <1>4

LEMMA BehindIsClosed ==
  ASSUME Inv, stage # "def", queue = <<>>, NEW x
  PROVE  /\ Closed(Ways, Behind(x))
         /\ \A d \in Block : x \in Stores(d) => SuccOf(Ways, d) \subseteq Behind(x)
<1>1. Ways \in SUBSET (Node \X Node)
  BY ShapeFacts DEF Inv, Shape
<1>2. \A d \in Block : d \in Node /\ <<d, d>> \in Domi
  BY <1>1, DominatesItself, BlockAssumption DEF Domi, Node
<1>3. ASSUME NEW n, NEW m, <<n, m>> \in Ways, n \in Behind(x) PROVE m \in Behind(x)
  <2>1. n # Dummy
    BY <1>3, BlockAssumption DEF Ways, ForwardEdges
  <2>2. CASE n \in Block /\ x \in phiMap[n]
    BY <1>2, <1>3, <2>2, StepBehind DEF Gives
  <2>3. CASE \E d \in Block : d # n /\ <<d, n>> \in Domi /\ x \in Gives(d)
    BY <1>3, <2>3, StepBehind
  <2> QED
    BY <1>3, <2>1, <2>2, <2>3 DEF Behind
<1>4. Behind(x) \subseteq Node
  BY DEF Behind
<1>5. Closed(Ways, Behind(x))
  BY <1>1, <1>3, ClosedByEnds
<1>6. ASSUME NEW d \in Block, x \in Stores(d), NEW m \in SuccOf(Ways, d) PROVE m \in Behind(x)
  BY <1>2, <1>6, StepBehind DEF Gives, SuccOf
<1> QED
  BY <1>5, <1>6

\* A block that a store to x can run before is behind it.
LEMMA ReachedIsBehind ==
  ASSUME Inv, stage # "def", queue = <<>>, NEW x, NEW b \in Block,
         NEW c \in UNION {SuccOf(ForwardEdges(code.flow), d) : d \in {e \in Block : x \in Stores(e)}},
         b \in Reachable(ForwardEdges(code.flow), c)
  PROVE  x \in phiMap[b] \/ \E d \in Block : d # b /\ <<d, b>> \in Domi /\ x \in Gives(d)
<1>1. c \in Behind(x)
  BY BehindIsClosed DEF Ways
<1>2. Behind(x) \in SUBSET Node
  BY DEF Behind
<1>3. b \in Behind(x)
  BY <1>1, <1>2, BehindIsClosed, ReachableIsLeast DEF Ways
<1> QED
  BY <1>3, BlockAssumption DEF Behind

(***************************************************************************)
(* The walk.  The dominators of a block that rename is called on are on    *)
(* the stack, and a local that a block on the stack gives a value has one, *)
(* as it has in each backup taken since.                                   *)
(***************************************************************************)
Frame == [block : Block, bak : [Local -> Value], todo : SUBSET Block]

WalkTypes ==
  /\ stage \in {"def", "spread", "rename", "error", "done"}
  /\ calls \in Seq(Frame) /\ visited \in SUBSET Block
  /\ varMap \in [Local -> Value]
  /\ DOMAIN data = Block /\ \A b \in Block \ visited : SameBody(data[b], b)

Begun ==
  IF stage \in {"def", "spread"} THEN calls = <<>> /\ visited = {} ELSE queue = <<>>

OnTrail ==
  \A i \in 1..Len(calls) :
    /\ calls[i].todo \subseteq Range(code.flow[calls[i].block].to)
    /\ \A d \in Node : <<d, calls[i].block>> \in Domi => \E j \in 1..i : calls[j].block = d

Remembered ==
  \A i \in 1..Len(calls) : \A x \in Local \cap Gives(calls[i].block) :
    /\ varMap[x] # Null
    /\ \A k \in (i + 1)..Len(calls) : calls[k].bak[x] # Null

WalkInv == WalkTypes /\ Begun /\ OnTrail /\ Remembered /\ FailsOnlyUnstored

LEMMA WalkBegins == Init => WalkInv
<1> SUFFICES ASSUME Init PROVE WalkInv
  OBVIOUS
<1>1. DOMAIN data = Block /\ \A b \in Block : SameBody(data[b], b)
  BY StatementsAssumption, CodeIsSame DEF Init
<1>2. varMap \in [Local -> Value] /\ calls = <<>> /\ stage = "def" /\ visited = {}
  BY DEF Init, Value
<1> QED
  BY <1>1, <1>2 DEF WalkInv, WalkTypes, Begun, OnTrail, Remembered, FailsOnlyUnstored

\* OnTrail and Remembered of the calls around one that begins, with the values
\* it is given.
Around(outer, given) ==
  \A i \in 1..Len(outer) :
    /\ outer[i].todo \subseteq Range(code.flow[outer[i].block].to)
    /\ \A d \in Node : <<d, outer[i].block>> \in Domi => \E j \in 1..i : outer[j].block = d
    /\ \A x \in Local \cap Gives(outer[i].block) :
         given[x] # Null /\ \A k \in (i + 1)..Len(outer) : outer[k].bak[x] # Null

LEMMA RenameStep ==
  ASSUME Inv, WalkTypes, stage # "def", queue = <<>>,
         NEW b \in Block \ visited, NEW given \in [Local -> Value], NEW outer \in Seq(Frame),
         \A d \in Node : d # b /\ <<d, b>> \in Domi => \E j \in 1..Len(outer) : outer[j].block = d,
         Around(outer, given), Rename(b, given, outer), UNCHANGED <<code, placing>>
  PROVE  WalkInv'
<1> DEFINE w0 == [data |-> data, phi |-> phi, varMap |-> WithPhis(b, given), failed |-> FALSE]
           w == UpdateBlock(w0, b)
           frame == [block |-> b, bak |-> given, todo |-> Range(code.flow[b].to)]
           n == Len(outer)
           U == Block \ visited
<1>1. code \in Programs /\ code' = code /\ phiMap' = phiMap /\ queue' = queue
  BY DEF Inv, Shape, placing
<1>2. /\ visited' = visited \cup {b}
      /\ stage' = IF w.failed THEN "error" ELSE "rename"
      /\ calls' = Append(outer, frame)
      /\ data' = w.data /\ varMap' = w.varMap
  BY DEF Rename
<1>3. /\ WithPhis(b, given) \in [Local -> Value]
      /\ \A x \in Local : given[x] # Null \/ x \in phiMap[b] => WithPhis(b, given)[x] # Null
  BY NullAssumption DEF WithPhis, Value, Operand, AllNewPhis
<1>4. Work(w0, U) /\ w0.failed = FALSE /\ w0.varMap = WithPhis(b, given)
  BY <1>3 DEF Work, WalkTypes
<1>5. /\ Work(w, U \ {b})
      /\ \A x \in Local : given[x] # Null \/ x \in Gives(b) => w.varMap[x] # Null
      /\ w.failed =>
           \E i \in 1..Len(code.data[b]) :
             /\ code.data[b][i].op = "load"
             /\ WithPhis(b, given)[code.data[b][i].args[1].v] = Null
             /\ \A j \in 1..(i - 1) : code.data[b][j].dest # code.data[b][i].args[1].v
  <2> HIDE DEF w0
  <2> USE <1>1, <1>3, <1>4
  <2>1. UpdatedBlock(w, w0, U, b)
    <3>1. U \in SUBSET Block /\ b \in U
      OBVIOUS
    <3> HIDE DEF U
    <3> QED
      BY <3>1, BlockUpdated
  <2> HIDE DEF w
  <2> QED
    BY <2>1 DEF Gives, UpdatedBlock
<1> HIDE DEF w
<1>6. frame \in Frame
  <2>1. Range(code.flow[b].to) \subseteq Block
    BY <1>1, ShapeFacts, TargetFacts
  <2> QED
    BY <2>1 DEF Frame
<1>7. /\ n \in Nat /\ calls' \in Seq(Frame) /\ Len(calls') = n + 1
      /\ calls'[n + 1] = frame
      /\ \A i \in 1..n : calls'[i] = outer[i]
  BY <1>2, <1>6
<1>8. WalkTypes'
  <2>1. /\ w.data = data' /\ w.varMap = varMap' /\ DOMAIN data' = Block
        /\ varMap' \in [Local -> Value]
        /\ \A c \in U \ {b} : SameBody(data'[c], c)
    BY <1>2, <1>5 DEF Work
  <2>2. Value' = Value /\ Frame' = Frame /\ \A body, c : SameBody(body, c)' = SameBody(body, c)
    BY <1>1 DEF Value, Frame, Operand, SameBody, SameStmt
  <2>3. \A c \in Block \ visited' : SameBody(data'[c], c)
    BY <1>2, <2>1
  <2>4. visited' \in SUBSET Block /\ stage' \in {"def", "spread", "rename", "error", "done"}
    BY <1>2 DEF WalkTypes
  <2> QED
    BY <1>7, <2>1, <2>2, <2>3, <2>4 DEF WalkTypes
<1>9. Begun'
  BY <1>1, <1>2 DEF Begun
<1>10. Domi' = Domi /\ \A c : Gives(c)' = Gives(c)
  BY <1>1 DEF Domi, Ways, Gives, Stores
<1>11. OnTrail'
  <2> HIDE DEF frame
  <2>1. /\ frame.todo \subseteq Range(code.flow[frame.block].to)
        /\ \A d \in Node : <<d, frame.block>> \in Domi => \E j \in 1..(n + 1) : calls'[j].block = d
    <3>1. frame.block = b /\ frame.todo = Range(code.flow[b].to)
      BY DEF frame
    <3>2. ASSUME NEW d \in Node, <<d, b>> \in Domi PROVE \E j \in 1..(n + 1) : calls'[j].block = d
      <4>1. CASE d = b
        BY <1>7, <3>1, <4>1
      <4>2. CASE d # b
        <5>1. PICK j \in 1..n : outer[j].block = d
          BY <3>2, <4>2
        <5>2. j \in 1..(n + 1) /\ calls'[j].block = d
          BY <1>7, <5>1
        <5> QED
          BY <5>2
      <4> QED
        BY <4>1, <4>2
    <3> QED
      BY <3>1, <3>2
  <2>2. ASSUME NEW i \in 1..n
        PROVE  /\ outer[i].todo \subseteq Range(code.flow[outer[i].block].to)
               /\ \A d \in Node : <<d, outer[i].block>> \in Domi => \E j \in 1..i : calls'[j].block = d
    BY <1>7 DEF Around
  <2>3. ASSUME NEW i \in 1..(n + 1)
        PROVE  /\ calls'[i].todo \subseteq Range(code.flow[calls'[i].block].to)
               /\ \A d \in Node : <<d, calls'[i].block>> \in Domi => \E j \in 1..i : calls'[j].block = d
    <3>1. CASE i = n + 1
      BY <1>7, <2>1, <3>1
    <3>2. CASE i \in 1..n
      BY <1>7, <2>2, <3>2
    <3> QED
      BY <1>7, <3>1, <3>2
  <2> QED
    BY <1>1, <1>7, <1>10, <2>3 DEF OnTrail
<1>12. Remembered'
  <2>1. ASSUME NEW i \in 1..(n + 1), NEW x \in Local \cap Gives(calls'[i].block)
        PROVE  varMap'[x] # Null /\ \A k \in (i + 1)..(n + 1) : calls'[k].bak[x] # Null
    <3>1. CASE i = n + 1
      <4>1. calls'[i].block = b
        BY <1>7, <3>1
      <4>2. varMap'[x] # Null
        BY <1>2, <1>5, <4>1
      <4> QED
        BY <1>7, <3>1, <4>2
    <3>2. CASE i \in 1..n
      <4>1. given[x] # Null /\ \A k \in (i + 1)..n : outer[k].bak[x] # Null
        BY <1>7, <2>1, <3>2 DEF Around
      <4>2. varMap'[x] # Null
        BY <1>2, <1>5, <4>1
      <4>3. \A k \in (i + 1)..(n + 1) : calls'[k].bak[x] # Null
        BY <1>7, <3>2, <4>1
      <4> QED
        BY <4>2, <4>3
    <3> QED
      BY <1>7, <3>1, <3>2
  <2> QED
    BY <1>7, <1>10, <2>1 DEF Remembered
<1>13. FailsOnlyUnstored'
  <2> SUFFICES ASSUME w.failed
               PROVE  \E c \in Block : \E i \in DOMAIN code.data[c] :
                        code.data[c][i].op = "load" /\ ~StoredBefore(c, i)
    <3>1. \A d \in Block : Stores(d)' = Stores(d)
      BY <1>1 DEF Stores
    <3>2. \A c, i : StoredBefore(c, i)' <=> StoredBefore(c, i)
      BY <1>1, <3>1 DEF StoredBefore
    <3> QED
      BY <1>1, <1>2, <3>2 DEF FailsOnlyUnstored
  <2>1. PICK i \in 1..Len(code.data[b]) :
             /\ code.data[b][i].op = "load"
             /\ WithPhis(b, given)[code.data[b][i].args[1].v] = Null
             /\ \A j \in 1..(i - 1) : code.data[b][j].dest # code.data[b][i].args[1].v
    BY <1>5
  <2> DEFINE x == code.data[b][i].args[1].v
  <2>2. x \in Local
    <3>1. OfLocals(code.data[b][i])
      BY <1>1, CodeFacts
    <3>2. PICK y \in Local : code.data[b][i].args = <<Named(y)>>
      BY <2>1, <3>1 DEF OfLocals
    <3> QED
      BY <3>2 DEF Named
  <2> HIDE DEF x
  <2>3. given[x] = Null /\ x \notin phiMap[b]
    BY <1>3, <2>1, <2>2 DEF x
  <2>4. \A d \in Block : d # b /\ <<d, b>> \in Domi => x \notin Gives(d)
    <3> SUFFICES ASSUME NEW d \in Block, d # b, <<d, b>> \in Domi, x \in Gives(d) PROVE FALSE
      OBVIOUS
    <3>1. PICK j \in 1..n : outer[j].block = d
      BY DEF Node
    <3>2. given[x] # Null
      BY <2>2, <3>1 DEF Around
    <3> QED
      BY <2>3, <3>2
  <2>5. ~StoredBefore(b, i)
    BY <2>1, <2>3, <2>4, ReachedIsBehind DEF StoredBefore, x
  <2>6. i \in DOMAIN code.data[b]
    BY <1>1, CodeFacts
  <2> QED
    BY <2>1, <2>5, <2>6
<1> QED
  BY <1>8, <1>9, <1>11, <1>12, <1>13 DEF WalkInv

LEMMA SpreadFacts ==
  ASSUME WalkTypes, NEW c \in Block
  PROVE  /\ Spread(c) \in [Local -> Value]
         /\ \A x \in Local : varMap[x] # Null => Spread(c)[x] # Null
BY DEF Spread, WalkTypes, Value, Operand

LEMMA StartRenameStep == ASSUME Inv, WalkInv, StartRename PROVE WalkInv'
<1>1. /\ stage = "spread" /\ queue = <<>> /\ calls = <<>>
      /\ Rename(Entry, varMap, <<>>) /\ UNCHANGED <<code, placing>>
      /\ Entry \in Block \ visited /\ varMap \in [Local -> Value]
  BY BlockAssumption DEF StartRename, WalkInv, Begun, WalkTypes
<1>2. \A d \in Node : d # Entry => <<d, Entry>> \notin Domi
  BY RootHasOneDominator, BlockAssumption DEF Domi, Node
<1>3. Around(<<>>, varMap) /\ <<>> \in Seq(Frame)
  BY DEF Around
<1> QED
  BY <1>1, <1>2, <1>3, RenameStep DEF WalkInv

LEMMA DescendStep == ASSUME Inv, WalkInv, NEW c \in Block, Descend(c) PROVE WalkInv'
<1> DEFINE n == Len(calls)
           b == Last(calls).block
           outer == [calls EXCEPT ![n].todo = @ \ {c}]
<1>1. /\ stage = "rename" /\ queue = <<>> /\ UNCHANGED <<code, placing>>
      /\ n \in Nat /\ n \in 1..n /\ b = calls[n].block /\ b \in Block /\ c \in calls[n].todo
      /\ \A i \in 1..n : calls[i] \in Frame
  <2>1. /\ stage = "rename" /\ UNCHANGED <<code, placing>>
        /\ calls \in Seq(Frame) /\ calls # <<>> /\ c \in Last(calls).todo
    BY DEF Descend, WalkInv, WalkTypes
  <2>2. n \in Nat /\ n \in 1..n /\ \A i \in 1..n : calls[i] \in Frame
    BY <2>1
  <2>3. b = calls[n].block /\ b \in Block /\ c \in calls[n].todo
    BY <2>1, <2>2 DEF Last, Frame
  <2> QED
    BY <2>1, <2>2, <2>3 DEF WalkInv, Begun
<1>2. /\ outer \in Seq(Frame) /\ Len(outer) = n
      /\ \A i \in 1..n : /\ outer[i].block = calls[i].block /\ outer[i].bak = calls[i].bak
                         /\ outer[i].todo \subseteq calls[i].todo
  BY <1>1 DEF WalkInv, WalkTypes, Frame
<1>3. Spread(c) \in [Local -> Value] /\ \A x \in Local : varMap[x] # Null => Spread(c)[x] # Null
  BY SpreadFacts DEF WalkInv
<1> HIDE DEF outer, n
<1>4. Around(outer, Spread(c))
  <2> SUFFICES ASSUME NEW i \in 1..n
               PROVE  /\ outer[i].todo \subseteq Range(code.flow[outer[i].block].to)
                      /\ \A d \in Node : <<d, outer[i].block>> \in Domi => \E j \in 1..i : outer[j].block = d
                      /\ \A x \in Local \cap Gives(outer[i].block) :
                           Spread(c)[x] # Null /\ \A k \in (i + 1)..n : outer[k].bak[x] # Null
    BY <1>2 DEF Around
  <2>1. outer[i].todo \subseteq Range(code.flow[outer[i].block].to)
    BY <1>2 DEF WalkInv, OnTrail, n
  <2>2. ASSUME NEW d \in Node, <<d, outer[i].block>> \in Domi PROVE \E j \in 1..i : outer[j].block = d
    <3>1. PICK j \in 1..i : calls[j].block = d
      BY <1>2, <2>2 DEF WalkInv, OnTrail, n
    <3>2. outer[j].block = d
      BY <1>1, <1>2, <3>1
    <3> QED
      BY <3>2
  <2>3. ASSUME NEW x \in Local \cap Gives(outer[i].block)
        PROVE  Spread(c)[x] # Null /\ \A k \in (i + 1)..n : outer[k].bak[x] # Null
    <3>1. varMap[x] # Null /\ \A k \in (i + 1)..n : calls[k].bak[x] # Null
      BY <1>2, <2>3 DEF WalkInv, Remembered, n
    <3> QED
      BY <1>1, <1>2, <1>3, <3>1
  <2> QED
    BY <2>1, <2>2, <2>3
<1>5. CASE c \notin visited
  <2>1. Rename(c, Spread(c), outer)
    BY <1>5 DEF Descend, outer, n
  <2>2. ASSUME NEW d \in Node, d # c, <<d, c>> \in Domi PROVE \E j \in 1..n : outer[j].block = d
    <3>1. <<b, c>> \in Ways /\ b \in Node /\ c \in Node
      <4>1. c \in Range(code.flow[b].to)
        BY <1>1 DEF WalkInv, OnTrail, n
      <4>2. code.flow \in [Block -> FlowStmt]
        BY ShapeFacts DEF Inv, Shape
      <4> QED
        BY <1>1, <4>1, <4>2, TargetFacts DEF Ways, Node
    <3>2. <<d, b>> \in Domi
      BY <2>2, <3>1, DominatesPredecessors DEF Domi
    <3>3. PICK j \in 1..n : calls[j].block = d
      BY <1>1, <3>2 DEF WalkInv, OnTrail, n
    <3>4. outer[j].block = d
      BY <1>2, <3>3
    <3> QED
      BY <3>4
  <2> QED
    BY <1>1, <1>2, <1>3, <1>4, <1>5, <2>1, <2>2, RenameStep DEF WalkInv
<1>6. CASE c \in visited
  <2>1. /\ varMap' = Spread(c) /\ calls' = outer
        /\ UNCHANGED <<stage, visited, data>>
    BY <1>6 DEF Descend, outer, n
  <2>2. code' = code /\ phiMap' = phiMap /\ queue' = queue
    BY <1>1 DEF placing
  <2>3. /\ Value' = Value /\ Frame' = Frame /\ \A body, d : SameBody(body, d)' = SameBody(body, d)
        /\ Domi' = Domi /\ \A d : Gives(d)' = Gives(d)
    BY <2>2 DEF Value, Frame, Operand, SameBody, SameStmt, Domi, Ways, Gives, Stores
  <2>4. WalkTypes'
    BY <1>2, <1>3, <2>1, <2>3 DEF WalkInv, WalkTypes
  <2>5. Begun'
    BY <1>1, <2>1, <2>2 DEF Begun
  <2>6. OnTrail' /\ Remembered'
    BY <1>2, <1>4, <2>1, <2>2, <2>3 DEF Around, OnTrail, Remembered
  <2>7. FailsOnlyUnstored'
    BY <1>1, <2>1 DEF FailsOnlyUnstored
  <2> QED
    BY <2>4, <2>5, <2>6, <2>7 DEF WalkInv
<1> QED
  BY <1>5, <1>6

LEMMA LeaveStep == ASSUME Inv, WalkInv, Leave PROVE WalkInv'
<1> DEFINE n == Len(calls)
<1>1. /\ stage = "rename" /\ UNCHANGED <<code, stage, placing, visited, data>>
      /\ n \in Nat /\ n \in 1..n /\ calls[n] \in Frame
      /\ varMap' = calls[n].bak /\ calls' = Front(calls)
  BY DEF Leave, Restored, WalkInv, WalkTypes, Last
<1>2. calls' \in Seq(Frame) /\ Len(calls') = n - 1 /\ \A i \in 1..(n - 1) : calls'[i] = calls[i]
  <2>1. calls \in Seq(Frame) /\ calls' = SubSeq(calls, 1, n - 1) /\ n - 1 \in Nat
    BY <1>1 DEF Front, WalkInv, WalkTypes
  <2> DEFINE m == n - 1
  <2>2. \A i \in 1..m : calls[i] \in Frame
    BY <1>1, <2>1
  <2>3. m \in Int /\ calls' = SubSeq(calls, 1, m)
    BY <2>1
  <2> HIDE DEF m
  <2>4. /\ calls' \in Seq(Frame)
        /\ Len(calls') = IF 1 <= m THEN m - 1 + 1 ELSE 0
        /\ \A i \in 1..m - 1 + 1 : calls'[i] = calls[1 + i - 1]
    BY <2>2, <2>3, SubSeqProperties
  <2>5. m \in Nat /\ n = m + 1
    BY <1>1, <2>1 DEF m
  <2> QED
    BY <2>4, <2>5
<1>3. code' = code /\ phiMap' = phiMap /\ queue' = queue
  BY <1>1 DEF placing
<1>4. /\ Value' = Value /\ Frame' = Frame /\ \A body, d : SameBody(body, d)' = SameBody(body, d)
      /\ Domi' = Domi /\ \A d : Gives(d)' = Gives(d)
  BY <1>3 DEF Value, Frame, Operand, SameBody, SameStmt, Domi, Ways, Gives, Stores
<1>5. WalkTypes'
  BY <1>1, <1>2, <1>4 DEF WalkInv, WalkTypes, Frame
<1>6. Begun' /\ FailsOnlyUnstored'
  BY <1>1, <1>3 DEF Begun, FailsOnlyUnstored, WalkInv
<1> HIDE DEF n
<1>7. OnTrail'
  <2> SUFFICES ASSUME NEW i \in 1..(n - 1)
               PROVE  /\ calls[i].todo \subseteq Range(code.flow[calls[i].block].to)
                      /\ \A d \in Node : <<d, calls[i].block>> \in Domi => \E j \in 1..i : calls'[j].block = d
    BY <1>2, <1>3, <1>4 DEF OnTrail
  <2>1. i \in 1..n
    BY <1>1
  <2>2. /\ calls[i].todo \subseteq Range(code.flow[calls[i].block].to)
        /\ \A d \in Node : <<d, calls[i].block>> \in Domi => \E j \in 1..i : calls[j].block = d
    BY <2>1 DEF WalkInv, OnTrail, n
  <2>3. \A j \in 1..i : calls'[j] = calls[j]
    BY <1>1, <1>2
  <2>4. ASSUME NEW d \in Node, <<d, calls[i].block>> \in Domi
        PROVE  \E j \in 1..i : calls'[j].block = d
    <3>1. PICK j \in 1..i : calls[j].block = d
      BY <2>2, <2>4
    <3>2. calls'[j].block = d
      BY <2>3, <3>1
    <3> QED
      BY <3>2
  <2> QED
    BY <2>2, <2>4
<1>8. Remembered'
  <2> SUFFICES ASSUME NEW i \in 1..(n - 1), NEW x \in Local \cap Gives(calls[i].block)
               PROVE  calls[n].bak[x] # Null /\ \A k \in (i + 1)..(n - 1) : calls'[k].bak[x] # Null
    BY <1>1, <1>2, <1>4 DEF Remembered
  <2>1. \A k \in (i + 1)..n : calls[k].bak[x] # Null
    BY <1>1 DEF WalkInv, Remembered, n
  <2> QED
    BY <1>1, <1>2, <2>1
<1> QED
  BY <1>5, <1>6, <1>7, <1>8 DEF WalkInv

\* What the walk is made of stays as it is; the queue may not fill again.
LEMMA OthersStep ==
  ASSUME WalkInv, UNCHANGED <<code, calls, visited, varMap, data>>,
         \/ stage \in {"def", "spread"} /\ stage' = "spread"
         \/ /\ UNCHANGED <<placing>>
            /\ \/ stage' = stage
               \/ stage = "rename" /\ calls = <<>> /\ stage' = "done"
  PROVE  WalkInv'
<1>1. Value' = Value /\ Frame' = Frame /\ \A body, d : SameBody(body, d)' = SameBody(body, d)
  BY DEF Value, Frame, Operand, SameBody, SameStmt
<1>2. WalkTypes'
  BY <1>1 DEF WalkInv, WalkTypes
<1>3. Begun' /\ FailsOnlyUnstored'
  <2>1. \A d : Stores(d)' = Stores(d)
    BY DEF Stores
  <2>2. \A c, i : StoredBefore(c, i)' <=> StoredBefore(c, i)
    BY <2>1 DEF StoredBefore
  <2>3. FailsOnlyUnstored'
    BY <2>2 DEF WalkInv, FailsOnlyUnstored
  <2>4. Begun'
    BY DEF WalkInv, Begun, placing
  <2> QED
    BY <2>3, <2>4
<1>4. OnTrail' /\ Remembered'
  <2>1. CASE calls = <<>>
    BY <2>1 DEF OnTrail, Remembered
  <2>2. CASE calls # <<>>
    <3>1. phiMap' = phiMap
      BY <2>2 DEF WalkInv, Begun, placing
    <3>2. Domi' = Domi /\ \A d : Gives(d)' = Gives(d)
      BY <3>1 DEF Domi, Ways, Gives, Stores
    <3> QED
      BY <3>2 DEF WalkInv, OnTrail, Remembered
  <2> QED
    BY <2>1, <2>2
<1> QED
  BY <1>2, <1>3, <1>4 DEF WalkInv

LEMMA WalkInductive == Spec => []WalkInv
<1>1. Init => WalkInv
  BY WalkBegins
<1>2. Inv /\ WalkInv /\ [Next]_vars => WalkInv'
  <2> SUFFICES ASSUME Inv, WalkInv, [Next]_vars PROVE WalkInv'
    OBVIOUS
  <2>1. CASE SpreadDef
    BY <2>1, OthersStep DEF SpreadDef, renaming
  <2>2. CASE SpreadPhi
    BY <2>2, OthersStep DEF SpreadPhi, renaming
  <2>3. CASE StartRename
    BY <2>3, StartRenameStep
  <2>4. ASSUME NEW c \in Block, Descend(c) PROVE WalkInv'
    BY <2>4, DescendStep
  <2>5. CASE Leave
    BY <2>5, LeaveStep
  <2>6. CASE InsertPhi
    BY <2>6, OthersStep DEF InsertPhi
  <2>7. CASE \E c \in Exits(run.at) : RunOn(c)
    BY <2>7, OthersStep DEF RunOn, renaming
  <2>8. CASE UNCHANGED vars
    BY <2>8, OthersStep DEF vars, renaming
  <2> QED
    BY <2>1, <2>2, <2>3, <2>4, <2>5, <2>6, <2>7, <2>8 DEF Next
<1> QED
  BY <1>1, <1>2, Inductive, PTL DEF Spec

\* updateBlock's assertion "mem2reg: variable not initialized" fails only for a
\* load that no store to the local can run before: where one can, a new phi
\* statement or a dominator on the stack has given the local a value.
THEOREM AssertionFailsRightly == Spec => []FailsOnlyUnstored
<1>1. WalkInv => FailsOnlyUnstored
  BY DEF WalkInv
<1> QED
  BY <1>1, WalkInductive, PTL

(***************************************************************************)
(* What mem2regPass leaves does what the function did: SameReads, for      *)
(* every function.                                                         *)
(*                                                                         *)
(* The walk that renames gives each temporary of a load an operand (rep)   *)
(* and each place of a visited block a value for every local (cur).  Where *)
(* a block has no new phi statement for a local, the local has the value   *)
(* it has at the end of the nearest block that gives it one and dominates  *)
(* the block; on every way into the block, not only on the one the walk    *)
(* came by.  When the two functions run next to each other, a local is     *)
(* uninitialized or has what its operand has in the new function.          *)
(***************************************************************************)


Size(b) == Len(code.data[b])

\* d is another block that dominates b.
Above(d, b) == d \in Block /\ d # b /\ <<d, b>> \in Domi

LEMMA DominanceFacts ==
  ASSUME code \in Programs
  PROVE  /\ Ways \in SUBSET (Node \X Node) /\ Connected(Ways, Entry) /\ Entry \in Node
         /\ \A b \in Block : b \in Node /\ <<b, b>> \in Domi
         /\ \A c, d, b \in Block : <<c, d>> \in Domi /\ <<d, b>> \in Domi => <<c, b>> \in Domi
         /\ \A c, d \in Block : <<c, d>> \in Domi /\ <<d, c>> \in Domi => c = d
         /\ \A c, d, b \in Block : <<c, b>> \in Domi /\ <<d, b>> \in Domi =>
              <<c, d>> \in Domi \/ <<d, c>> \in Domi
<1>1. Ways \in SUBSET (Node \X Node) /\ Entry \in Node /\ Block \subseteq Node
  BY ShapeFacts, BlockAssumption DEF Node
<1>2. Connected(Ways, Entry)
  <2>1. WellFormed(code.flow)
    <3>1. <<code.flow, code.fro>> \in {<<p.flow, p.fro>> : p \in Programs}
      OBVIOUS
    <3> QED
      BY <3>1, ProgramsAssumption
  <2> QED
    BY <2>1 DEF WellFormed, Edges, Root, Ways
<1>3. \A b \in Block : b \in Node /\ <<b, b>> \in Domi
  BY <1>1, DominatesItself DEF Domi
<1>4. \A c, d, b \in Block : <<c, d>> \in Domi /\ <<d, b>> \in Domi => <<c, b>> \in Domi
  BY <1>1, DominanceIsTransitive DEF Domi
<1>5. \A c, d \in Block : <<c, d>> \in Domi /\ <<d, c>> \in Domi => c = d
  BY <1>1, <1>2, DominanceIsAntisymmetric DEF Domi
<1>6. \A c, d, b \in Block : <<c, b>> \in Domi /\ <<d, b>> \in Domi =>
        <<c, d>> \in Domi \/ <<d, c>> \in Domi
  BY <1>1, <1>2, DominatorsAreChained DEF Domi
<1> QED
  BY <1>1, <1>2, <1>3, <1>4, <1>5, <1>6

LEMMA AboveFacts ==
  ASSUME code \in Programs
  PROVE  /\ \A c, d, b \in Block : Above(c, d) /\ <<d, b>> \in Domi => Above(c, b)
         /\ \A c, d, b \in Block : <<c, d>> \in Domi /\ Above(d, b) => Above(c, b)
         /\ \A c, d \in Block : <<c, d>> \in Domi <=> c = d \/ Above(c, d)
BY DominanceFacts DEF Above

(***************************************************************************)
(* Temporaries and where they are defined.                                 *)
(***************************************************************************)
LoadTemps ==
  UNION {{code.data[b][i].dest : i \in {j \in DOMAIN code.data[b] : code.data[b][j].op = "load"}} :
           b \in Block}

AvailableAt(t, b, i) == t \in code.temps /\ Available(code, t, b, i)

LEMMA AvailableMeans ==
  ASSUME NEW t, NEW b \in Block, NEW i
  PROVE  Available(code, t, b, i) <=>
           DefinedIn(code, t, b, i) \/ \E d \in Block : Above(d, b) /\ DefinedIn(code, t, d, Size(d) + 1)
BY DEF Available, Above, Domi, Ways, Size, DominatorsOf, Node

LEMMA AvailableLater ==
  ASSUME NEW t, NEW b \in Block, NEW i \in Nat, NEW j \in Nat, i <= j, AvailableAt(t, b, i)
  PROVE  AvailableAt(t, b, j)
<1>1. DefinedIn(code, t, b, i) => DefinedIn(code, t, b, j)
  <2>1. 1..(i - 1) \subseteq 1..(j - 1)
    OBVIOUS
  <2> QED
    BY <2>1 DEF DefinedIn
<1> QED
  BY <1>1, AvailableMeans DEF AvailableAt

LEMMA AvailableBelow ==
  ASSUME code \in Programs, NEW d \in Block, NEW b \in Block, Above(d, b), NEW t,
         AvailableAt(t, d, Size(d) + 1), NEW i
  PROVE  AvailableAt(t, b, i)
<1>1. CASE DefinedIn(code, t, d, Size(d) + 1)
  BY <1>1, AvailableMeans DEF AvailableAt
<1>2. ASSUME NEW e \in Block, Above(e, d), DefinedIn(code, t, e, Size(e) + 1)
      PROVE  AvailableAt(t, b, i)
  <2>1. Above(e, b)
    BY <1>2, AboveFacts DEF Above
  <2> QED
    BY <1>2, <2>1, AvailableMeans DEF AvailableAt
<1> QED
  BY <1>1, <1>2, AvailableMeans DEF AvailableAt

\* A temporary has one definition, so that where it is available that was run.
LEMMA DefinedBefore ==
  ASSUME code \in Programs, NEW b \in Block, NEW i \in 1..(Size(b) + 1), NEW d \in Block,
         NEW j \in 1..Size(d), AvailableAt(code.data[d][j].dest, b, i)
  PROVE  (d = b /\ j < i) \/ Above(d, b)
<1> DEFINE t == code.data[d][j].dest
<1>1. OneDefinition(code) /\ \A e \in Block : Size(e) \in Nat /\ DOMAIN code.data[e] = 1..Size(e)
  BY CodeFacts, StatementsAssumption DEF Size
<1>2. t \in code.temps
  BY DEF AvailableAt
<1>3. ASSUME NEW e \in Block, NEW k \in 1..(Size(e) + 1), DefinedIn(code, t, e, k)
      PROVE  d = e /\ j < k
  <2>1. \A l \in DOMAIN code.phi[e] : code.phi[e][l].dest # t
    BY <1>1 DEF OneDefinition
  <2>2. PICK l \in 1..(k - 1) : code.data[e][l].dest = t
    BY <1>3, <2>1 DEF DefinedIn
  <2>3. l \in DOMAIN code.data[e] /\ j \in DOMAIN code.data[d] /\ l < k
    BY <1>1
  <2>4. d = e /\ j = l
    BY <1>1, <1>2, <2>2, <2>3 DEF OneDefinition
  <2> QED
    BY <2>3, <2>4
<1>4. Size(d) + 1 \in 1..(Size(d) + 1) /\ \A e \in Block : Size(e) + 1 \in 1..(Size(e) + 1)
  BY <1>1
<1> HIDE DEF t
<1>5. CASE DefinedIn(code, t, b, i)
  BY <1>3, <1>5
<1>6. ASSUME NEW e \in Block, Above(e, b), DefinedIn(code, t, e, Size(e) + 1)
      PROVE  Above(d, b)
  BY <1>3, <1>4, <1>6
<1> QED
  BY <1>5, <1>6, AvailableMeans DEF AvailableAt, t

\* The same of a phi statement.
LEMMA PhiDefinedBefore ==
  ASSUME code \in Programs, NEW b \in Block, NEW i \in 1..(Size(b) + 1), NEW d \in Block,
         NEW j \in DOMAIN code.phi[d], AvailableAt(code.phi[d][j].dest, b, i)
  PROVE  d = b \/ Above(d, b)
<1> DEFINE t == code.phi[d][j].dest
<1>1. OneDefinition(code) /\ \A e \in Block : Size(e) \in Nat /\ DOMAIN code.data[e] = 1..Size(e)
  BY CodeFacts, StatementsAssumption DEF Size
<1>3. ASSUME NEW e \in Block, NEW k \in 1..(Size(e) + 1), DefinedIn(code, t, e, k)
      PROVE  d = e
  <2>1. \A l \in 1..(k - 1) : code.data[e][l].dest # t
    BY <1>1 DEF OneDefinition
  <2> QED
    BY <1>1, <1>3, <2>1 DEF OneDefinition, DefinedIn
<1>4. \A e \in Block : Size(e) + 1 \in 1..(Size(e) + 1)
  BY <1>1
<1> HIDE DEF t
<1>5. CASE DefinedIn(code, t, b, i)
  BY <1>3, <1>5
<1>6. ASSUME NEW e \in Block, Above(e, b), DefinedIn(code, t, e, Size(e) + 1)
      PROVE  Above(d, b)
  BY <1>3, <1>4, <1>6
<1> QED
  BY <1>5, <1>6, AvailableMeans DEF AvailableAt, t

\* The destination of a phi statement is that of no load.
LEMMA PhiIsNoLoad ==
  ASSUME code \in Programs, NEW b \in Block, NEW j \in DOMAIN code.phi[b]
  PROVE  code.phi[b][j].dest \in code.temps \ LoadTemps
<1>1. OneDefinition(code) /\ PhiOK(code, b, j)
  BY StatementsAssumption
<1>2. code.phi[b][j].dest \in code.temps
  BY <1>1 DEF PhiOK
<1> QED
  BY <1>1, <1>2 DEF OneDefinition, LoadTemps

(***************************************************************************)
(* The places that stay.                                                   *)
(***************************************************************************)
Leaves(stmt) == stmt.op \in {"store", "load"}

IsUpTo(up, body, n) ==
  up = [i \in 0..n |->
          IF i = 0 THEN <<>> ELSE IF body[i].op \in {"store", "load"} THEN up[i - 1] ELSE Append(up[i - 1], i)]

LEMMA UpToMeans ==
  ASSUME NEW up, NEW body, NEW n \in Nat, IsUpTo(up, body, n)
  PROVE  /\ up[0] = <<>>
         /\ \A i \in 1..n : up[i] = IF Leaves(body[i]) THEN up[i - 1] ELSE Append(up[i - 1], i)
<1>1. \A i \in 0..n : up[i] =
        IF i = 0 THEN <<>> ELSE IF body[i].op \in {"store", "load"} THEN up[i - 1] ELSE Append(up[i - 1], i)
  BY DEF IsUpTo
<1>2. 0 \in 0..n /\ \A i \in 1..n : i \in 0..n /\ i # 0
  OBVIOUS
<1> QED
  BY <1>1, <1>2 DEF Leaves

LEMMA UpToExists ==
  ASSUME NEW body, NEW n \in Nat
  PROVE  \E up : IsUpTo(up, body, n)
<1> DEFINE S == {k \in Nat : \E up : IsUpTo(up, body, k)}
           Listed(up, i) ==
             IF i = 0 THEN <<>> ELSE IF body[i].op \in {"store", "load"} THEN up[i - 1] ELSE Append(up[i - 1], i)
<1>1. 0 \in S
  <2> DEFINE up == [i \in 0..0 |-> <<>>]
  <2>1. IsUpTo(up, body, 0)
    BY DEF IsUpTo
  <2> QED
    BY <2>1
<1>2. ASSUME NEW k \in Nat, k \in S PROVE k + 1 \in S
  <2> PICK up : IsUpTo(up, body, k)
    BY <1>2
  <2> DEFINE next == [i \in 0..(k + 1) |-> IF i = k + 1 THEN Listed(up, i) ELSE up[i]]
  <2>1. \A i \in 0..k : up[i] = Listed(up, i)
    BY DEF IsUpTo
  <2>2. \A i \in 1..(k + 1) : next[i - 1] = up[i - 1]
    OBVIOUS
  <2>3. \A i \in 0..(k + 1) : next[i] = Listed(next, i)
    <3> SUFFICES ASSUME NEW i \in 0..(k + 1) PROVE next[i] = Listed(next, i)
      OBVIOUS
    <3>1. i = 0 \/ next[i - 1] = up[i - 1]
      BY <2>2
    <3>2. next[i] = Listed(up, i)
      BY <2>1
    <3> QED
      BY <3>1, <3>2
  <2>4. next = [i \in 0..(k + 1) |-> next[i]]
    OBVIOUS
  <2> HIDE DEF next
  <2>5. IsUpTo(next, body, k + 1)
    BY <2>3, <2>4 DEF IsUpTo
  <2> QED
    BY <2>5
<1> HIDE DEF S
<1>3. n \in S
  BY <1>1, <1>2, Induction
<1> QED
  BY <1>3 DEF S

\* Which places stay depends on the operators only.
LEMMA StayingIs ==
  ASSUME NEW body, NEW n \in Nat, Len(body) = n, NEW other, NEW up, IsUpTo(up, other, n),
         \A i \in 1..n : body[i].op = other[i].op
  PROVE  Staying(body) = up[n]
<1>1. PICK own : own = CHOOSE u : IsUpTo(u, body, n)
  OBVIOUS
<1>2. IsUpTo(own, body, n)
  BY <1>1, UpToExists
<1>3. Staying(body) = own[n]
  BY <1>1 DEF Staying, IsUpTo
<1> DEFINE S == {k \in Nat : k \in 0..n => own[k] = up[k]}
<1>4. 0 \in S
  BY <1>2, UpToMeans
<1>5. ASSUME NEW k \in Nat, k \in S PROVE k + 1 \in S
  <2> SUFFICES ASSUME k + 1 \in 0..n PROVE own[k + 1] = up[k + 1]
    OBVIOUS
  <2>1. k + 1 \in 1..n /\ (k + 1) - 1 = k /\ own[k] = up[k]
    BY <1>5
  <2>2. own[k + 1] = IF Leaves(body[k + 1]) THEN own[k] ELSE Append(own[k], k + 1)
    BY <1>2, <2>1, UpToMeans
  <2>3. up[k + 1] = IF Leaves(other[k + 1]) THEN up[k] ELSE Append(up[k], k + 1)
    BY <2>1, UpToMeans
  <2>4. Leaves(body[k + 1]) <=> Leaves(other[k + 1])
    BY <2>1 DEF Leaves
  <2> QED
    BY <2>1, <2>2, <2>3, <2>4
<1>6. n \in S
  <2> HIDE DEF S
  <2> QED
    BY <1>4, <1>5, Induction
<1> QED
  BY <1>3, <1>6

\* The m[i]-th of the places that stay is the last up to i.
Counts(m, left, body, n) ==
  /\ m \in [0..n -> Nat] /\ m[0] = 0 /\ m[n] = Len(left)
  /\ \A i \in 1..n :
       /\ m[i] <= Len(left)
       /\ IF Leaves(body[i]) THEN m[i] = m[i - 1]
          ELSE m[i] = m[i - 1] + 1 /\ left[m[i]] = i

LEMMA StayingFacts ==
  ASSUME NEW body, NEW n \in Nat, Len(body) = n
  PROVE  /\ Staying(body) \in Seq(1..n)
         /\ \A k \in 1..Len(Staying(body)) : ~Leaves(body[Staying(body)[k]])
         /\ \E m : Counts(m, Staying(body), body, n)
         /\ \A other : Len(other) = n /\ (\A i \in 1..n : other[i].op = body[i].op) =>
              Staying(other) = Staying(body)
<1>1. PICK up : IsUpTo(up, body, n)
  BY UpToExists
<1>2. Staying(body) = up[n]
  BY <1>1, StayingIs
<1>3. /\ up[0] = <<>>
      /\ \A i \in 1..n : up[i] = IF Leaves(body[i]) THEN up[i - 1] ELSE Append(up[i - 1], i)
  BY <1>1, UpToMeans
<1> DEFINE Fine(s, i) == s \in Seq(1..i) /\ \A k \in 1..Len(s) : ~Leaves(body[s[k]])
           Begins(s, t) == Len(s) <= Len(t) /\ \A k \in 1..Len(s) : s[k] = t[k]
           S == {k \in Nat : k \in 0..n => Fine(up[k], k) /\ \A i \in 0..k : Begins(up[i], up[k])}
<1>4. 0 \in S
  <2>1. Fine(up[0], 0) /\ Begins(up[0], up[0])
    BY <1>3
  <2> HIDE DEF Fine, Begins
  <2> QED
    BY <2>1
<1>5. ASSUME NEW k \in Nat, k \in S PROVE k + 1 \in S
  <2> SUFFICES ASSUME k + 1 \in 0..n
               PROVE  Fine(up[k + 1], k + 1) /\ \A i \in 0..(k + 1) : Begins(up[i], up[k + 1])
    OBVIOUS
  <2>1. /\ Fine(up[k], k) /\ \A i \in 0..k : Begins(up[i], up[k])
        /\ up[k + 1] = IF Leaves(body[k + 1]) THEN up[k] ELSE Append(up[k], k + 1)
    BY <1>3, <1>5
  <2>2. up[k] \in Seq(1..(k + 1)) /\ up[k] \in Seq(1..k)
    BY <2>1
  <2>3. Fine(up[k + 1], k + 1) /\ Begins(up[k], up[k + 1]) /\ Begins(up[k + 1], up[k + 1])
    <3>1. CASE Leaves(body[k + 1])
      BY <2>1, <2>2, <3>1
    <3>2. CASE ~Leaves(body[k + 1])
      <4> DEFINE s == up[k]
                 t == Append(s, k + 1)
      <4>1. up[k + 1] = t
        BY <2>1, <3>2
      <4>2. t \in Seq(1..(k + 1)) /\ Len(t) = Len(s) + 1 /\ Len(s) \in Nat
            /\ (\A l \in 1..Len(s) : t[l] = s[l]) /\ t[Len(s) + 1] = k + 1
        BY <2>2
      <4>3. \A l \in 1..Len(s) : ~Leaves(body[s[l]])
        BY <2>1
      <4> HIDE DEF s, t, Leaves
      <4>4. \A l \in 1..Len(t) : ~Leaves(body[t[l]])
        <5> SUFFICES ASSUME NEW l \in 1..Len(t) PROVE ~Leaves(body[t[l]])
          OBVIOUS
        <5>1. l \in 1..Len(s) \/ l = Len(s) + 1
          BY <4>2
        <5> QED
          BY <3>2, <4>2, <4>3, <5>1
      <4>5. Begins(s, t) /\ Begins(t, t)
        BY <4>2
      <4> QED
        BY <4>1, <4>2, <4>4, <4>5 DEF s
    <3> QED
      BY <3>1, <3>2
  <2>4. ASSUME NEW i \in 0..k PROVE Begins(up[i], up[k + 1])
    <3>1. Begins(up[i], up[k])
      BY <2>1
    <3>2. Len(up[k]) \in Nat /\ Len(up[k + 1]) \in Nat
      BY <2>2, <2>3
    <3>3. Len(up[i]) \in Nat
      <4>1. i \in 0..n
        OBVIOUS
      <4> QED
        BY <1>3, <3>1, LenProperties
    <3> QED
      BY <2>3, <3>1, <3>2, <3>3
  <2> QED
    BY <2>3, <2>4
<1>6. ASSUME NEW k \in 0..n PROVE Fine(up[k], k) /\ \A i \in 0..k : Begins(up[i], up[k])
  <2>1. k \in S
    <3> HIDE DEF S
    <3> QED
      BY <1>4, <1>5, Induction
  <2> QED
    BY <2>1
<1> DEFINE m == [i \in 0..n |-> Len(up[i])]
<1>7. Counts(m, up[n], body, n)
  <2>1. \A i \in 0..n : up[i] \in Seq(1..i) /\ Len(up[i]) \in Nat
    BY <1>6
  <2>2. m \in [0..n -> Nat] /\ m[0] = 0 /\ m[n] = Len(up[n])
    BY <1>3, <2>1
  <2>3. ASSUME NEW i \in 1..n
        PROVE  /\ m[i] <= Len(up[n])
               /\ IF Leaves(body[i]) THEN m[i] = m[i - 1]
                  ELSE m[i] = m[i - 1] + 1 /\ up[n][m[i]] = i
    <3>1. i \in 0..n /\ i - 1 \in 0..n /\ n \in 0..n /\ Begins(up[i], up[n])
      BY <1>6
    <3>2. CASE Leaves(body[i])
      BY <1>3, <3>1, <3>2
    <3>3. CASE ~Leaves(body[i])
      <4>1. up[i] = Append(up[i - 1], i) /\ up[i - 1] \in Seq(1..(i - 1))
        BY <1>3, <2>1, <3>1, <3>3
      <4>2. Len(up[i]) = Len(up[i - 1]) + 1 /\ up[i][Len(up[i])] = i /\ Len(up[i]) \in 1..Len(up[i])
        BY <4>1
      <4> QED
        BY <3>1, <3>3, <4>2
    <3> QED
      BY <3>2, <3>3
  <2> HIDE DEF m
  <2> QED
    BY <2>2, <2>3 DEF Counts
<1>8. Staying(body) \in Seq(1..n) /\ \A k \in 1..Len(Staying(body)) : ~Leaves(body[Staying(body)[k]])
  <2>1. n \in 0..n
    OBVIOUS
  <2> QED
    BY <1>2, <1>6, <2>1
<1>9. \A other : Len(other) = n /\ (\A i \in 1..n : other[i].op = body[i].op) =>
           Staying(other) = up[n]
  BY <1>1, StayingIs
<1> QED
  BY <1>2, <1>7, <1>8, <1>9

(***************************************************************************)
(* The function with each temporary replaced by its operand in rep: the    *)
(* blocks in V have lost their loads and stores.                           *)
(***************************************************************************)
Sub(rep, o) == IF o.k = "name" /\ o.v \in code.temps THEN rep[o.v] ELSE o

AllSub(rep, operands) == [j \in DOMAIN operands |-> Sub(rep, operands[j])]

SubStmt(rep, stmt) == Stmt(stmt.op, stmt.dest, AllSub(rep, stmt.args))

BodyOf(rep, b) == [i \in 1..Size(b) |-> SubStmt(rep, code.data[b][i])]

Left(b) == Staying(code.data[b])

KeptOf(rep, b) == [k \in 1..Len(Left(b)) |-> SubStmt(rep, code.data[b][Left(b)[k]])]

DataOf(rep, V) == [b \in Block |-> IF b \in V THEN KeptOf(rep, b) ELSE BodyOf(rep, b)]

PhiOf(rep, b) ==
  [j \in 1..Len(code.phi[b]) |-> Phi(code.phi[b][j].dest, AllSub(rep, code.phi[b][j].from))]

PhisOf(rep) == [b \in Block |-> PhiOf(rep, b)]

\* t stands for itself, and for nothing else.
Alone(rep, t) ==
  /\ DOMAIN rep = code.temps /\ t \in code.temps /\ rep[t] = Named(t)
  /\ \A u \in code.temps : u # t => ~(rep[u].k = "name" /\ rep[u].v = t)

LEMMA SubstitutedIs ==
  ASSUME NEW rep, NEW t, Alone(rep, t), NEW value, NEW o
  PROVE  Substituted(Sub(rep, o), t, value) = Sub([rep EXCEPT ![t] = value], o)
BY DEF Substituted, Sub, Alone, Named

LEMMA AllSubstitutedAre ==
  ASSUME NEW rep, NEW t, Alone(rep, t), NEW value, NEW operands
  PROVE  AllSubstituted(AllSub(rep, operands), t, value) = AllSub([rep EXCEPT ![t] = value], operands)
<1> DEFINE new == [rep EXCEPT ![t] = value]
<1>1. \A j \in DOMAIN operands :
        Substituted(AllSub(rep, operands)[j], t, value) = Sub(new, operands[j])
  BY SubstitutedIs DEF AllSub
<1> HIDE DEF new
<1>2. DOMAIN AllSub(rep, operands) = DOMAIN operands
  BY DEF AllSub
<1> QED
  BY <1>1, <1>2 DEF AllSubstituted, AllSub, new

LEMMA StmtSubstituted ==
  ASSUME NEW rep, NEW t, Alone(rep, t), NEW value, NEW stmt
  PROVE  [SubStmt(rep, stmt) EXCEPT !.args = AllSubstituted(@, t, value)]
           = SubStmt([rep EXCEPT ![t] = value], stmt)
<1> DEFINE old == AllSub(rep, stmt.args)
           new == AllSubstituted(old, t, value)
<1>1. SubStmt(rep, stmt) = [op |-> stmt.op, dest |-> stmt.dest, args |-> old]
  BY DEF SubStmt, Stmt
<1>2. new = AllSub([rep EXCEPT ![t] = value], stmt.args)
  BY AllSubstitutedAre
<1>3. [SubStmt(rep, stmt) EXCEPT !.args = AllSubstituted(@, t, value)]
        = [op |-> stmt.op, dest |-> stmt.dest, args |-> new]
  <2> HIDE DEF old
  <2> QED
    BY <1>1
<1> QED
  BY <1>2, <1>3 DEF SubStmt, Stmt

LEMMA PhiSubstituted ==
  ASSUME NEW rep, NEW t, Alone(rep, t), NEW value, NEW dest, NEW from
  PROVE  [Phi(dest, AllSub(rep, from)) EXCEPT !.from = AllSubstituted(@, t, value)]
           = Phi(dest, AllSub([rep EXCEPT ![t] = value], from))
<1> DEFINE old == AllSub(rep, from)
           new == AllSubstituted(old, t, value)
<1>2. new = AllSub([rep EXCEPT ![t] = value], from)
  BY AllSubstitutedAre
<1>3. [Phi(dest, old) EXCEPT !.from = AllSubstituted(@, t, value)] = Phi(dest, new)
  <2> HIDE DEF old
  <2> QED
    BY DEF Phi
<1> QED
  BY <1>2, <1>3

LEMMA UsesReplaced ==
  ASSUME NEW rep, NEW t, Alone(rep, t), NEW value, NEW V, NEW w,
         w = [data |-> DataOf(rep, V), phi |-> PhisOf(rep), varMap |-> w.varMap, failed |-> w.failed]
  PROVE  UpdateUses(w, t, value) =
           [data |-> DataOf([rep EXCEPT ![t] = value], V), phi |-> PhisOf([rep EXCEPT ![t] = value]),
            varMap |-> w.varMap, failed |-> w.failed]
<1> DEFINE new == [rep EXCEPT ![t] = value]
           bodies == [b \in Block |-> [i \in DOMAIN w.data[b] |->
                        [w.data[b][i] EXCEPT !.args = AllSubstituted(@, t, value)]]]
           phis == [b \in Block |-> [i \in DOMAIN w.phi[b] |->
                      [w.phi[b][i] EXCEPT !.from = AllSubstituted(@, t, value)]]]
<1>1. UpdateUses(w, t, value) = [data |-> bodies, phi |-> phis, varMap |-> w.varMap, failed |-> w.failed]
  <2>1. UpdateUses(w, t, value) = [w EXCEPT !.data = bodies, !.phi = phis]
    BY DEF UpdateUses
  <2> HIDE DEF bodies, phis
  <2> QED
    BY <2>1
<1>2. bodies = DataOf(new, V)
  <2> SUFFICES ASSUME NEW b \in Block
               PROVE  [i \in DOMAIN w.data[b] |->
                        [w.data[b][i] EXCEPT !.args = AllSubstituted(@, t, value)]] = DataOf(new, V)[b]
    BY DEF DataOf
  <2>1. w.data[b] = IF b \in V THEN KeptOf(rep, b) ELSE BodyOf(rep, b)
    BY DEF DataOf
  <2>2. CASE b \in V
    <3>1. w.data[b] = KeptOf(rep, b) /\ DataOf(new, V)[b] = KeptOf(new, b)
      BY <2>1, <2>2 DEF DataOf
    <3>2. DOMAIN KeptOf(rep, b) = 1..Len(Left(b))
      BY DEF KeptOf
    <3>3. ASSUME NEW i \in 1..Len(Left(b))
          PROVE  [KeptOf(rep, b)[i] EXCEPT !.args = AllSubstituted(@, t, value)] = SubStmt(new, code.data[b][Left(b)[i]])
      <4>1. KeptOf(rep, b)[i] = SubStmt(rep, code.data[b][Left(b)[i]])
        BY DEF KeptOf
      <4> QED
        BY <4>1, StmtSubstituted
    <3> HIDE DEF new
    <3> QED
      BY <3>1, <3>2, <3>3 DEF KeptOf
  <2>3. CASE b \notin V
    <3>1. w.data[b] = BodyOf(rep, b) /\ DataOf(new, V)[b] = BodyOf(new, b)
      BY <2>1, <2>3 DEF DataOf
    <3>2. DOMAIN BodyOf(rep, b) = 1..Size(b)
      BY DEF BodyOf
    <3>3. ASSUME NEW i \in 1..Size(b)
          PROVE  [BodyOf(rep, b)[i] EXCEPT !.args = AllSubstituted(@, t, value)] = SubStmt(new, code.data[b][i])
      <4>1. BodyOf(rep, b)[i] = SubStmt(rep, code.data[b][i])
        BY DEF BodyOf
      <4> QED
        BY <4>1, StmtSubstituted
    <3> HIDE DEF new
    <3> QED
      BY <3>1, <3>2, <3>3 DEF BodyOf
  <2> QED
    BY <2>2, <2>3
<1>3. phis = PhisOf(new)
  <2> SUFFICES ASSUME NEW b \in Block
               PROVE  [i \in DOMAIN w.phi[b] |->
                        [w.phi[b][i] EXCEPT !.from = AllSubstituted(@, t, value)]] = PhiOf(new, b)
    BY DEF PhisOf
  <2>1. w.phi[b] = PhiOf(rep, b)
    BY DEF PhisOf
  <2> DEFINE n == Len(code.phi[b])
             dest(j) == code.phi[b][j].dest
             from(j) == code.phi[b][j].from
  <2>2. /\ DOMAIN PhiOf(rep, b) = 1..n
        /\ \A j \in 1..n : PhiOf(rep, b)[j] = Phi(dest(j), AllSub(rep, from(j)))
    BY DEF PhiOf
  <2>3. \A j \in 1..n : [PhiOf(rep, b)[j] EXCEPT !.from = AllSubstituted(@, t, value)]
                            = Phi(dest(j), AllSub(new, from(j)))
    <3> TAKE j \in 1..n
    <3>1. PhiOf(rep, b)[j] = Phi(dest(j), AllSub(rep, from(j)))
      BY <2>2
    <3> QED
      BY <3>1, PhiSubstituted
  <2> HIDE DEF new
  <2> QED
    BY <2>1, <2>2, <2>3 DEF PhiOf
<1> QED
  BY <1>1, <1>2, <1>3

\* At the beginning every temporary stands for itself.
LEMMA NothingReplaced ==
  ASSUME code \in Programs
  PROVE  /\ DataOf([t \in code.temps |-> Named(t)], {}) = code.data
         /\ PhisOf([t \in code.temps |-> Named(t)]) = code.phi
<1> DEFINE rep == [t \in code.temps |-> Named(t)]
<1>1. /\ code.data = [b \in Block |-> code.data[b]] /\ code.phi = [b \in Block |-> code.phi[b]]
      /\ \A b \in Block :
           /\ code.data[b] \in Seq(Range(code.data[b])) /\ code.phi[b] \in Seq(Range(code.phi[b]))
           /\ \A i \in DOMAIN code.data[b] : StatementOK(code, b, i)
           /\ \A j \in DOMAIN code.phi[b] : PhiOK(code, b, j)
      /\ code.temps \cap (Local \cup AllNewPhis \cup {Null}) = {}
  BY StatementsAssumption
<1>2. ASSUME NEW b \in Block, NEW i \in 1..Size(b)
      PROVE  SubStmt(rep, code.data[b][i]) = code.data[b][i]
  <2> DEFINE stmt == code.data[b][i]
  <2>1. StatementOK(code, b, i) /\ i \in DOMAIN code.data[b]
    BY <1>1, CodeFacts DEF Size
  <2>2. stmt = Stmt(stmt.op, stmt.dest, stmt.args) /\ stmt.args \in Seq(Range(stmt.args))
    BY <2>1 DEF StatementOK
  <2>3. ASSUME NEW j \in DOMAIN stmt.args PROVE Sub(rep, stmt.args[j]) = stmt.args[j]
    <3>1. CASE stmt.op = "load"
      <4>1. PICK x \in Local : stmt.args = <<Named(x)>>
        BY <2>1, <3>1 DEF StatementOK
      <4>2. stmt.args[j] = Named(x)
        BY <4>1
      <4>3. x \notin code.temps
        BY <1>1
      <4> QED
        BY <4>2, <4>3 DEF Sub, Named
    <3>2. CASE stmt.op # "load"
      <4>1. MayUse(code, stmt.args[j], b, i)
        BY <2>1, <3>2 DEF StatementOK
      <4> HIDE DEF stmt
      <4> QED
        BY <4>1 DEF MayUse, Sub
    <3> QED
      BY <3>1, <3>2
  <2>4. AllSub(rep, stmt.args) = stmt.args
    <3>1. stmt.args = [j \in DOMAIN stmt.args |-> stmt.args[j]]
      BY <2>2
    <3> HIDE DEF stmt, rep
    <3> QED
      BY <2>3, <3>1 DEF AllSub
  <2> HIDE DEF stmt, rep
  <2> QED
    BY <2>2, <2>4 DEF SubStmt, stmt
<1>3. ASSUME NEW b \in Block PROVE BodyOf(rep, b) = code.data[b]
  <2>1. code.data[b] = [i \in 1..Size(b) |-> code.data[b][i]]
    BY <1>1, CodeFacts DEF Size
  <2> HIDE DEF rep
  <2> QED
    BY <1>2, <2>1 DEF BodyOf
<1>4. ASSUME NEW b \in Block PROVE PhiOf(rep, b) = code.phi[b]
  <2>1. /\ code.phi[b] = [j \in 1..Len(code.phi[b]) |-> code.phi[b][j]]
        /\ DOMAIN code.phi[b] = 1..Len(code.phi[b])
    <3>1. code.phi[b] \in Seq(Range(code.phi[b]))
      BY <1>1
    <3> QED
      BY ONLY <3>1
  <2>2. ASSUME NEW j \in DOMAIN code.phi[b]
        PROVE  Phi(code.phi[b][j].dest, AllSub(rep, code.phi[b][j].from)) = code.phi[b][j]
    <3> DEFINE stmt == code.phi[b][j]
    <3>1. PhiOK(code, b, j)
      BY <1>1
    <3>2. /\ stmt = Phi(stmt.dest, stmt.from) /\ stmt.from = [q \in DOMAIN stmt.from |-> stmt.from[q]]
          /\ \A q \in DOMAIN stmt.from : MayUse(code, stmt.from[q], q, Len(code.data[q]) + 1)
      BY <3>1 DEF PhiOK
    <3> HIDE DEF stmt, rep
    <3>3. \A q \in DOMAIN stmt.from : Sub(rep, stmt.from[q]) = stmt.from[q]
      BY <3>2 DEF MayUse, Sub, rep
    <3>4. AllSub(rep, stmt.from) = [q \in DOMAIN stmt.from |-> stmt.from[q]]
      BY <3>3 DEF AllSub
    <3> QED
      BY <3>2, <3>4 DEF stmt
  <2> HIDE DEF rep
  <2> QED
    BY <2>1, <2>2 DEF PhiOf
<1> HIDE DEF rep
<1> QED
  BY <1>1, <1>3, <1>4 DEF DataOf, PhisOf, rep

(***************************************************************************)
(* The values of the locals.  Those of V are done, and of the block c the  *)
(* first k statements.  What is present at a statement has been assigned   *)
(* whenever that is reached, and is not what will be replaced.             *)
(***************************************************************************)
IsDone(V, c, k, b, i) == b \in V \/ (b = c /\ i <= k)

Present(v, b, i) ==
  v # Null =>
    /\ v.k \notin {"argument", "cell"}
    /\ v.k = "name" =>
         \/ v = Named(v.v) /\ v.v \notin LoadTemps /\ AvailableAt(v.v, b, i)
         \/ \E d \in Block : \E x \in Local : v = Named(NewPhi(d, x)) /\ <<d, b>> \in Domi /\ x \in phiMap[d]

Step(cur, rep, b, i) ==
  LET stmt == code.data[b][i]
  IN  /\ cur[b][i] = IF stmt.op = "store" THEN [cur[b][i - 1] EXCEPT ![stmt.dest] = Sub(rep, stmt.args[1])]
                     ELSE cur[b][i - 1]
      /\ stmt.op = "load" => /\ cur[b][i - 1][stmt.args[1].v] # Null
                             /\ rep[stmt.dest] = cur[b][i - 1][stmt.args[1].v]

Traced(cur, rep, V, c, k) ==
  /\ rep = [t \in code.temps |-> rep[t]]
  /\ \A b \in Block : \A i \in 0..Size(b) : IsDone(V, c, k, b, i) =>
       cur[b][i] \in [Local -> Value] /\ \A x \in Local : Present(cur[b][i][x], b, i + 1)
  /\ \A b \in Block : \A i \in 1..Size(b) : IsDone(V, c, k, b, i) => Step(cur, rep, b, i)
  /\ \A t \in code.temps :
       \/ rep[t] = Named(t)
       \/ \E b \in Block : \E i \in 1..Size(b) :
            IsDone(V, c, k, b, i) /\ code.data[b][i].op = "load" /\ code.data[b][i].dest = t

\* What is run before the i-th statement of b.
IsBefore(d, j, b, i) == (d = b /\ j < i) \/ Above(d, b)

LEMMA PresentOn ==
  ASSUME code \in Programs, NEW d \in Block, NEW b \in Block, NEW j \in 1..(Size(d) + 1), NEW i \in Nat,
         (d = b /\ j <= i) \/ Above(d, b), NEW v, Present(v, d, j)
  PROVE  Present(v, b, i)
<1>1. Size(d) + 1 \in Nat /\ j \in Nat /\ j <= Size(d) + 1
  BY CodeFacts DEF Size
<1>2. ASSUME NEW t, AvailableAt(t, d, j) PROVE AvailableAt(t, b, i)
  <2>1. AvailableAt(t, d, Size(d) + 1)
    BY <1>1, <1>2, AvailableLater
  <2> QED
    BY <1>1, <1>2, <2>1, AvailableLater, AvailableBelow
<1>3. ASSUME NEW e \in Block, <<e, d>> \in Domi PROVE <<e, b>> \in Domi
  BY <1>3, DominanceFacts DEF Above
<1> QED
  BY <1>2, <1>3 DEF Present

\* What is known of an operand that replaces a temporary.
LEMMA RepFacts ==
  ASSUME code \in Programs, NEW cur, NEW rep, NEW V, NEW c, NEW k \in Nat, Traced(cur, rep, V, c, k)
  PROVE  /\ \A t \in code.temps \ LoadTemps : rep[t] = Named(t)
         /\ \A b \in Block : \A i \in 1..Size(b) :
              code.data[b][i].op = "load" =>
                IF IsDone(V, c, k, b, i)
                THEN rep[code.data[b][i].dest] # Null /\ Present(rep[code.data[b][i].dest], b, i)
                ELSE Alone(rep, code.data[b][i].dest)
<1>1. \A b \in Block : Size(b) \in Nat /\ DOMAIN code.data[b] = 1..Size(b)
        /\ \A i \in 1..Size(b) : OfLocals(code.data[b][i])
  BY CodeFacts DEF Size
<1>2. OneDefinition(code) /\ code.temps \cap AllNewPhis = {}
  BY StatementsAssumption
<1>3. ASSUME NEW t \in code.temps, rep[t] # Named(t)
      PROVE  \E b \in Block : \E i \in 1..Size(b) :
               IsDone(V, c, k, b, i) /\ code.data[b][i].op = "load" /\ code.data[b][i].dest = t
  BY <1>3 DEF Traced
<1>4. ASSUME NEW b \in Block, NEW i \in 1..Size(b), code.data[b][i].op = "load", IsDone(V, c, k, b, i)
      PROVE  rep[code.data[b][i].dest] # Null /\ Present(rep[code.data[b][i].dest], b, i)
  <2>1. Step(cur, rep, b, i)
    BY <1>4 DEF Traced
  <2>2. /\ rep[code.data[b][i].dest] = cur[b][i - 1][code.data[b][i].args[1].v]
        /\ cur[b][i - 1][code.data[b][i].args[1].v] # Null
    BY <1>4, <2>1 DEF Step
  <2>3. code.data[b][i].args[1].v \in Local
    <3>1. PICK x \in Local : code.data[b][i].args = <<Named(x)>>
      BY <1>1, <1>4 DEF OfLocals
    <3> QED
      BY <3>1 DEF Named
  <2>4. i - 1 \in 0..Size(b) /\ IsDone(V, c, k, b, i - 1) /\ (i - 1) + 1 = i
    BY <1>1, <1>4 DEF IsDone
  <2>5. \A x \in Local : Present(cur[b][i - 1][x], b, (i - 1) + 1)
    BY <2>4 DEF Traced
  <2> QED
    BY <2>2, <2>3, <2>4, <2>5
<1>5. ASSUME NEW t \in code.temps \ LoadTemps PROVE rep[t] = Named(t)
  BY <1>1, <1>3 DEF LoadTemps
<1>6. ASSUME NEW b \in Block, NEW i \in 1..Size(b), code.data[b][i].op = "load", ~IsDone(V, c, k, b, i)
      PROVE  Alone(rep, code.data[b][i].dest)
  <2> DEFINE t == code.data[b][i].dest
  <2>1. t \in code.temps /\ t \in LoadTemps
    BY <1>1, <1>6 DEF OfLocals, LoadTemps
  <2>2. rep[t] = Named(t)
    <3> SUFFICES ASSUME rep[t] # Named(t) PROVE FALSE
      OBVIOUS
    <3>1. PICK d \in Block : \E j \in 1..Size(d) :
             IsDone(V, c, k, d, j) /\ code.data[d][j].op = "load" /\ code.data[d][j].dest = t
      BY <1>3, <2>1
    <3>2. PICK j \in 1..Size(d) : IsDone(V, c, k, d, j) /\ code.data[d][j].dest = t
      BY <3>1
    <3>3. d = b /\ j = i
      BY <1>1, <1>2, <2>1, <3>2 DEF OneDefinition
    <3> QED
      BY <1>6, <3>2, <3>3
  <2>3. ASSUME NEW u \in code.temps, u # t, rep[u].k = "name", rep[u].v = t PROVE FALSE
    <3>1. rep[u] # Named(u)
      BY <2>3 DEF Named
    <3>2. PICK d \in Block : \E j \in 1..Size(d) :
             IsDone(V, c, k, d, j) /\ code.data[d][j].op = "load" /\ code.data[d][j].dest = u
      BY <1>3, <3>1
    <3>3. PICK j \in 1..Size(d) : Present(rep[u], d, j) /\ rep[u] # Null
      BY <1>4, <3>2
    <3>4. \E e \in Block : \E x \in Local : rep[u] = Named(NewPhi(e, x))
      BY <2>1, <2>3, <3>3 DEF Present
    <3>5. t \in AllNewPhis
      BY <2>3, <3>4 DEF Named, AllNewPhis
    <3> QED
      BY <1>2, <2>1, <3>5
  <2>4. DOMAIN rep = code.temps
    BY DEF Traced
  <2> HIDE DEF t
  <2>5. Alone(rep, t)
    BY <2>1, <2>2, <2>3, <2>4 DEF Alone
  <2> QED
    BY <2>5 DEF t
<1> HIDE DEF IsDone
<1> QED
  BY <1>4, <1>5, <1>6

\* An operand is replaced by what is present where it is used.
LEMMA UsePresent ==
  ASSUME code \in Programs, NEW cur, NEW rep, NEW V, NEW c, NEW k \in Nat, Traced(cur, rep, V, c, k),
         NEW b \in Block, NEW i \in 1..(Size(b) + 1),
         \A d \in Block : \A j \in 1..Size(d) : IsBefore(d, j, b, i) => IsDone(V, c, k, d, j),
         NEW o, MayUse(code, o, b, i)
  PROVE  Present(Sub(rep, o), b, i)
<1>1. CASE o.k # "name"
  BY <1>1 DEF MayUse, Present, Sub
<1>2. CASE o.k = "name"
  <2> DEFINE t == o.v
  <2>1. o = Named(t) /\ t \in code.temps /\ AvailableAt(t, b, i)
    BY <1>2 DEF MayUse, AvailableAt
  <2>2. Sub(rep, o) = rep[t]
    BY <1>2, <2>1 DEF Sub
  <2>3. CASE t \notin LoadTemps
    <3>1. rep[t] = Named(t)
      BY <2>1, <2>3, RepFacts
    <3> QED
      BY <2>1, <2>2, <2>3, <3>1 DEF Present, Named
  <2>4. CASE t \in LoadTemps
    <3>1. PICK d \in Block : \E j \in DOMAIN code.data[d] : code.data[d][j].op = "load" /\ code.data[d][j].dest = t
      BY <2>4 DEF LoadTemps
    <3>2. PICK j \in 1..Size(d) : code.data[d][j].op = "load" /\ code.data[d][j].dest = t
      BY <3>1, CodeFacts DEF Size
    <3>3. (d = b /\ j < i) \/ Above(d, b)
      BY <2>1, <3>2, DefinedBefore
    <3>4. IsDone(V, c, k, d, j)
      BY <3>3 DEF IsBefore
    <3>5. Present(rep[t], d, j)
      BY <3>2, <3>4, RepFacts
    <3>6. Size(d) \in Nat /\ Size(b) \in Nat
      BY CodeFacts DEF Size
    <3>7. j \in 1..(Size(d) + 1) /\ i \in Nat /\ (j < i => j <= i)
      BY <3>6
    <3> QED
      BY <2>2, <3>3, <3>5, <3>7, PresentOn
  <2> QED
    BY <2>3, <2>4
<1> QED
  BY <1>1, <1>2

\* With a block what dominates it is in V; c is the block being worked on.
Begins(V, c) ==
  /\ V \subseteq Block /\ c \in Block \ V
  /\ \A b \in V : \A d \in Block : <<d, b>> \in Domi => d \in V
  /\ \A d \in Block : Above(d, c) => d \in V

LEMMA BeforeIsDone ==
  ASSUME code \in Programs, NEW V, NEW c, Begins(V, c), NEW k \in Nat, NEW b \in Block, NEW i \in Nat,
         IsDone(V, c, k, b, i) \/ (b = c /\ i = k + 1),
         NEW d \in Block, NEW j \in 1..Size(d), IsBefore(d, j, b, i)
  PROVE  IsDone(V, c, k, d, j) /\ ~(d = c /\ j = k + 1)
<1>1. j \in Nat
  BY CodeFacts DEF Size
<1>2. CASE d = b /\ j < i
  BY <1>1, <1>2 DEF IsDone, Begins
<1>3. CASE Above(d, b)
  BY <1>1, <1>3 DEF IsDone, Begins, Above
<1> QED
  BY <1>2, <1>3 DEF IsBefore

\* The value of a local that a load gives to its temporary is for all uses.
RepAfter(cur, rep, c, i) ==
  LET stmt == code.data[c][i]
  IN  IF stmt.op = "load" THEN [rep EXCEPT ![stmt.dest] = cur[c][i - 1][stmt.args[1].v]] ELSE rep

LEMMA TraceStep ==
  ASSUME code \in Programs, NEW V, NEW c, Begins(V, c), NEW k \in Nat, k + 1 \in 1..Size(c),
         NEW cur, NEW rep, Traced(cur, rep, V, c, k), cur[c][k + 1] \in [Local -> Value],
         Step(cur, RepAfter(cur, rep, c, k + 1), c, k + 1)
  PROVE  Traced(cur, RepAfter(cur, rep, c, k + 1), V, c, k + 1)
<1> DEFINE stmt == code.data[c][k + 1]
           t == stmt.dest
           new == RepAfter(cur, rep, c, k + 1)
<1>1. \A b \in Block : Size(b) \in Nat /\ DOMAIN code.data[b] = 1..Size(b)
        /\ (\A i \in 1..Size(b) : OfLocals(code.data[b][i]))
        /\ \A i \in 1..Size(b) : StatementOK(code, b, i)
  BY CodeFacts, StatementsAssumption DEF Size
<1>2. OneDefinition(code) /\ c \in Block /\ c \notin V
  BY StatementsAssumption DEF Begins
<1>3. \A b \in Block : \A i \in Nat :
        IsDone(V, c, k + 1, b, i) <=> IsDone(V, c, k, b, i) \/ (b = c /\ i = k + 1)
  BY DEF IsDone
<1>4. rep = [u \in code.temps |-> rep[u]] /\ new = [u \in code.temps |-> new[u]]
  BY DEF Traced, RepAfter
<1>5. \A u \in code.temps : ~(stmt.op = "load" /\ u = t) => new[u] = rep[u]
  BY <1>4 DEF RepAfter
<1>6. ASSUME NEW b \in Block, NEW i \in 1..Size(b), IsDone(V, c, k, b, i), NEW o, MayUse(code, o, b, i)
      PROVE  Sub(new, o) = Sub(rep, o)
  <2> SUFFICES ASSUME o.k = "name", o.v \in code.temps, stmt.op = "load", o.v = t PROVE FALSE
    BY <1>5 DEF Sub
  <2>1. AvailableAt(code.data[c][k + 1].dest, b, i)
    BY <1>6 DEF MayUse, AvailableAt
  <2>2. i \in Nat /\ i \in 1..(Size(b) + 1)
    BY <1>1
  <2>3. IsBefore(c, k + 1, b, i)
    BY <1>2, <2>1, <2>2, DefinedBefore DEF IsBefore
  <2> QED
    BY <1>2, <1>6, <2>2, <2>3, BeforeIsDone
<1>7. ASSUME NEW b \in Block, NEW i \in 1..Size(b), IsDone(V, c, k, b, i) PROVE Step(cur, new, b, i)
  <2>1. Step(cur, rep, b, i) /\ OfLocals(code.data[b][i]) /\ StatementOK(code, b, i) /\ i \in DOMAIN code.data[b]
    BY <1>1, <1>7 DEF Traced
  <2>2. CASE code.data[b][i].op = "store"
    <3>1. DOMAIN code.data[b][i].args = {1}
      BY <2>1, <2>2 DEF StatementOK
    <3>2. MayUse(code, code.data[b][i].args[1], b, i)
      BY <2>1, <2>2, <3>1 DEF StatementOK
    <3>3. Sub(new, code.data[b][i].args[1]) = Sub(rep, code.data[b][i].args[1])
      BY <1>6, <1>7, <3>2
    <3> HIDE DEF new
    <3> QED
      BY <2>1, <2>2, <3>3 DEF Step
  <2>3. CASE code.data[b][i].op = "load"
    <3>1. code.data[b][i].dest \in code.temps
      BY <2>1, <2>3 DEF OfLocals
    <3>2. ~(stmt.op = "load" /\ code.data[b][i].dest = t)
      <4> SUFFICES ASSUME code.data[b][i].dest = t PROVE FALSE
        OBVIOUS
      <4>1. k + 1 \in DOMAIN code.data[c]
        BY <1>1, <1>2
      <4>2. b = c /\ i = k + 1
        BY <1>2, <2>1, <3>1, <4>1 DEF OneDefinition
      <4> QED
        BY <1>2, <1>7, <4>2 DEF IsDone
    <3>3. new[code.data[b][i].dest] = rep[code.data[b][i].dest]
      BY <1>5, <3>1, <3>2
    <3> HIDE DEF new
    <3> QED
      BY <2>1, <2>3, <3>3 DEF Step
  <2>4. CASE code.data[b][i].op \notin {"store", "load"}
    BY <2>1, <2>4 DEF Step
  <2> QED
    BY <2>2, <2>3, <2>4
<1>8. \A x \in Local : Present(cur[c][k + 1][x], c, (k + 1) + 1)
  <2>1. k \in 0..Size(c) /\ k \in Nat /\ IsDone(V, c, k, c, k) /\ (k + 1) + 1 \in Nat
        /\ k + 1 \in 1..(Size(c) + 1) /\ k + 1 <= (k + 1) + 1
    BY <1>1, <1>2 DEF IsDone
  <2>2. cur[c][k] \in [Local -> Value] /\ \A x \in Local : Present(cur[c][k][x], c, k + 1)
    BY <1>2, <2>1 DEF Traced
  <2>3. ASSUME NEW v, Present(v, c, k + 1) PROVE Present(v, c, (k + 1) + 1)
    BY <1>2, <2>1, <2>3, PresentOn
  <2>4. CASE stmt.op = "store"
    <3>1. DOMAIN stmt.args = {1} /\ StatementOK(code, c, k + 1)
      BY <1>1, <1>2, <2>4 DEF StatementOK
    <3>2. MayUse(code, stmt.args[1], c, k + 1)
      BY <2>4, <3>1 DEF StatementOK
    <3>3. \A d \in Block : \A j \in 1..Size(d) : IsBefore(d, j, c, k + 1) => IsDone(V, c, k, d, j)
      BY <1>2, <2>1, BeforeIsDone
    <3>4. Present(Sub(rep, stmt.args[1]), c, k + 1)
      BY <1>2, <2>1, <3>2, <3>3, UsePresent
    <3>5. new = rep
      BY <2>4 DEF RepAfter
    <3>6. cur[c][k + 1] = [cur[c][k] EXCEPT ![stmt.dest] = Sub(rep, stmt.args[1])]
      BY <2>1, <2>4, <3>5 DEF Step
    <3> HIDE DEF stmt
    <3>7. \A x \in Local : cur[c][k + 1][x] = cur[c][k][x] \/ cur[c][k + 1][x] = Sub(rep, stmt.args[1])
      BY <2>2, <3>6
    <3> QED
      BY <2>2, <2>3, <3>4, <3>7
  <2>5. CASE stmt.op # "store"
    <3>1. cur[c][k + 1] = cur[c][k]
      <4>1. (k + 1) - 1 = k
        BY <2>1
      <4>2. CASE stmt.op = "load"
        BY <4>1, <4>2 DEF Step
      <4>3. CASE stmt.op # "load"
        BY <2>5, <4>1, <4>3 DEF Step
      <4> QED
        BY <4>2, <4>3
    <3> QED
      BY <2>2, <2>3, <3>1
  <2> QED
    BY <2>4, <2>5
<1>9. ASSUME NEW b \in Block, NEW i \in 0..Size(b), IsDone(V, c, k + 1, b, i)
      PROVE  cur[b][i] \in [Local -> Value] /\ \A x \in Local : Present(cur[b][i][x], b, i + 1)
  <2>1. CASE IsDone(V, c, k, b, i)
    BY <2>1 DEF Traced
  <2>2. CASE b = c /\ i = k + 1
    BY <1>8, <2>2
  <2> QED
    BY <1>3, <1>9, <2>1, <2>2
<1>10. ASSUME NEW b \in Block, NEW i \in 1..Size(b), IsDone(V, c, k + 1, b, i)
       PROVE  Step(cur, new, b, i)
  BY <1>3, <1>7, <1>10
<1>11. ASSUME NEW u \in code.temps, new[u] # Named(u)
       PROVE  \E b \in Block : \E i \in 1..Size(b) :
                IsDone(V, c, k + 1, b, i) /\ code.data[b][i].op = "load" /\ code.data[b][i].dest = u
  <2>1. CASE stmt.op = "load" /\ u = t
    BY <1>2, <2>1 DEF IsDone
  <2>2. CASE ~(stmt.op = "load" /\ u = t)
    <3>1. rep[u] # Named(u)
      BY <1>5, <1>11, <2>2
    <3> HIDE DEF new
    <3>2. PICK b \in Block : \E i \in 1..Size(b) :
             IsDone(V, c, k, b, i) /\ code.data[b][i].op = "load" /\ code.data[b][i].dest = u
      BY <3>1 DEF Traced
    <3>3. PICK i \in 1..Size(b) :
             IsDone(V, c, k, b, i) /\ code.data[b][i].op = "load" /\ code.data[b][i].dest = u
      BY <3>2
    <3>4. IsDone(V, c, k + 1, b, i)
      BY <1>3, <3>3
    <3> QED
      BY <3>3, <3>4
  <2> QED
    BY <2>1, <2>2
<1> HIDE DEF new, stmt, IsDone, Step
<1>12. Traced(cur, new, V, c, k + 1)
  BY <1>4, <1>9, <1>10, <1>11 DEF Traced
<1> QED
  BY <1>12 DEF new

\* The function as rep makes it, with the map and no assertion failed.
Matches(w, rep, V) ==
  w = [data |-> DataOf(rep, V), phi |-> PhisOf(rep), varMap |-> w.varMap, failed |-> FALSE]

LEMMA StmtTraced ==
  ASSUME code \in Programs, NEW V, NEW c, Begins(V, c), NEW k \in Nat, k + 1 \in 1..Size(c),
         NEW cur, NEW rep, Traced(cur, rep, V, c, k), NEW w, Matches(w, rep, V),
         w.varMap \in [Local -> Value], cur[c][k] = w.varMap,
         cur[c][k + 1] = UpdateStmt(w, c, k + 1).varMap, cur[c][k + 1] \in [Local -> Value],
         ~UpdateStmt(w, c, k + 1).failed
  PROVE  \E new : Matches(UpdateStmt(w, c, k + 1), new, V) /\ Traced(cur, new, V, c, k + 1)
<1> DEFINE i == k + 1
           u == UpdateStmt(w, c, i)
           old == code.data[c][i]
           stmt == w.data[c][i]
           new == RepAfter(cur, rep, c, i)
<1>1. c \in Block /\ c \notin V /\ i - 1 = k /\ code.temps \cap Local = {}
  <2>1. code.temps \cap Local = {}
    BY StatementsAssumption
  <2> QED
    BY <2>1 DEF Begins
<1>2. OfLocals(old) /\ i \in 1..Size(c) /\ StatementOK(code, c, i)
  BY <1>1, CodeFacts, StatementsAssumption DEF Size
<1>3. stmt = [op |-> old.op, dest |-> old.dest, args |-> AllSub(rep, old.args)]
  <2>1. w.data[c] = BodyOf(rep, c)
    BY <1>1 DEF Matches, DataOf
  <2> QED
    BY <1>2, <2>1 DEF BodyOf, SubStmt, Stmt
<1>4. w = [data |-> DataOf(rep, V), phi |-> PhisOf(rep), varMap |-> w.varMap, failed |-> FALSE]
  BY DEF Matches
<1> SUFFICES Matches(u, new, V) /\ Step(cur, new, c, i)
  BY <1>2, TraceStep
<1> HIDE DEF old
<1>5. CASE old.op = "store"
  <2>1. DOMAIN old.args = {1}
    BY <1>2, <1>5 DEF OfLocals
  <2>2. stmt.args[1] = Sub(rep, old.args[1])
    BY <1>3, <2>1 DEF AllSub
  <2>3. u = [w EXCEPT !.varMap[old.dest] = Sub(rep, old.args[1])]
    BY <1>3, <1>5, <2>2 DEF UpdateStmt
  <2>4. new = rep
    BY <1>5 DEF RepAfter, old
  <2> HIDE DEF u, new, stmt
  <2>5. u = [data |-> DataOf(rep, V), phi |-> PhisOf(rep), failed |-> FALSE,
             varMap |-> [w.varMap EXCEPT ![old.dest] = Sub(rep, old.args[1])]]
    <3> DEFINE map == w.varMap
               value == Sub(rep, old.args[1])
               bodies == DataOf(rep, V)
               phis == PhisOf(rep)
    <3>1. /\ w = [data |-> bodies, phi |-> phis, varMap |-> map, failed |-> FALSE]
          /\ u = [w EXCEPT !.varMap[old.dest] = value]
      BY <1>4, <2>3
    <3> HIDE DEF map, value, bodies, phis
    <3>2. u = [data |-> bodies, phi |-> phis, failed |-> FALSE, varMap |-> [map EXCEPT ![old.dest] = value]]
      BY <3>1
    <3> QED
      BY <3>2 DEF map, value, bodies, phis
  <2>6. Matches(u, new, V)
    BY <2>4, <2>5 DEF Matches
  <2>7. cur[c][i] = u.varMap
    BY DEF u
  <2>8. Step(cur, new, c, i)
    BY <1>1, <1>5, <2>4, <2>5, <2>7 DEF Step, old
  <2> QED
    BY <2>6, <2>8
<1>6. CASE old.op = "load"
  <2>1. PICK x \in Local : old.args = <<Named(x)>>
    BY <1>2, <1>6 DEF OfLocals
  <2>2. old.args[1].v = x /\ stmt.args[1].v = x
    <3>1. DOMAIN old.args = {1} /\ old.args[1] = Named(x)
      BY <2>1
    <3>2. Sub(rep, Named(x)) = Named(x)
      BY <1>1 DEF Sub, Named
    <3> QED
      BY <1>3, <3>1, <3>2 DEF AllSub, Named
  <2>3. w.varMap[x] # Null
    <3> SUFFICES ASSUME w.varMap[x] = Null PROVE FALSE
      OBVIOUS
    <3>1. u = [w EXCEPT !.failed = TRUE]
      BY <1>3, <1>6, <2>2 DEF UpdateStmt
    <3>2. ~u.failed
      OBVIOUS
    <3> HIDE DEF u
    <3> QED
      BY <1>4, <3>1, <3>2
  <2>4. u = UpdateUses(w, old.dest, w.varMap[x])
    BY <1>3, <1>6, <2>2, <2>3 DEF UpdateStmt
  <2>5. Alone(rep, old.dest)
    <3>1. ~IsDone(V, c, k, c, i)
      BY <1>1 DEF IsDone
    <3> QED
      BY <1>1, <1>2, <1>6, <3>1, RepFacts DEF old
  <2>6. new = [rep EXCEPT ![old.dest] = w.varMap[x]]
    BY <1>1, <1>6, <2>2 DEF RepAfter, old
  <2>7. u = [data |-> DataOf(new, V), phi |-> PhisOf(new), varMap |-> w.varMap, failed |-> FALSE]
    <3> DEFINE t == old.dest
               value == w.varMap[x]
    <3>1. /\ Alone(rep, t) /\ u = UpdateUses(w, t, value) /\ new = [rep EXCEPT ![t] = value]
          /\ w = [data |-> DataOf(rep, V), phi |-> PhisOf(rep), varMap |-> w.varMap, failed |-> w.failed]
          /\ w.failed = FALSE
      BY <1>4, <2>4, <2>5, <2>6
    <3> HIDE DEF t, value, u, new
    <3>3. Alone(rep, t)
      BY <3>1
    <3>4. w = [data |-> DataOf(rep, V), phi |-> PhisOf(rep), varMap |-> w.varMap, failed |-> w.failed]
      BY <3>1
    <3>2. UpdateUses(w, t, value) =
            [data |-> DataOf([rep EXCEPT ![t] = value], V), phi |-> PhisOf([rep EXCEPT ![t] = value]),
             varMap |-> w.varMap, failed |-> w.failed]
      BY ONLY <3>3, <3>4, UsesReplaced
    <3> QED
      BY <3>1, <3>2
  <2>8. cur[c][i] = w.varMap
    <3> HIDE DEF new, u
    <3>1. cur[c][i] = u.varMap
      BY DEF u
    <3> QED
      BY <2>7, <3>1
  <2>9. new[old.dest] = w.varMap[x]
    BY <2>5, <2>6 DEF Alone
  <2> HIDE DEF new, u
  <2>10. Matches(u, new, V)
    BY <2>7 DEF Matches
  <2>11. Step(cur, new, c, i)
    BY <1>1, <1>6, <2>2, <2>3, <2>8, <2>9 DEF Step, old
  <2> QED
    BY <2>10, <2>11
<1>7. CASE old.op \notin {"store", "load"}
  <2>1. u = w
    BY <1>3, <1>7 DEF UpdateStmt
  <2>2. new = rep
    BY <1>7 DEF RepAfter, old
  <2>3. cur[c][i] = w.varMap
    BY <2>1
  <2> HIDE DEF u, new
  <2>4. Matches(u, new, V)
    BY <2>1, <2>2
  <2>5. Step(cur, new, c, i)
    BY <1>1, <1>7, <2>3 DEF Step, old
  <2> QED
    BY <2>4, <2>5
<1> QED
  BY <1>5, <1>6, <1>7

LEMMA TracedSame ==
  ASSUME NEW cur, NEW rep, NEW V, NEW c, NEW k, NEW W, NEW d, NEW l,
         \A b \in Block : \A i \in 0..Size(b) : IsDone(V, c, k, b, i) <=> IsDone(W, d, l, b, i),
         \A b \in Block : Size(b) \in Nat, Traced(cur, rep, V, c, k)
  PROVE  Traced(cur, rep, W, d, l)
<1>1. \A b \in Block : \A i \in 1..Size(b) : i \in 0..Size(b)
  OBVIOUS
<1> QED
  BY <1>1 DEF Traced

\* What updateBlock makes of a block, if its assertion does not fail.
LEMMA BlockTraced ==
  ASSUME code \in Programs, NEW V, NEW c, Begins(V, c), NEW cur, NEW rep, Traced(cur, rep, V, Null, 0),
         NEW w, Matches(w, rep, V), Work(w, Block \ V), \A x \in Local : Present(w.varMap[x], c, 1),
         ~UpdateBlock(w, c).failed
  PROVE  \E next, new :
           /\ Traced(next, new, V \cup {c}, Null, 0)
           /\ \A b \in V : next[b] = cur[b]
           /\ next[c][0] = w.varMap
           /\ UpdateBlock(w, c).varMap = next[c][Size(c)]
           /\ Matches(UpdateBlock(w, c), new, V \cup {c})
<1> DEFINE n == Len(code.data[c])
           U == Block \ V
           at == CHOOSE at : IsSteps(at, w, c, n)
           next == [b \in Block |-> IF b = c THEN [i \in 0..n |-> at[i].varMap] ELSE cur[b]]
           Going(k) == \E new : Matches(at[k], new, V) /\ Traced(next, new, V, c, k)
           Good(k) == Work(at[k], U) /\ (at[k].failed \/ Going(k))
           S == {k \in Nat : k \in 0..n => Good(k)}
<1>1. c \in Block /\ c \notin V /\ V \subseteq Block /\ n \in Nat /\ n = Size(c)
      /\ \A b \in Block : Size(b) \in Nat /\ b # Null
  BY CodeFacts, BlockAssumption DEF Begins, Size
<1>2. at[0] = w /\ \A i \in 1..n : at[i] = UpdateStmt(at[i - 1], c, i)
  <2>1. IsSteps(at, w, c, n)
    BY <1>1, StepsExist
  <2> HIDE DEF at
  <2> QED
    BY <1>1, <2>1 DEF IsSteps
<1>3. UpdateBlock(w, c) = [at[n] EXCEPT !.data[c] =
                             [k \in DOMAIN Staying(at[n].data[c]) |-> @[Staying(at[n].data[c])[k]]]]
  <2>1. Len(w.data[c]) = n
    BY <1>1 DEF Work, SameBody
  <2> QED
    BY <2>1 DEF UpdateBlock, IsSteps
<1> HIDE DEF at
<1>4. /\ \A b \in V : next[b] = cur[b]
      /\ \A i \in 0..n : next[c][i] = at[i].varMap
  BY <1>1
<1> HIDE DEF next
<1>5. 0 \in S
  <2>1. Traced(next, rep, V, c, 0)
    <3>1. ASSUME NEW b \in Block, NEW i \in 0..Size(b), IsDone(V, c, 0, b, i)
          PROVE  next[b][i] \in [Local -> Value] /\ \A x \in Local : Present(next[b][i][x], b, i + 1)
      <4>1. CASE b \in V
        <5>1. IsDone(V, Null, 0, b, i)
          BY <4>1 DEF IsDone
        <5> QED
          BY <1>4, <4>1, <5>1 DEF Traced
      <4>2. CASE b \notin V
        <5>1. b = c /\ i = 0
          BY <1>1, <3>1, <4>2 DEF IsDone
        <5>2. next[b][i] = w.varMap
          BY <1>1, <1>2, <1>4, <5>1
        <5> QED
          BY <5>1, <5>2 DEF Work
      <4> QED
        BY <4>1, <4>2
    <3>2. \A b \in Block : \A i \in 1..Size(b) :
            IsDone(V, c, 0, b, i) <=> b \in V /\ IsDone(V, Null, 0, b, i)
      BY <1>1 DEF IsDone
    <3>3. ASSUME NEW b \in Block, NEW i \in 1..Size(b), IsDone(V, c, 0, b, i) PROVE Step(next, rep, b, i)
      <4>1. b \in V /\ Step(cur, rep, b, i)
        BY <3>2, <3>3 DEF Traced
      <4>2. next[b] = cur[b]
        BY <1>4, <4>1
      <4> QED
        BY <4>1, <4>2 DEF Step
    <3>4. ASSUME NEW t \in code.temps, rep[t] # Named(t)
          PROVE  \E b \in Block : \E i \in 1..Size(b) :
                   IsDone(V, c, 0, b, i) /\ code.data[b][i].op = "load" /\ code.data[b][i].dest = t
      <4>1. PICK b \in Block : \E i \in 1..Size(b) :
               IsDone(V, Null, 0, b, i) /\ code.data[b][i].op = "load" /\ code.data[b][i].dest = t
        BY <3>4 DEF Traced
      <4>2. PICK i \in 1..Size(b) :
               IsDone(V, Null, 0, b, i) /\ code.data[b][i].op = "load" /\ code.data[b][i].dest = t
        BY <4>1
      <4>3. IsDone(V, c, 0, b, i)
        BY <1>1, <4>2 DEF IsDone
      <4> QED
        BY <4>2, <4>3
    <3>5. rep = [t \in code.temps |-> rep[t]]
      BY DEF Traced
    <3> HIDE DEF IsDone, Step
    <3> QED
      BY <3>1, <3>3, <3>4, <3>5 DEF Traced
  <2> QED
    BY <1>2, <2>1
<1>6. ASSUME NEW k \in Nat, k \in S PROVE k + 1 \in S
  <2> SUFFICES ASSUME k + 1 \in 0..n PROVE Good(k + 1)
    OBVIOUS
  <2>1. Good(k) /\ k \in 0..n /\ k + 1 \in 1..n /\ (k + 1) - 1 = k
    BY <1>1, <1>6
  <2>2. at[k + 1] = UpdateStmt(at[k], c, k + 1)
    BY <1>2, <2>1
  <2>3. Updated(at[k + 1], at[k], U, code.data[c][k + 1])
    <3> DEFINE u == at[k]
               m == k + 1
    <3>1. Work(u, U) /\ m \in 1..Len(code.data[c]) /\ at[m] = UpdateStmt(u, c, m) /\ U \in SUBSET Block /\ c \in U
      BY <1>1, <2>1, <2>2
    <3> HIDE DEF u, m, U
    <3>2. Updated(at[m], u, U, code.data[c][m])
      BY <3>1, StmtUpdated
    <3> QED
      BY <3>2 DEF u, m
  <2>4. Work(at[k + 1], U) /\ (at[k].failed => at[k + 1].failed)
    BY <2>3 DEF Updated
  <2>5. ASSUME ~at[k + 1].failed PROVE Going(k + 1)
    <3>1. PICK old : Matches(at[k], old, V) /\ Traced(next, old, V, c, k)
      BY <2>1, <2>4, <2>5
    <3>2. /\ at[k].varMap \in [Local -> Value] /\ at[k + 1].varMap \in [Local -> Value]
          /\ next[c][k] = at[k].varMap /\ next[c][k + 1] = at[k + 1].varMap
      BY <1>4, <2>1, <2>4 DEF Work
    <3> DEFINE u == at[k]
    <3>3. /\ k + 1 \in 1..Size(c) /\ Matches(u, old, V) /\ u.varMap \in [Local -> Value] /\ next[c][k] = u.varMap
          /\ next[c][k + 1] = UpdateStmt(u, c, k + 1).varMap /\ next[c][k + 1] \in [Local -> Value]
          /\ ~UpdateStmt(u, c, k + 1).failed
      BY <1>1, <2>1, <2>2, <2>5, <3>1, <3>2
    <3> HIDE DEF u
    <3>4. \E new : Matches(UpdateStmt(u, c, k + 1), new, V) /\ Traced(next, new, V, c, k + 1)
      BY <3>1, <3>3, StmtTraced
    <3> QED
      BY <2>2, <3>4 DEF u
  <2> HIDE DEF Going
  <2> QED
    BY <2>4, <2>5
<1>7. Good(n)
  <2>1. n \in S
    <3> HIDE DEF S
    <3> QED
      BY <1>1, <1>5, <1>6, Induction
  <2>2. n \in 0..n
    BY <1>1
  <2> HIDE DEF Good
  <2> QED
    BY <2>1, <2>2
<1> DEFINE done == UpdateBlock(w, c)
<1>8. ~at[n].failed
  <2>1. at[n] = [data |-> at[n].data, phi |-> at[n].phi, varMap |-> at[n].varMap, failed |-> at[n].failed]
    BY <1>7 DEF Work
  <2> DEFINE d == [at[n].data EXCEPT ![c] =
                     [k \in DOMAIN Staying(at[n].data[c]) |-> @[Staying(at[n].data[c])[k]]]]
             a == at[n]
  <2>2. done = [a EXCEPT !.data = d]
    BY <1>3
  <2>3. a = [data |-> a.data, phi |-> a.phi, varMap |-> a.varMap, failed |-> a.failed]
    BY <2>1
  <2>4. ~done.failed
    OBVIOUS
  <2> HIDE DEF d, done, a
  <2>5. ~a.failed
    BY <2>2, <2>3, <2>4
  <2> QED
    BY <2>5 DEF a
<1>9. PICK new : Matches(at[n], new, V) /\ Traced(next, new, V, c, n)
  BY <1>7, <1>8
<1>10. Traced(next, new, V \cup {c}, Null, 0)
  <2>1. \A b \in Block : \A i \in 0..Size(b) : IsDone(V, c, n, b, i) <=> IsDone(V \cup {c}, Null, 0, b, i)
    BY <1>1 DEF IsDone
  <2> QED
    BY <1>1, <1>9, <2>1, TracedSame
<1>11. Matches(done, new, V \cup {c}) /\ done.varMap = next[c][n]
  <2> DEFINE body == at[n].data[c]
             left == Staying(body)
             kept == [k \in DOMAIN left |-> body[left[k]]]
             d == [at[n].data EXCEPT ![c] = kept]
             map == at[n].varMap
  <2>1. at[n] = [data |-> DataOf(new, V), phi |-> PhisOf(new), varMap |-> map, failed |-> FALSE]
    BY <1>9 DEF Matches
  <2>2. body = BodyOf(new, c)
    BY <1>1, <2>1 DEF DataOf
  <2>3. left = Left(c) /\ Left(c) \in Seq(1..n)
    <3>1. Len(body) = n /\ \A i \in 1..n : body[i].op = code.data[c][i].op
      BY <1>1, <2>2 DEF BodyOf, SubStmt, Stmt, Size
    <3> HIDE DEF body
    <3> QED
      BY <1>1, <3>1, StayingFacts DEF Left
  <2>4. kept = KeptOf(new, c)
    <3>1. \A k \in 1..Len(Left(c)) : Left(c)[k] \in 1..n /\ body[Left(c)[k]] = SubStmt(new, code.data[c][Left(c)[k]])
      BY <1>1, <2>2, <2>3 DEF BodyOf
    <3>2. DOMAIN left = 1..Len(Left(c))
      BY <2>3
    <3> HIDE DEF body, left
    <3> QED
      BY <2>3, <3>1, <3>2 DEF KeptOf
  <2>5. at[n].data = DataOf(new, V)
    BY <2>1
  <2>6. d = DataOf(new, V \cup {c})
    <3> HIDE DEF kept
    <3> QED
      BY <1>1, <2>4, <2>5 DEF DataOf
  <2>7. done = [at[n] EXCEPT !.data = d]
    BY <1>3
  <2> HIDE DEF d, done, map
  <2>8. done = [data |-> d, phi |-> PhisOf(new), varMap |-> map, failed |-> FALSE]
    <3> DEFINE a == at[n]
               old == DataOf(new, V)
               phis == PhisOf(new)
    <3>1. a = [data |-> old, phi |-> phis, varMap |-> map, failed |-> FALSE] /\ done = [a EXCEPT !.data = d]
      BY <2>1, <2>7
    <3> HIDE DEF a, old, phis
    <3>2. done = [data |-> d, phi |-> phis, varMap |-> map, failed |-> FALSE]
      BY <3>1
    <3> QED
      BY <3>2 DEF phis
  <2>9. next[c][n] = map
    BY <1>1, <1>4 DEF map
  <2> QED
    BY <2>6, <2>8, <2>9 DEF Matches
<1>12. next[c][0] = w.varMap
  BY <1>1, <1>2, <1>4
<1> HIDE DEF done
<1> QED
  BY <1>1, <1>4, <1>10, <1>11, <1>12 DEF done

(***************************************************************************)
(* Where the value of a local comes from: from the nearest of the blocks   *)
(* that give it one and dominate.  A value that is missing and one that is *)
(* undefined are the same.                                                 *)
(***************************************************************************)
Same(u, v) == u = v \/ (u \in {Null, Undefined} /\ v \in {Null, Undefined})

Givers(x, b) == {d \in Block : <<d, b>> \in Domi /\ x \in Gives(d)}

End(cur, b) == cur[b][Size(b)]

From(cur, x, G, v) ==
  /\ \A g \in G : (\A d \in G : <<d, g>> \in Domi) => Same(v, End(cur, g)[x])
  /\ G = {} => Same(v, Null)

LEMMA NearestGiver ==
  ASSUME code \in Programs, NEW x, NEW b \in Block, NEW G \in SUBSET Givers(x, b), G # {}
  PROVE  \E g \in G : \A d \in G : <<d, g>> \in Domi
<1>1. G \in SUBSET DominatorsOf(Domi, b) /\ b \in Node
  BY DEF Givers, DominatorsOf, Node
<1> QED
  BY <1>1, DominanceFacts, NearestAndFarthest DEF Domi

LEMMA FromIsUnique ==
  ASSUME code \in Programs, NEW x, NEW b \in Block, NEW G \in SUBSET Givers(x, b), NEW cur, NEW u, NEW v,
         From(cur, x, G, u), From(cur, x, G, v)
  PROVE  Same(u, v)
<1>1. CASE G = {}
  BY <1>1 DEF From, Same
<1>2. CASE G # {}
  <2>1. PICK g \in G : \A d \in G : <<d, g>> \in Domi
    BY <1>2, NearestGiver
  <2> QED
    BY <2>1 DEF From, Same
<1> QED
  BY <1>1, <1>2

LEMMA FromSame ==
  ASSUME NEW cur, NEW x, NEW G, NEW u, NEW v, From(cur, x, G, u), Same(u, v)
  PROVE  From(cur, x, G, v)
BY DEF From, Same

\* Who gives a local its value on the way into a block that has no new phi
\* statement for it: otherwise the block were in a frontier.
LEMMA EdgeGivers ==
  ASSUME Inv, stage # "def", queue = <<>>, NEW p \in Block, NEW b \in Range(code.flow[p].to),
         NEW x, x \notin phiMap[b]
  PROVE  b \in Block /\ Givers(x, b) \ {b} = Givers(x, p)
<1>1. code \in Programs /\ code.flow \in [Block -> FlowStmt]
  BY ShapeFacts DEF Inv, Shape
<1>2. b \in Block /\ <<p, b>> \in Ways /\ p \in Node /\ b \in Node
  BY <1>1, TargetFacts DEF Ways, Node
<1>3. \A d \in Block : d \in Node
  BY DEF Node
<1>4. ASSUME NEW d \in Block, d # b, <<d, b>> \in Domi PROVE <<d, p>> \in Domi
  BY <1>2, <1>3, <1>4, DominatesPredecessors DEF Domi
<1>5. ASSUME NEW d \in Block, <<d, p>> \in Domi, x \in Gives(d) PROVE d # b /\ <<d, b>> \in Domi
  <2> SUFFICES ASSUME d = b \/ <<d, b>> \notin Domi PROVE FALSE
    OBVIOUS
  <2>1. b \in code.fro[d]
    <3>1. b \in Frontier(Ways, Domi, d)
      BY <1>2, <1>5 DEF Frontier
    <3> QED
      BY <1>1, <1>2, <3>1, ShapeFacts
  <2>2. SpreadOrQueued
    BY DEF Inv
  <2>3. x \in phiMap[b] \/ b \in Range(<<>>) \/ d \in Range(<<>>)
    BY <1>5, <2>1, <2>2 DEF SpreadOrQueued, Gives
  <2>4. Range(<<>>) = {}
    BY DEF Range
  <2> QED
    BY <2>3, <2>4
<1> QED
  BY <1>2, <1>4, <1>5 DEF Givers

\* The values at the beginning of the blocks in V.
Placed(cur, V) ==
  \A b \in V : \A x \in Local :
    IF x \in phiMap[b] THEN cur[b][0][x] = Named(NewPhi(b, x))
    ELSE From(cur, x, Givers(x, b) \ {b}, cur[b][0][x])

LEMMA EndFrom ==
  ASSUME code \in Programs, NEW V \in SUBSET Block, NEW cur, NEW rep, Traced(cur, rep, V, Null, 0),
         Placed(cur, V), NEW b \in V, NEW x \in Local
  PROVE  From(cur, x, Givers(x, b), End(cur, b)[x])
<1>1. b \in Block /\ Size(b) \in Nat /\ DOMAIN code.data[b] = 1..Size(b) /\ <<b, b>> \in Domi
      /\ \A i \in 1..Size(b) : OfLocals(code.data[b][i])
  BY CodeFacts, DominanceFacts DEF Size
<1>2. CASE x \in Gives(b)
  <2>1. b \in Givers(x, b)
    BY <1>1, <1>2 DEF Givers
  <2>2. ASSUME NEW g \in Givers(x, b), \A d \in Givers(x, b) : <<d, g>> \in Domi PROVE g = b
    BY <1>1, <2>1, <2>2, DominanceFacts DEF Givers
  <2> QED
    BY <2>1, <2>2 DEF From, Same
<1>3. CASE x \notin Gives(b)
  <2> DEFINE S == {k \in Nat : k \in 0..Size(b) => cur[b][k][x] = cur[b][0][x]}
  <2>1. 0 \in S
    OBVIOUS
  <2>2. ASSUME NEW k \in Nat, k \in S PROVE k + 1 \in S
    <3> SUFFICES ASSUME k + 1 \in 0..Size(b) PROVE cur[b][k + 1][x] = cur[b][0][x]
      OBVIOUS
    <3>1. k + 1 \in 1..Size(b) /\ k \in 0..Size(b) /\ (k + 1) - 1 = k /\ IsDone(V, Null, 0, b, k + 1)
          /\ IsDone(V, Null, 0, b, k)
      BY <1>1 DEF IsDone
    <3>2. Step(cur, rep, b, k + 1) /\ cur[b][k] \in [Local -> Value]
      BY <1>1, <3>1 DEF Traced
    <3>3. code.data[b][k + 1].op = "store" => code.data[b][k + 1].dest # x
      BY <1>1, <1>3, <3>1 DEF Gives, Stores
    <3>4. cur[b][k + 1][x] = cur[b][k][x]
      BY <3>1, <3>2, <3>3 DEF Step
    <3> QED
      BY <2>2, <3>1, <3>4
  <2>3. Size(b) \in S
    <3> HIDE DEF S
    <3> QED
      BY <1>1, <2>1, <2>2, Induction
  <2>4. End(cur, b)[x] = cur[b][0][x]
    BY <1>1, <2>3 DEF End
  <2>5. x \notin phiMap[b] /\ Givers(x, b) \ {b} = Givers(x, b)
    BY <1>3 DEF Gives, Givers
  <2>6. From(cur, x, Givers(x, b) \ {b}, cur[b][0][x])
    BY <2>5 DEF Placed
  <2> QED
    BY <2>4, <2>5, <2>6
<1> QED
  BY <1>2, <1>3

\* What comes from blocks above is present, and not what the block defines first.
LEMMA FromAbove ==
  ASSUME code \in Programs, NEW V \in SUBSET Block, NEW cur, NEW rep, Traced(cur, rep, V, Null, 0),
         NEW b \in Block, NEW x \in Local, NEW G \in SUBSET Givers(x, b), b \notin G, G \subseteq V,
         NEW v, From(cur, x, G, v)
  PROVE  v \in {Null, Undefined} \/ \E g \in Block : Above(g, b) /\ Present(v, g, Size(g) + 1)
<1>1. CASE G = {}
  BY <1>1 DEF From, Same
<1>2. CASE G # {}
  <2>1. PICK g \in G : \A d \in G : <<d, g>> \in Domi
    BY <1>2, NearestGiver
  <2>2. g \in Block /\ g \in V /\ Above(g, b)
    BY <2>1 DEF Givers, Above
  <2>3. Same(v, End(cur, g)[x])
    BY <2>1 DEF From
  <2>4. Size(g) \in Nat /\ Size(g) \in 0..Size(g) /\ IsDone(V, Null, 0, g, Size(g))
    BY <2>2, CodeFacts DEF Size, IsDone
  <2>5. Present(End(cur, g)[x], g, Size(g) + 1)
    BY <2>2, <2>4 DEF Traced, End
  <2> QED
    BY <2>2, <2>3, <2>5 DEF Same
<1> QED
  BY <1>1, <1>2

(***************************************************************************)
(* The walk.  An edge is taken when the call of its block does not have it *)
(* in front of it any more.                                                *)
(***************************************************************************)
IsTaken(stack, V, d, c) ==
  d \in V /\ ~\E i \in 1..Len(stack) : stack[i].block = d /\ c \in stack[i].todo

\* The lists of the new phi statements, for the edges taken and no others.
FilledIn(cur, stack, V, W, lists) ==
  /\ lists = [c \in Block |-> lists[c]] /\ \A c \in Block : lists[c] = [x \in Local |-> lists[c][x]]
  /\ \A d \in Block : \A c \in Range(code.flow[d].to) :
       /\ IsTaken(stack, V, d, c) => c \in W
       /\ \A x \in phiMap[c] :
            IF IsTaken(stack, V, d, c)
            THEN /\ d \in DOMAIN lists[c][x] /\ lists[c][x][d] # Null
                 /\ Same(lists[c][x][d], End(cur, d)[x])
            ELSE d \notin DOMAIN lists[c][x]

\* The map and the backups are what the blocks of the calls left.
StackedOn(cur, stack, map) ==
  /\ \A k \in 2..Len(stack) : \A x \in Local : Same(stack[k].bak[x], End(cur, stack[k - 1].block)[x])
  /\ Len(stack) > 0 => \A x \in Local : Same(map[x], End(cur, stack[Len(stack)].block)[x])

Visiting(stack, V) ==
  /\ \A b \in V : \A d \in Block : <<d, b>> \in Domi => d \in V
  /\ \A i \in 1..Len(stack) : stack[i].block \in V
  /\ \A i, j \in 1..Len(stack) : stack[i].block = stack[j].block => i = j

Renamed(cur, rep, V, bodies) ==
  Traced(cur, rep, V, Null, 0) /\ Placed(cur, V) /\ bodies = DataOf(rep, V)

\* The values a block is given are those at the end of the nearest givers.
IsGiven(cur, b, given) ==
  /\ given \in [Local -> Value]
  /\ \A x \in Local \ phiMap[b] : From(cur, x, Givers(x, b) \ {b}, given[x])

RenamedTo(cur, b, next, new) ==
  /\ Renamed(next, new, visited \cup {b}, data') /\ phi' = PhisOf(new)
  /\ varMap' = End(next, b)
  /\ \A d \in visited : next[d] = cur[d]

LEMMA RenameTraced ==
  ASSUME Inv, WalkTypes, NEW b, Begins(visited, b), NEW cur, NEW rep, Renamed(cur, rep, visited, data),
         phi = PhisOf(rep), NEW given, IsGiven(cur, b, given),
         NEW outer, Rename(b, given, outer), stage' # "error"
  PROVE  \E next, new : RenamedTo(cur, b, next, new)
<1> DEFINE w0 == [data |-> data, phi |-> phi, varMap |-> WithPhis(b, given), failed |-> FALSE]
           w == UpdateBlock(w0, b)
           V == visited
<1>1. code \in Programs /\ V \in SUBSET Block /\ b \in Block /\ b \notin V
  BY DEF Inv, Shape, WalkTypes, Begins
<1>2. data' = w.data /\ phi' = w.phi /\ varMap' = w.varMap /\ ~w.failed
  BY DEF Rename
<1>3. WithPhis(b, given) \in [Local -> Value]
  BY <1>1 DEF WithPhis, Value, Operand, IsGiven
<1>4. /\ Work(w0, Block \ V) /\ w0.varMap = WithPhis(b, given) /\ w0.data = data /\ w0.phi = phi
      /\ w0.failed = FALSE
      /\ w0 = [data |-> w0.data, phi |-> w0.phi, varMap |-> w0.varMap, failed |-> w0.failed]
  BY <1>3 DEF Work, WalkTypes
<1>5. Traced(cur, rep, V, Null, 0) /\ Placed(cur, V) /\ data = DataOf(rep, V)
  BY DEF Renamed
<1>6. ASSUME NEW x \in Local PROVE Present(WithPhis(b, given)[x], b, 1)
  <2>1. CASE x \in phiMap[b]
    <3>1. WithPhis(b, given)[x] = Named(NewPhi(b, x)) /\ <<b, b>> \in Domi
      BY <1>1, <2>1, DominanceFacts DEF WithPhis
    <3>2. Named(NewPhi(b, x)).k \notin {"argument", "cell"}
      BY DEF Named
    <3> QED
      BY <1>1, <2>1, <3>1, <3>2 DEF Present
  <2>2. CASE x \notin phiMap[b]
    <3>1. WithPhis(b, given)[x] = given[x] /\ From(cur, x, Givers(x, b) \ {b}, given[x])
      BY <2>2 DEF WithPhis, IsGiven
    <3>2. Givers(x, b) \ {b} \subseteq V
      BY DEF Givers, Begins, Above
    <3>3. given[x] \in {Null, Undefined} \/ \E g \in Block : Above(g, b) /\ Present(given[x], g, Size(g) + 1)
      <4> DEFINE G == Givers(x, b) \ {b}
      <4>1. G \in SUBSET Givers(x, b) /\ b \notin G /\ G \subseteq V /\ From(cur, x, G, given[x])
        BY <3>1, <3>2
      <4> HIDE DEF G
      <4> QED
        BY <1>1, <1>5, <4>1, FromAbove
    <3>4. CASE given[x] \in {Null, Undefined}
      BY <3>1, <3>4 DEF Present, Undefined
    <3>5. ASSUME NEW g \in Block, Above(g, b), Present(given[x], g, Size(g) + 1)
          PROVE  Present(given[x], b, 1)
      <4>1. Size(g) + 1 \in 1..(Size(g) + 1)
        BY <1>1, CodeFacts DEF Size
      <4> QED
        BY <1>1, <3>5, <4>1, PresentOn
    <3> QED
      BY <3>1, <3>3, <3>4, <3>5
  <2> QED
    BY <2>1, <2>2
<1>7. Matches(w0, rep, V)
  BY <1>5 DEF Matches
<1> HIDE DEF w0
<1>8. PICK next, new :
        /\ Traced(next, new, V \cup {b}, Null, 0)
        /\ \A d \in V : next[d] = cur[d]
        /\ next[b][0] = w0.varMap
        /\ w.varMap = next[b][Size(b)]
        /\ Matches(w, new, V \cup {b})
  BY <1>1, <1>2, <1>4, <1>5, <1>6, <1>7, BlockTraced
<1>9. Placed(next, V \cup {b})
  <2>1. ASSUME NEW G \in SUBSET V, NEW x, NEW v, From(cur, x, G, v) PROVE From(next, x, G, v)
    BY <1>8, <2>1 DEF From, End
  <2> SUFFICES ASSUME NEW d \in V \cup {b}, NEW x \in Local
               PROVE  IF x \in phiMap[d] THEN next[d][0][x] = Named(NewPhi(d, x))
                      ELSE From(next, x, Givers(x, d) \ {d}, next[d][0][x])
    BY DEF Placed
  <2>2. CASE d \in V
    <3>1. IF x \in phiMap[d] THEN cur[d][0][x] = Named(NewPhi(d, x))
          ELSE From(cur, x, Givers(x, d) \ {d}, cur[d][0][x])
      BY <1>5, <2>2 DEF Placed
    <3>2. Givers(x, d) \ {d} \in SUBSET V
      BY <2>2 DEF Givers, Begins
    <3>3. next[d] = cur[d]
      BY <1>8, <2>2
    <3> QED
      BY <2>1, <3>1, <3>2, <3>3
  <2>3. CASE d = b
    <3>1. Givers(x, b) \ {b} \in SUBSET V
      BY DEF Givers, Begins, Above
    <3>2. next[b][0][x] = IF x \in phiMap[b] THEN Named(NewPhi(b, x)) ELSE given[x]
      BY <1>4, <1>8 DEF WithPhis
    <3>3. x \notin phiMap[b] => From(next, x, Givers(x, b) \ {b}, given[x])
      BY <2>1, <3>1 DEF IsGiven
    <3> QED
      BY <2>3, <3>2, <3>3
  <2> QED
    BY <2>2, <2>3
<1>10. w.data = DataOf(new, V \cup {b}) /\ w.phi = PhisOf(new)
  <2> HIDE DEF w
  <2> QED
    BY <1>8 DEF Matches
<1> HIDE DEF w
<1>11. Renamed(next, new, V \cup {b}, data') /\ phi' = PhisOf(new) /\ varMap' = End(next, b)
  BY <1>2, <1>8, <1>9, <1>10 DEF Renamed, End
<1> QED
  BY <1>8, <1>11 DEF RenamedTo

\* A call of rename on a block that was not visited.
LEMMA RenameCertified ==
  ASSUME Inv, WalkTypes, NEW b, Begins(visited, b), NEW cur, NEW rep, Renamed(cur, rep, visited, data),
         phi = PhisOf(rep), NEW given, IsGiven(cur, b, given), NEW outer \in Seq(Frame), Visiting(outer, visited), StackedOn(cur, outer, given),
         NEW lists, FilledIn(cur, outer, visited, visited \cup {b}, lists),
         Rename(b, given, outer), stage' # "error"
  PROVE  /\ Visiting(calls', visited')
         /\ \E next, new :
              /\ Renamed(next, new, visited', data') /\ phi' = PhisOf(new)
              /\ StackedOn(next, calls', varMap') /\ FilledIn(next, calls', visited', visited', lists)
<1> DEFINE frame == [block |-> b, bak |-> given, todo |-> Range(code.flow[b].to)]
           V == visited
           n == Len(outer)
<1>1. /\ visited' = V \cup {b} /\ calls' = Append(outer, frame)
      /\ V \subseteq Block /\ b \in Block /\ b \notin V
  BY DEF Rename, Begins
<1>2. /\ n \in Nat /\ Len(calls') = n + 1 /\ calls'[n + 1] = frame
      /\ \A i \in 1..n : calls'[i] = outer[i] /\ outer[i].block \in V
  BY <1>1 DEF Visiting
<1>3. frame.block = b /\ frame.bak = given /\ frame.todo = Range(code.flow[b].to)
  OBVIOUS
<1> HIDE DEF frame, n
<1>4. Visiting(calls', V \cup {b})
  <2>1. \A d \in Block : <<d, b>> \in Domi => d \in V \cup {b}
    BY DEF Begins, Above
  <2>2. ASSUME NEW i \in 1..(n + 1), NEW j \in 1..(n + 1), calls'[i].block = calls'[j].block PROVE i = j
    <3>1. CASE i \in 1..n /\ j \in 1..n
      BY <1>2, <2>2, <3>1 DEF Visiting, n
    <3>2. CASE i = n + 1 \/ j = n + 1
      <4>1. \A k \in 1..(n + 1) : k = n + 1 \/ calls'[k].block # b
        BY <1>1, <1>2
      <4> QED
        BY <1>2, <1>3, <2>2, <3>2, <4>1
    <3> QED
      BY <1>2, <3>1, <3>2
  <2>3. \A i \in 1..(n + 1) : calls'[i].block \in V \cup {b}
    <3> TAKE i \in 1..(n + 1)
    <3>1. i \in 1..n \/ i = n + 1
      BY <1>2
    <3> QED
      BY <1>2, <1>3, <3>1
  <2> QED
    BY <1>2, <2>1, <2>2, <2>3 DEF Visiting
<1>5. PICK next, new :
        /\ Renamed(next, new, V \cup {b}, data') /\ phi' = PhisOf(new)
        /\ varMap' = End(next, b)
        /\ \A d \in V : next[d] = cur[d]
  <2>1. /\ Inv /\ WalkTypes /\ Begins(visited, b) /\ Renamed(cur, rep, visited, data)
        /\ phi = PhisOf(rep) /\ IsGiven(cur, b, given) /\ Rename(b, given, outer) /\ stage' # "error"
    OBVIOUS
  <2>2. \E next, new : RenamedTo(cur, b, next, new)
    BY ONLY <2>1, RenameTraced
  <2> QED
    BY <2>2 DEF RenamedTo
<1>6. \A d \in V : End(next, d) = End(cur, d)
  BY <1>5 DEF End
<1>7. StackedOn(next, calls', varMap')
  <2>1. ASSUME NEW k \in 2..(n + 1), NEW x \in Local
        PROVE  Same(calls'[k].bak[x], End(next, calls'[k - 1].block)[x])
    <3>1. k - 1 \in 1..n
      BY <1>2
    <3>2. End(next, calls'[k - 1].block) = End(cur, outer[k - 1].block)
      BY <1>2, <1>6, <3>1
    <3>3. CASE k = n + 1
      <4>1. calls'[k].bak = given /\ k - 1 = n /\ n > 0
        BY <1>2, <1>3, <3>1, <3>3
      <4> QED
        BY <3>2, <4>1 DEF StackedOn, n
    <3>4. CASE k \in 2..n
      <4>1. calls'[k].bak = outer[k].bak
        BY <1>2, <3>4
      <4> QED
        BY <3>2, <3>4, <4>1 DEF StackedOn, n
    <3> QED
      BY <1>2, <3>3, <3>4
  <2>2. \A x \in Local : Same(varMap'[x], End(next, calls'[n + 1].block)[x])
    BY <1>2, <1>3, <1>5 DEF Same
  <2> QED
    BY <1>2, <2>1, <2>2 DEF StackedOn
<1>8. ASSUME NEW d \in Block, NEW c \in Range(code.flow[d].to)
      PROVE  IsTaken(calls', V \cup {b}, d, c) <=> IsTaken(outer, V, d, c)
  <2>1. CASE d = b
    <3>1. n + 1 \in 1..Len(calls') /\ calls'[n + 1].block = d /\ c \in calls'[n + 1].todo
      BY <1>2, <1>3, <2>1
    <3> QED
      BY <1>1, <2>1, <3>1 DEF IsTaken
  <2>2. CASE d # b
    <3>1. ASSUME NEW i \in 1..(n + 1), calls'[i].block = d, c \in calls'[i].todo
          PROVE  \E j \in 1..n : outer[j].block = d /\ c \in outer[j].todo
      <4>1. i \in 1..n
        BY <1>2, <1>3, <2>2, <3>1
      <4> QED
        BY <1>2, <3>1, <4>1
    <3>2. ASSUME NEW i \in 1..n, outer[i].block = d, c \in outer[i].todo
          PROVE  \E j \in 1..(n + 1) : calls'[j].block = d /\ c \in calls'[j].todo
      <4>1. i \in 1..(n + 1) /\ calls'[i] = outer[i]
        BY <1>2
      <4> QED
        BY <3>2, <4>1
    <3> QED
      BY <1>2, <2>2, <3>1, <3>2 DEF IsTaken, n
  <2> QED
    BY <2>1, <2>2
<1>9. FilledIn(next, calls', V \cup {b}, V \cup {b}, lists)
  <2>1. ASSUME NEW d \in Block, NEW c \in Range(code.flow[d].to)
        PROVE  /\ IsTaken(calls', V \cup {b}, d, c) => c \in V \cup {b}
               /\ \A x \in phiMap[c] :
                    IF IsTaken(calls', V \cup {b}, d, c)
                    THEN /\ d \in DOMAIN lists[c][x] /\ lists[c][x][d] # Null
                         /\ Same(lists[c][x][d], End(next, d)[x])
                    ELSE d \notin DOMAIN lists[c][x]
    <3>1. IsTaken(outer, V, d, c) => End(next, d) = End(cur, d)
      BY <1>6 DEF IsTaken
    <3> QED
      BY <1>8, <3>1 DEF FilledIn
  <2> QED
    BY <2>1 DEF FilledIn
<1> QED
  BY <1>1, <1>4, <1>5, <1>7, <1>9

(***************************************************************************)
(* What depends on the function and its new phi statements stays with      *)
(* them.                                                                   *)
(***************************************************************************)
LEMMA DomiStays ==
  ASSUME code' = code
  PROVE  Ways' = Ways /\ Domi' = Domi /\ \A d, b : Above(d, b)' <=> Above(d, b)
<1>1. Ways' = Ways
  BY DEF Ways
<1>2. Domi' = Domi
  BY <1>1 DEF Domi
<1> QED
  BY <1>1, <1>2 DEF Above

LEMMA CodeStays ==
  ASSUME code' = code
  PROVE  /\ Value' = Value /\ Frame' = Frame /\ LoadTemps' = LoadTemps
         /\ \A b : Size(b)' = Size(b) /\ Left(b)' = Left(b) /\ Stores(b)' = Stores(b)
         /\ \A t, b, i : AvailableAt(t, b, i)' <=> AvailableAt(t, b, i)
         /\ \A rep, o : Sub(rep, o)' = Sub(rep, o)
         /\ \A rep, V : DataOf(rep, V)' = DataOf(rep, V)
         /\ \A rep, b : PhiOf(rep, b)' = PhiOf(rep, b)
         /\ \A rep : PhisOf(rep)' = PhisOf(rep)
<1>1. Value' = Value /\ Frame' = Frame
  BY DEF Value, Frame, Operand
<1>2. LoadTemps' = LoadTemps
  BY DEF LoadTemps
<1>3. \A b : Size(b)' = Size(b) /\ Left(b)' = Left(b) /\ Stores(b)' = Stores(b)
  BY DEF Size, Left, Stores
<1>4. \A t, b, i : AvailableAt(t, b, i)' <=> AvailableAt(t, b, i)
  BY DEF AvailableAt
<1>5. \A rep, o : Sub(rep, o)' = Sub(rep, o)
  BY DEF Sub
<1>6. \A rep, operands : AllSub(rep, operands)' = AllSub(rep, operands)
  BY <1>5 DEF AllSub
<1>7. \A rep, stmt : SubStmt(rep, stmt)' = SubStmt(rep, stmt)
  BY <1>6 DEF SubStmt
<1>8. \A rep, b : BodyOf(rep, b)' = BodyOf(rep, b)
  BY <1>3, <1>7 DEF BodyOf
<1>9. \A rep, b : KeptOf(rep, b)' = KeptOf(rep, b)
  BY <1>3, <1>7 DEF KeptOf
<1>10. \A rep, V : DataOf(rep, V)' = DataOf(rep, V)
  BY <1>8, <1>9 DEF DataOf
<1>11. \A rep, b : PhiOf(rep, b)' = PhiOf(rep, b)
  BY <1>6 DEF PhiOf
<1>12. \A rep : PhisOf(rep)' = PhisOf(rep)
  BY <1>11 DEF PhisOf
<1> QED
  BY <1>1, <1>2, <1>3, <1>4, <1>5, <1>10, <1>11, <1>12

LEMMA WalkStays ==
  ASSUME code' = code, phiMap' = phiMap
  PROVE  /\ \A cur, rep, V, bodies : Renamed(cur, rep, V, bodies)' <=> Renamed(cur, rep, V, bodies)
         /\ \A cur, stack, map : StackedOn(cur, stack, map)' <=> StackedOn(cur, stack, map)
         /\ \A cur, stack, V, W, lists : FilledIn(cur, stack, V, W, lists)' <=> FilledIn(cur, stack, V, W, lists)
         /\ \A stack, V : Visiting(stack, V)' <=> Visiting(stack, V)
<1>1. \A v, b, i : Present(v, b, i)' <=> Present(v, b, i)
  BY CodeStays, DomiStays DEF Present
<1>2. \A cur, rep, b, i : Step(cur, rep, b, i)' <=> Step(cur, rep, b, i)
  <2>1. \A rep, o : Sub(rep, o)' = Sub(rep, o)
    BY CodeStays
  <2> SUFFICES ASSUME NEW cur, NEW rep, NEW b, NEW i PROVE Step(cur, rep, b, i)' <=> Step(cur, rep, b, i)
    OBVIOUS
  <2>2. Sub(rep, code.data[b][i].args[1])' = Sub(rep, code.data[b][i].args[1])
    BY <2>1
  <2> QED
    BY <2>2 DEF Step
<1>3. \A cur, rep, V, c, k : Traced(cur, rep, V, c, k)' <=> Traced(cur, rep, V, c, k)
  BY <1>1, <1>2, CodeStays DEF Traced
<1>4. \A b : Gives(b)' = Gives(b)
  BY CodeStays DEF Gives
<1>5. \A x, b : Givers(x, b)' = Givers(x, b)
  BY <1>4, DomiStays DEF Givers
<1>6. \A cur, b : End(cur, b)' = End(cur, b)
  BY CodeStays DEF End
<1>7. \A cur, x, G, v : From(cur, x, G, v)' <=> From(cur, x, G, v)
  BY <1>6, DomiStays DEF From
<1>8. \A cur, V : Placed(cur, V)' <=> Placed(cur, V)
  BY <1>5, <1>7 DEF Placed
<1>9. \A cur, rep, V, bodies : Renamed(cur, rep, V, bodies)' <=> Renamed(cur, rep, V, bodies)
  BY <1>3, <1>8, CodeStays DEF Renamed
<1>10. \A cur, stack, map : StackedOn(cur, stack, map)' <=> StackedOn(cur, stack, map)
  BY <1>6 DEF StackedOn
<1>11. \A cur, stack, V, W, lists : FilledIn(cur, stack, V, W, lists)' <=> FilledIn(cur, stack, V, W, lists)
  BY <1>6 DEF FilledIn
<1>12. \A stack, V : Visiting(stack, V)' <=> Visiting(stack, V)
  BY DomiStays DEF Visiting
<1> QED
  BY <1>9, <1>10, <1>11, <1>12

(***************************************************************************)
(* Every step of the walk keeps a certificate of what it did.              *)
(***************************************************************************)
Promoted == \A b \in Block : phiMap[b] \subseteq Local /\ added[b] \subseteq Local

Untouched ==
  /\ data = code.data /\ phi = code.phi /\ visited = {} /\ calls = <<>>
  /\ varMap = [x \in Local |-> Null]
  /\ filled = [b \in Block |-> [x \in Local |-> <<>>]]

Certificate(cur, rep) ==
  /\ Renamed(cur, rep, visited, data) /\ phi = PhisOf(rep)
  /\ StackedOn(cur, calls, varMap) /\ FilledIn(cur, calls, visited, visited, filled)

Certified ==
  /\ Entry \in visited /\ Visiting(calls, visited)
  /\ \E cur, rep : Certificate(cur, rep)

LEMMA PromotedStep == ASSUME Inv, Promoted, [Next]_vars PROVE Promoted'
<1>1. code \in Programs /\ DOMAIN phiMap = Block /\ DOMAIN added = Block
  BY DEF Inv, Shape
<1>2. CASE SpreadDef
  <2>1. \A b \in Block : Stores(b) \subseteq Local
    BY <1>1, CodeFacts DEF Stores, OfLocals
  <2> QED
    BY <1>2, <2>1 DEF SpreadDef, Promoted
<1>3. CASE SpreadPhi
  <2> DEFINE node == Head(queue)
             left == [added EXCEPT ![node] = {}]
             new  == [n \in Block |-> IF n \in code.fro[node] THEN NewIn(n, added[node]) ELSE {}]
  <2>1. /\ phiMap' = [n \in Block |-> phiMap[n] \cup new[n]]
        /\ added' = [n \in Block |-> left[n] \cup new[n]]
        /\ node \in Block
    BY <1>3 DEF SpreadPhi, Inv, Shape
  <2>2. \A n \in Block : new[n] \subseteq added[node] /\ left[n] \subseteq added[n]
    BY <1>1, <2>1 DEF NewIn
  <2> HIDE DEF node, left, new
  <2> QED
    BY <2>1, <2>2 DEF Promoted
<1>4. CASE UNCHANGED placing
  BY <1>4 DEF placing, Promoted
<1>5. CASE StartRename \/ Leave \/ InsertPhi \/ UNCHANGED vars \/ \E c \in Block : Descend(c)
  BY <1>4, <1>5 DEF StartRename, Leave, InsertPhi, vars, Descend, placing
<1>6. CASE \E c \in Exits(run.at) : RunOn(c)
  BY <1>4, <1>6 DEF RunOn
<1> QED
  BY <1>2, <1>3, <1>5, <1>6 DEF Next

LEMMA CertificateIs ==
  ASSUME code' = code, phiMap' = phiMap, Entry \in visited', Visiting(calls', visited'),
         NEW cur, NEW rep, Renamed(cur, rep, visited', data'), phi' = PhisOf(rep),
         StackedOn(cur, calls', varMap'), FilledIn(cur, calls', visited', visited', filled')
  PROVE  Certified'
<1>1. Certificate(cur, rep)'
  BY WalkStays, CodeStays DEF Certificate
<1>2. Visiting(calls, visited)'
  BY WalkStays
<1> QED
  BY <1>1, <1>2 DEF Certified

LEMMA StartCertified ==
  ASSUME Inv, WalkInv, Promoted, Untouched, StartRename, stage' # "error"
  PROVE  Certified'
<1> DEFINE rep == [t \in code.temps |-> Named(t)]
           cur == <<>>
<1>1. /\ code \in Programs /\ code' = code /\ phiMap' = phiMap /\ filled' = filled
      /\ visited = {} /\ WalkTypes /\ Entry \in Block /\ \A b \in Block : b # Null
  BY BlockAssumption DEF Inv, Shape, StartRename, placing, Untouched, WalkInv
<1>2. Rename(Entry, varMap, <<>>)
  BY DEF StartRename
<1>3. \A d \in Block : <<d, Entry>> \in Domi => d = Entry
  BY RootHasOneDominator, BlockAssumption DEF Domi, Node
<1>4. Begins(visited, Entry)
  BY <1>1, <1>3 DEF Begins, Above
<1>5. Renamed(cur, rep, visited, data) /\ phi = PhisOf(rep)
  <2>1. \A b \in Block : \A i : ~IsDone({}, Null, 0, b, i)
    BY <1>1 DEF IsDone
  <2>2. \A t \in code.temps : rep[t] = Named(t)
    OBVIOUS
  <2>3. rep = [t \in code.temps |-> rep[t]]
    OBVIOUS
  <2> HIDE DEF rep, cur
  <2>4. Traced(cur, rep, {}, Null, 0)
    BY <2>1, <2>2, <2>3 DEF Traced
  <2>5. Placed(cur, {})
    BY DEF Placed
  <2>6. data = DataOf(rep, {}) /\ phi = PhisOf(rep)
    BY <1>1, NothingReplaced DEF Untouched, rep
  <2> QED
    BY <1>1, <2>4, <2>5, <2>6 DEF Renamed
<1> HIDE DEF rep, cur
<1>6. IsGiven(cur, Entry, varMap)
  <2>1. varMap \in [Local -> Value] /\ \A x \in Local : varMap[x] = Null
    BY <1>1 DEF Untouched, WalkTypes
  <2>2. \A x : Givers(x, Entry) \ {Entry} = {}
    BY <1>3 DEF Givers
  <2> QED
    BY <2>1, <2>2 DEF IsGiven, From, Same
<1>7. Visiting(<<>>, visited) /\ StackedOn(cur, <<>>, varMap) /\ <<>> \in Seq(Frame)
  BY <1>1 DEF Visiting, StackedOn
<1>8. FilledIn(cur, <<>>, visited, visited \cup {Entry}, filled)
  <2>1. \A b \in Block : filled[b] = [x \in Local |-> <<>>]
    BY DEF Untouched
  <2>2. filled = [b \in Block |-> filled[b]] /\ \A b \in Block : filled[b] = [x \in Local |-> filled[b][x]]
    BY <2>1 DEF Untouched
  <2>3. ASSUME NEW d \in Block, NEW c \in Range(code.flow[d].to), NEW x \in phiMap[c]
        PROVE  d \notin DOMAIN filled[c][x]
    <3>1. c \in Block
      BY <1>1, ShapeFacts, TargetFacts
    <3>2. filled[c][x] = <<>>
      BY <2>1, <3>1 DEF Promoted
    <3> QED
      BY <3>2
  <2>4. \A d, c : ~IsTaken(<<>>, visited, d, c)
    BY <1>1 DEF IsTaken
  <2> QED
    BY <2>2, <2>3, <2>4 DEF FilledIn
<1>9. /\ Visiting(calls', visited')
      /\ \E next, new :
           /\ Renamed(next, new, visited', data') /\ phi' = PhisOf(new)
           /\ StackedOn(next, calls', varMap') /\ FilledIn(next, calls', visited', visited', filled)
  BY <1>1, <1>2, <1>4, <1>5, <1>6, <1>7, <1>8, RenameCertified
<1>10. Entry \in visited'
  BY <1>2 DEF Rename
<1> QED
  BY <1>1, <1>9, <1>10, CertificateIs

\* The k-th call takes the edge to c, with the values now.
Takes(stack, k, c, next) ==
  /\ k \in 1..Len(stack) /\ c \in stack[k].todo /\ Len(next) = Len(stack)
  /\ \A i \in 1..Len(stack) :
       /\ next[i].block = stack[i].block
       /\ next[i].todo = IF i = k THEN stack[k].todo \ {c} ELSE stack[i].todo

Passed(cur, b, c, now) ==
  \A x \in phiMap[c] : x \in Local /\ now[x] # Null /\ Same(now[x], End(cur, b)[x])

ListsWith(lists, b, c, now) ==
  [lists EXCEPT ![c] =
     [x \in Local |-> IF x \in phiMap[c] THEN WithEntry(lists[c][x], b, now[x]) ELSE lists[c][x]]]

\* What a new phi statement gets from a call is what the local has there.
LEMMA EdgeFilled ==
  ASSUME code \in Programs, NEW cur, NEW stack, NEW V \in SUBSET Block, NEW lists,
         FilledIn(cur, stack, V, V, lists), Visiting(stack, V),
         NEW k, NEW c \in Block, NEW next, Takes(stack, k, c, next),
         NEW now, Passed(cur, stack[k].block, c, now)
  PROVE  FilledIn(cur, next, V, V \cup {c}, ListsWith(lists, stack[k].block, c, now))
<1> DEFINE b == stack[k].block
           new == ListsWith(lists, b, c, now)
           W == V \cup {c}
<1> USE DEF Takes
<1>1. /\ \A e \in Block : e # c => new[e] = lists[e]
      /\ \A x \in Local : new[c][x] = IF x \in phiMap[c] THEN WithEntry(lists[c][x], b, now[x]) ELSE lists[c][x]
      /\ new[c] = [x \in Local |-> new[c][x]] /\ new = [e \in Block |-> new[e]]
      /\ \A e \in Block : lists[e] = [x \in Local |-> lists[e][x]]
  BY DEF FilledIn, ListsWith
<1>2. b \in V /\ \A i \in 1..Len(stack) : stack[i].block = b => i = k
  BY DEF Visiting
<1>3. ~IsTaken(stack, V, b, c) /\ IsTaken(next, V, b, c)
  BY <1>2 DEF IsTaken
<1>4. ASSUME NEW d, NEW e, d # b \/ e # c PROVE IsTaken(next, V, d, e) <=> IsTaken(stack, V, d, e)
  BY <1>2, <1>4 DEF IsTaken
<1> HIDE DEF b, new, Takes
<1>5. ASSUME NEW d \in Block, NEW e \in Range(code.flow[d].to)
      PROVE  /\ IsTaken(next, V, d, e) => e \in W
             /\ \A x \in phiMap[e] :
                  IF IsTaken(next, V, d, e)
                  THEN /\ d \in DOMAIN new[e][x] /\ new[e][x][d] # Null
                       /\ Same(new[e][x][d], End(cur, d)[x])
                  ELSE d \notin DOMAIN new[e][x]
  <2>1. /\ IsTaken(stack, V, d, e) => e \in V
        /\ \A x \in phiMap[e] :
             IF IsTaken(stack, V, d, e)
             THEN /\ d \in DOMAIN lists[e][x] /\ lists[e][x][d] # Null
                  /\ Same(lists[e][x][d], End(cur, d)[x])
             ELSE d \notin DOMAIN lists[e][x]
    BY DEF FilledIn
  <2>2. e \in Block
    BY ShapeFacts, TargetFacts
  <2>3. CASE e # c
    BY <1>1, <1>4, <2>1, <2>2, <2>3
  <2>4. CASE e = c /\ d # b
    <3>1. ASSUME NEW x \in phiMap[c]
          PROVE  /\ d \in DOMAIN new[c][x] <=> d \in DOMAIN lists[c][x]
                 /\ d \in DOMAIN lists[c][x] => new[c][x][d] = lists[c][x][d]
      <4>1. new[c][x] = WithEntry(lists[c][x], b, now[x])
        BY <1>1, <3>1 DEF Passed
      <4> QED
        BY <2>4, <4>1 DEF WithEntry
    <3> QED
      BY <1>4, <2>1, <2>4, <3>1
  <2>5. CASE e = c /\ d = b
    <3>1. ASSUME NEW x \in phiMap[c]
          PROVE  b \in DOMAIN new[c][x] /\ new[c][x][b] = now[x]
      <4>1. b \notin DOMAIN lists[c][x]
        BY <1>3, <2>1, <2>5
      <4>2. new[c][x] = WithEntry(lists[c][x], b, now[x])
        BY <1>1, <3>1 DEF Passed
      <4> QED
        BY <4>1, <4>2 DEF WithEntry
    <3> QED
      BY <1>3, <2>5, <3>1 DEF Passed, b
  <2> QED
    BY <2>3, <2>4, <2>5
<1>6. \A e \in Block : new[e] = [x \in Local |-> new[e][x]]
  BY <1>1
<1>7. FilledIn(cur, next, V, W, new)
  BY <1>1, <1>5, <1>6 DEF FilledIn
<1> QED
  BY <1>7 DEF new, b

LEMMA DescendCertified ==
  ASSUME Inv, WalkInv, Promoted, Certified, NEW c \in Block, Descend(c), stage' # "error"
  PROVE  Certified'
<1> DEFINE n == Len(calls)
           b == Last(calls).block
           outer == [calls EXCEPT ![n].todo = @ \ {c}]
           given == Spread(c)
           list(x) == IF x \in phiMap[c] THEN WithEntry(filled[c][x], b, Spread(c)[x]) ELSE filled[c][x]
           lists == [filled EXCEPT ![c] = [x \in Local |-> list(x)]]
<1>1. /\ code \in Programs /\ code' = code /\ phiMap' = phiMap /\ filled' = lists /\ WalkTypes
      /\ stage = "rename" /\ queue = <<>> /\ calls # <<>> /\ c \in Last(calls).todo
  BY DEF Inv, Shape, Descend, placing, WalkInv, Begun
<1>2. /\ n \in Nat /\ n \in 1..n /\ calls \in Seq(Frame) /\ Last(calls) = calls[n] /\ b = calls[n].block
      /\ b \in Block /\ b \in visited /\ visited \in SUBSET Block
      /\ \A i \in 1..n : calls[i] \in Frame
  <2>1. calls \in Seq(Frame) /\ visited \in SUBSET Block
    BY <1>1 DEF WalkTypes
  <2>2. n \in Nat /\ n \in 1..n /\ Last(calls) = calls[n] /\ \A i \in 1..n : calls[i] \in Frame
    BY <1>1, <2>1 DEF Last
  <2>3. b = calls[n].block /\ b \in Block /\ b \in visited
    BY <2>2 DEF Frame, Certified, Visiting
  <2> QED
    BY <2>1, <2>2, <2>3
<1>3. /\ outer \in Seq(Frame) /\ Len(outer) = n
      /\ \A i \in 1..n : /\ outer[i].block = calls[i].block /\ outer[i].bak = calls[i].bak
                         /\ outer[i].todo = IF i = n THEN calls[n].todo \ {c} ELSE calls[i].todo
  <2>1. \A i \in 1..n : outer[i] = IF i = n THEN [calls[n] EXCEPT !.todo = @ \ {c}] ELSE calls[i]
    BY <1>2
  <2>2. [calls[n] EXCEPT !.todo = @ \ {c}] \in Frame
    BY <1>2 DEF Frame
  <2>3. outer \in Seq(Frame) /\ Len(outer) = n
    BY <1>2, <2>1, <2>2
  <2> QED
    BY <1>2, <2>1, <2>3 DEF Frame
<1> HIDE DEF outer
<1>4. PICK cur, rep : Certificate(cur, rep)
  BY DEF Certified
<1>5. Traced(cur, rep, visited, Null, 0) /\ Placed(cur, visited)
  BY <1>4 DEF Certificate, Renamed
<1>6. \A x \in Local : Same(varMap[x], End(cur, b)[x])
  BY <1>2, <1>4 DEF Certificate, StackedOn
<1>7. /\ given \in [Local -> Value]
      /\ \A x \in Local : Same(given[x], End(cur, b)[x]) /\ (x \in phiMap[c] => given[x] # Null)
  <2>1. given \in [Local -> Value]
    BY <1>1, SpreadFacts
  <2>2. \A x \in Local : given[x] = IF x \in phiMap[c] /\ varMap[x] = Null THEN Undefined ELSE varMap[x]
    BY DEF Spread
  <2> QED
    BY <1>6, <2>1, <2>2, NullAssumption DEF Same
<1>8. c \in Range(code.flow[b].to)
  BY <1>1, <1>2 DEF WalkInv, OnTrail
<1>9. FilledIn(cur, outer, visited, visited \cup {c}, lists)
  <2>1. FilledIn(cur, calls, visited, visited, filled) /\ Visiting(calls, visited)
    BY <1>4 DEF Certificate, Certified
  <2>2. Passed(cur, calls[n].block, c, given)
    BY <1>2, <1>7 DEF Passed, Promoted
  <2>3. lists = ListsWith(filled, calls[n].block, c, given)
    BY <1>2 DEF ListsWith
  <2>4. Takes(calls, n, c, outer)
    BY <1>1, <1>2, <1>3 DEF Takes
  <2> HIDE DEF lists, given, n
  <2> QED
    BY <1>1, <1>2, <2>1, <2>2, <2>3, <2>4, EdgeFilled
<1>10. Visiting(outer, visited)
  BY <1>2, <1>3 DEF Visiting, Certified
<1>11. StackedOn(cur, outer, given)
  <2>1. \A k \in 2..n : k - 1 \in 1..n /\ k \in 1..n
    BY <1>2
  <2>2. \A k \in 2..n : \A x \in Local : Same(outer[k].bak[x], End(cur, outer[k - 1].block)[x])
    BY <1>3, <1>4, <2>1 DEF Certificate, StackedOn
  <2> QED
    BY <1>2, <1>3, <1>7, <2>2 DEF StackedOn
<1> HIDE DEF given, lists, n
<1>12. CASE c \in visited
  <2>1. /\ calls' = outer /\ varMap' = given /\ UNCHANGED <<visited, data, phi>>
    BY <1>12 DEF Descend, outer, given, n
  <2>2. visited \cup {c} = visited
    BY <1>12
  <2>3. Renamed(cur, rep, visited', data') /\ phi' = PhisOf(rep)
    BY <1>4, <2>1 DEF Certificate
  <2>4. /\ StackedOn(cur, calls', varMap') /\ FilledIn(cur, calls', visited', visited', filled')
        /\ Visiting(calls', visited') /\ Entry \in visited'
    BY <1>1, <1>9, <1>10, <1>11, <2>1, <2>2 DEF Certified
  <2> QED
    BY <1>1, <2>3, <2>4, CertificateIs
<1>13. CASE c \notin visited
  <2>1. Rename(c, given, outer)
    BY <1>13 DEF Descend, outer, given, n
  <2>2. <<b, c>> \in Ways
    BY <1>1, <1>2, <1>8, ShapeFacts, TargetFacts DEF Ways
  <2>3. Begins(visited, c)
    <3>1. \A e \in visited : \A d \in Block : <<d, e>> \in Domi => d \in visited
      BY DEF Certified, Visiting
    <3>2. ASSUME NEW d \in Block, Above(d, c) PROVE d \in visited
      <4>1. <<d, b>> \in Domi
        <5>1. b \in Node /\ c \in Node /\ d \in Node /\ d # c /\ <<d, c>> \in Domi
          BY <1>2, <3>2 DEF Node, Above
        <5> QED
          BY <1>1, <2>2, <5>1, ShapeFacts, DominatesPredecessors DEF Domi
      <4> QED
        BY <1>2, <3>1, <4>1
    <3> QED
      BY <1>2, <1>13, <3>1, <3>2 DEF Begins
  <2>4. IsGiven(cur, c, given)
    <3> SUFFICES ASSUME NEW x \in Local \ phiMap[c] PROVE From(cur, x, Givers(x, c) \ {c}, given[x])
      BY <1>7 DEF IsGiven
    <3>1. From(cur, x, Givers(x, b), End(cur, b)[x])
      BY <1>1, <1>2, <1>5, EndFrom
    <3>2. Givers(x, c) \ {c} = Givers(x, b)
      BY <1>1, <1>2, <1>8, EdgeGivers
    <3>3. Same(End(cur, b)[x], given[x])
      BY <1>7 DEF Same
    <3> QED
      BY <3>1, <3>2, <3>3, FromSame
  <2>5. Renamed(cur, rep, visited, data) /\ phi = PhisOf(rep)
    BY <1>4 DEF Certificate
  <2>6. outer \in Seq(Frame)
    BY <1>3
  <2>7. /\ Visiting(calls', visited')
        /\ \E next, new :
             /\ Renamed(next, new, visited', data') /\ phi' = PhisOf(new)
             /\ StackedOn(next, calls', varMap') /\ FilledIn(next, calls', visited', visited', lists)
    BY <1>1, <1>9, <1>10, <1>11, <2>1, <2>3, <2>4, <2>5, <2>6, RenameCertified
  <2>8. Entry \in visited'
    BY <2>1 DEF Rename, Certified
  <2> QED
    BY <1>1, <2>7, <2>8, CertificateIs
<1> QED
  BY <1>12, <1>13

LEMMA LeaveCertified == ASSUME Inv, WalkInv, Certified, Leave PROVE Certified'
<1> DEFINE n == Len(calls)
<1>1. /\ code' = code /\ phiMap' = phiMap /\ UNCHANGED <<visited, filled, data, phi>>
      /\ n \in Nat /\ n \in 1..n /\ calls \in Seq(Frame) /\ calls[n].todo = {}
      /\ varMap' = calls[n].bak /\ calls' = Front(calls)
  BY DEF Leave, Restored, WalkInv, WalkTypes, Last, placing
<1>2. Len(calls') = n - 1 /\ \A i \in 1..(n - 1) : calls'[i] = calls[i]
  <2>1. calls' = SubSeq(calls, 1, n - 1) /\ n - 1 \in Nat
    BY <1>1 DEF Front
  <2> DEFINE m == n - 1
  <2>2. \A i \in 1..m : calls[i] \in Frame
    BY <1>1, <2>1
  <2>3. m \in Int /\ calls' = SubSeq(calls, 1, m)
    BY <2>1
  <2> HIDE DEF m
  <2>4. /\ Len(calls') = IF 1 <= m THEN m - 1 + 1 ELSE 0
        /\ \A i \in 1..m - 1 + 1 : calls'[i] = calls[1 + i - 1]
    BY <2>2, <2>3, SubSeqProperties
  <2>5. m \in Nat /\ n = m + 1
    BY <1>1, <2>1 DEF m
  <2> QED
    BY <2>4, <2>5
<1>3. PICK cur, rep : Certificate(cur, rep)
  BY DEF Certified
<1>4. /\ \A k \in 2..n : \A x \in Local : Same(calls[k].bak[x], End(cur, calls[k - 1].block)[x])
      /\ FilledIn(cur, calls, visited, visited, filled) /\ Visiting(calls, visited)
  BY <1>3 DEF Certificate, StackedOn, Certified
<1> HIDE DEF n
<1>5. StackedOn(cur, calls', varMap')
  <2>1. ASSUME NEW k \in 2..(n - 1), NEW x \in Local
        PROVE  Same(calls'[k].bak[x], End(cur, calls'[k - 1].block)[x])
    <3>1. k \in 2..n /\ k \in 1..(n - 1) /\ k - 1 \in 1..(n - 1)
      BY <1>1
    <3> QED
      BY <1>2, <1>4, <3>1
  <2>2. ASSUME n - 1 > 0, NEW x \in Local PROVE Same(varMap'[x], End(cur, calls'[n - 1].block)[x])
    <3>1. n \in 2..n /\ n - 1 \in 1..(n - 1)
      BY <1>1, <2>2
    <3> QED
      BY <1>1, <1>2, <1>4, <3>1
  <2> QED
    BY <1>2, <2>1, <2>2 DEF StackedOn
<1>6. \A d, c : IsTaken(calls', visited, d, c) <=> IsTaken(calls, visited, d, c)
  <2> SUFFICES ASSUME NEW d, NEW c
               PROVE  (\E i \in 1..(n - 1) : calls'[i].block = d /\ c \in calls'[i].todo)
                        <=> \E i \in 1..n : calls[i].block = d /\ c \in calls[i].todo
    BY <1>2 DEF IsTaken, n
  <2>1. \A i \in 1..(n - 1) : i \in 1..n
    BY <1>1
  <2>2. \A i \in 1..n : c \in calls[i].todo => i \in 1..(n - 1)
    BY <1>1
  <2> QED
    BY <1>2, <2>1, <2>2
<1>7. FilledIn(cur, calls', visited, visited, filled)
  BY <1>4, <1>6 DEF FilledIn
<1>8. Visiting(calls', visited)
  <2>1. \A i \in 1..(n - 1) : i \in 1..n
    BY <1>1
  <2> QED
    BY <1>2, <1>4, <2>1 DEF Visiting, n
<1>9. Renamed(cur, rep, visited', data') /\ phi' = PhisOf(rep) /\ Entry \in visited'
  BY <1>1, <1>3 DEF Certificate, Certified
<1> QED
  BY <1>1, <1>5, <1>7, <1>8, <1>9, CertificateIs

(***************************************************************************)
(* The two runs.  A value of the function as it was is missing, or is that *)
(* of the operand in the function as it is now.                            *)
(***************************************************************************)
Fits(u, env, v) == u = Null \/ (v # Null /\ u = ValueOf(env, v))

Related(cur, rep, b, i, old, new) ==
  /\ old = [y \in code.temps \cup Local |-> old[y]]
  /\ new = [y \in code.temps \cup AllNewPhis |-> new[y]]
  /\ \A x \in Local : Fits(old[x], new, cur[b][i][x])
  /\ \A t : AvailableAt(t, b, i + 1) => Fits(old[t], new, rep[t])

LEMMA FitsSame ==
  ASSUME NEW u, NEW env, NEW v, NEW w, Fits(u, env, v), Same(v, w)
  PROVE  Fits(u, env, w)
<1>1. ValueOf(env, Undefined) = Null
  BY DEF ValueOf, Undefined
<1> QED
  BY <1>1 DEF Fits, Same

IsExecution(at, start, body, n) ==
  at = [i \in 0..n |-> IF i = 0 THEN start ELSE Executed(at[i - 1], body[i], Zeros)]

LEMMA ExecutionExists ==
  ASSUME NEW start, NEW body, NEW n \in Nat
  PROVE  \E at : IsExecution(at, start, body, n)
<1> DEFINE S == {k \in Nat : \E at : IsExecution(at, start, body, k)}
           Turn(at, i) == IF i = 0 THEN start ELSE Executed(at[i - 1], body[i], Zeros)
<1>1. 0 \in S
  <2> DEFINE at == [i \in 0..0 |-> start]
  <2>1. IsExecution(at, start, body, 0)
    BY DEF IsExecution
  <2> QED
    BY <2>1
<1>2. ASSUME NEW k \in Nat, k \in S PROVE k + 1 \in S
  <2> PICK at : IsExecution(at, start, body, k)
    BY <1>2
  <2> DEFINE next == [i \in 0..(k + 1) |-> IF i = k + 1 THEN Turn(at, i) ELSE at[i]]
  <2>1. \A i \in 0..k : at[i] = Turn(at, i)
    BY DEF IsExecution
  <2>2. \A i \in 1..(k + 1) : next[i - 1] = at[i - 1]
    OBVIOUS
  <2>3. \A i \in 0..(k + 1) : next[i] = Turn(next, i)
    <3> SUFFICES ASSUME NEW i \in 0..(k + 1) PROVE next[i] = Turn(next, i)
      OBVIOUS
    <3>1. i = 0 \/ next[i - 1] = at[i - 1]
      BY <2>2
    <3>2. next[i] = Turn(at, i)
      BY <2>1
    <3> QED
      BY <3>1, <3>2
  <2>4. next = [i \in 0..(k + 1) |-> next[i]]
    OBVIOUS
  <2> HIDE DEF next
  <2>5. IsExecution(next, start, body, k + 1)
    BY <2>3, <2>4 DEF IsExecution
  <2> QED
    BY <2>5
<1> HIDE DEF S
<1>3. n \in S
  BY <1>1, <1>2, Induction
<1> QED
  BY <1>3 DEF S

Start(env, phis, from) ==
  [env |-> IF from = Null THEN env ELSE Entered(env, phis, from), out |-> <<>>]

\* What a run of a block goes through.
Runs(at, env, phis, body, n, from) ==
  /\ at[0] = Start(env, phis, from)
  /\ \A i \in 1..n : at[i] = Executed(at[i - 1], body[i], Zeros)
  /\ RunBlock(env, phis, body, from, Zeros) = at[n]

LEMMA BlockIsRun ==
  ASSUME NEW env, NEW phis, NEW body, NEW n \in Nat, Len(body) = n, NEW from
  PROVE  \E at : Runs(at, env, phis, body, n, from)
<1>1. PICK at : at = CHOOSE u : IsExecution(u, Start(env, phis, from), body, n)
  OBVIOUS
<1>2. IsExecution(at, Start(env, phis, from), body, n)
  BY <1>1, ExecutionExists
<1>3. RunBlock(env, phis, body, from, Zeros) = at[n]
  BY <1>1 DEF RunBlock, IsExecution, Start
<1>4. /\ at[0] = Start(env, phis, from)
      /\ \A i \in 1..n : at[i] = Executed(at[i - 1], body[i], Zeros)
  BY <1>2 DEF IsExecution
<1> QED
  BY <1>3, <1>4 DEF Runs

LEMMA OperandFits ==
  ASSUME NEW cur, NEW rep, NEW b \in Block, NEW i \in Nat, NEW old, NEW new,
         Related(cur, rep, b, i, old, new), NEW o, MayUse(code, o, b, i + 1)
  PROVE  /\ ValueOf(old, o) \in {Null, ValueOf(new, Sub(rep, o))}
         /\ o # Null => Fits(ValueOf(old, o), new, Sub(rep, o))
<1>1. CASE o.k = "name"
  <2>1. AvailableAt(o.v, b, i + 1) /\ o.v \in code.temps
    BY <1>1 DEF MayUse, AvailableAt
  <2>2. Fits(old[o.v], new, rep[o.v])
    BY <2>1 DEF Related
  <2> QED
    BY <1>1, <2>1, <2>2 DEF Sub, ValueOf, Fits
<1>2. CASE o.k # "name"
  BY <1>2 DEF MayUse, Sub, ValueOf, Fits
<1> QED
  BY <1>1, <1>2

LEMMA ComputedFits ==
  ASSUME NEW op, op \notin Memory \cup {"store", "load"}, NEW D, NEW u, NEW v,
         u = [j \in D |-> u[j]], v = [j \in D |-> v[j]], \A j \in D : u[j] \in {Null, v[j]},
         NEW old, NEW new, NEW input
  PROVE  Computed(old, op, u, input) \in {Null, Computed(new, op, v, input)}
<1>1. CASE Null \in Range(u)
  <2>1. CASE op \in {"call", "usercall"}
    BY <2>1 DEF Computed
  <2>2. CASE op \notin {"call", "usercall"}
    BY <1>1, <2>2 DEF Computed, Memory
  <2> QED
    BY <2>1, <2>2
<1>2. CASE Null \notin Range(u)
  <2>1. u = v
    BY <1>2 DEF Range
  <2>2. CASE op \in {"call", "usercall"}
    BY <2>2 DEF Computed
  <2>3. CASE op \notin {"call", "usercall"}
    BY <2>1, <2>3 DEF Computed, Memory
  <2> QED
    BY <2>2, <2>3
<1> QED
  BY <1>1, <1>2

\* What is present before a statement is not what the statement defines.
LEMMA StatementKeeps ==
  ASSUME code \in Programs, NEW b \in Block, NEW i \in 1..Size(b), NEW v, v # Null, Present(v, b, i),
         NEW new, NEW next,
         \A y \in code.temps \cup AllNewPhis : y # code.data[b][i].dest => next[y] = new[y],
         code.data[b][i].dest \notin AllNewPhis
  PROVE  ValueOf(next, v) = ValueOf(new, v)
<1>1. i \in Nat /\ i \in 1..(Size(b) + 1)
  BY CodeFacts DEF Size
<1>2. ASSUME NEW t, AvailableAt(t, b, i) PROVE t \in code.temps /\ t # code.data[b][i].dest
  <2> SUFFICES ASSUME t = code.data[b][i].dest PROVE FALSE
    BY <1>2 DEF AvailableAt
  <2>1. i < i \/ Above(b, b)
    BY <1>1, <1>2, DefinedBefore
  <2> QED
    BY <1>1, <2>1 DEF Above
<1>3. ASSUME NEW d \in Block, NEW x \in Local PROVE NewPhi(d, x) \in AllNewPhis
  BY DEF AllNewPhis
<1>4. CASE v.k = "name"
  <2>1. \/ AvailableAt(v.v, b, i)
        \/ \E d \in Block : \E x \in Local : v = Named(NewPhi(d, x))
    BY <1>4 DEF Present
  <2>2. next[v.v] = new[v.v]
    BY <1>2, <1>3, <2>1 DEF Named
  <2> QED
    BY <1>4, <2>2 DEF ValueOf
<1>5. CASE v.k # "name"
  BY <1>5 DEF Present, ValueOf
<1> QED
  BY <1>4, <1>5

\* What is available after a statement was so before, or is what it defines.
LEMMA AvailableNext ==
  ASSUME NEW t, NEW b \in Block, NEW i \in Nat, AvailableAt(t, b, i + 1), Size(b) \in Nat, i \in 1..Size(b)
  PROVE  AvailableAt(t, b, i) \/ t = code.data[b][i].dest
<1>1. DefinedIn(code, t, b, i + 1) => DefinedIn(code, t, b, i) \/ t = code.data[b][i].dest
  <2>1. \A j \in 1..((i + 1) - 1) : j = i \/ j \in 1..(i - 1)
    OBVIOUS
  <2> QED
    BY <2>1 DEF DefinedIn
<1> QED
  BY <1>1, AvailableMeans DEF AvailableAt

Outs(out) == out \in Seq(Range(out))

LEMMA OutsAppended ==
  ASSUME NEW out, Outs(out), NEW args
  PROVE  /\ Outs(Append(out, args)) /\ Len(out) \in Nat /\ Len(Append(out, args)) = Len(out) + 1
         /\ Append(out, args)[Len(out) + 1] = args
         /\ DOMAIN Append(out, args) = 1..(Len(out) + 1) /\ DOMAIN out = 1..Len(out)
         /\ \A i \in 1..Len(out) : Append(out, args)[i] = out[i]
<1> DEFINE S == Range(out) \cup {args}
           app == Append(out, args)
<1>1. out \in Seq(S) /\ args \in S
  <2>1. \A i \in 1..Len(out) : out[i] \in S
    BY DEF Outs
  <2> QED
    BY <2>1 DEF Outs
<1> HIDE DEF S
<1>2. /\ app \in Seq(S) /\ Len(out) \in Nat /\ Len(app) = Len(out) + 1 /\ app[Len(out) + 1] = args
      /\ DOMAIN app = 1..(Len(out) + 1) /\ DOMAIN out = 1..Len(out)
      /\ \A i \in 1..Len(out) : app[i] = out[i]
  BY <1>1
<1> HIDE DEF app
<1>3. app = [i \in 1..(Len(out) + 1) |-> app[i]] /\ Len(out) + 1 \in Nat
  BY <1>2
<1>4. Outs(app)
  BY <1>3, IsSequence DEF Outs
<1> QED
  BY <1>2, <1>4 DEF app

LEMMA AgreesAppended ==
  ASSUME NEW out, NEW other, Outs(out), Outs(other), Agrees(out, other), NEW u, NEW v,
         Len(u) = Len(v), \A j \in DOMAIN u : u[j] \in {Null, v[j]}
  PROVE  Agrees(Append(out, u), Append(other, v))
<1>1. Len(out) = Len(other) /\ Len(out) \in Nat
  BY OutsAppended DEF Agrees
<1>2. ASSUME NEW i \in 1..(Len(out) + 1)
      PROVE  /\ Len(Append(out, u)[i]) = Len(Append(other, v)[i])
             /\ \A j \in DOMAIN Append(out, u)[i] : Append(out, u)[i][j] \in {Null, Append(other, v)[i][j]}
  <2>1. CASE i = Len(out) + 1
    BY <1>1, <2>1, OutsAppended
  <2>2. CASE i \in 1..Len(out)
    <3>1. Append(out, u)[i] = out[i] /\ Append(other, v)[i] = other[i] /\ i \in DOMAIN out
      BY <1>1, <2>2, OutsAppended
    <3> QED
      BY <3>1 DEF Agrees
  <2> QED
    BY <1>1, <2>1, <2>2
<1> QED
  BY <1>1, <1>2, OutsAppended DEF Agrees

\* Of the two runs, after the i-th statement of b.
Alike(cur, rep, b, i, r, s) ==
  Related(cur, rep, b, i, r.env, s.env) /\ Outs(r.out) /\ Outs(s.out) /\ Agrees(r.out, s.out)

\* A store or a load, which only the function as it was has.
LEMMA GoneStep ==
  ASSUME code \in Programs, NEW V \in SUBSET Block, NEW cur, NEW rep, Traced(cur, rep, V, Null, 0),
         NEW b \in V, NEW i \in 1..Size(b), Leaves(code.data[b][i]), NEW r, NEW s,
         Alike(cur, rep, b, i - 1, r, s)
  PROVE  Alike(cur, rep, b, i, Executed(r, code.data[b][i], Zeros), s)
<1> DEFINE stmt == code.data[b][i]
           next == Executed(r, stmt, Zeros)
           old == r.env
           new == s.env
<1>1. /\ b \in Block /\ Size(b) \in Nat /\ i \in Nat /\ i - 1 \in Nat /\ (i - 1) + 1 = i /\ i \in DOMAIN code.data[b]
      /\ OfLocals(stmt) /\ StatementOK(code, b, i) /\ code.temps \cap Local = {}
  <2>1. b \in Block /\ Size(b) \in Nat /\ DOMAIN code.data[b] = 1..Size(b) /\ OfLocals(stmt)
    BY CodeFacts DEF Size
  <2>2. StatementOK(code, b, i) /\ code.temps \cap Local = {}
    BY <2>1, StatementsAssumption
  <2> QED
    BY <2>1, <2>2
<1>2. IsDone(V, Null, 0, b, i) /\ Step(cur, rep, b, i) /\ IsDone(V, Null, 0, b, i - 1)
      /\ cur[b][i - 1] \in [Local -> Value]
  <2>1. IsDone(V, Null, 0, b, i) /\ IsDone(V, Null, 0, b, i - 1) /\ i - 1 \in 0..Size(b)
    BY <1>1 DEF IsDone
  <2> QED
    BY <1>1, <2>1 DEF Traced
<1>3. /\ old = [y \in code.temps \cup Local |-> old[y]]
      /\ new = [y \in code.temps \cup AllNewPhis |-> new[y]]
      /\ \A x \in Local : Fits(old[x], new, cur[b][i - 1][x])
      /\ \A t : AvailableAt(t, b, i) => Fits(old[t], new, rep[t])
  BY <1>1 DEF Alike, Related
<1>4. CASE stmt.op = "store"
  <2> DEFINE arg == stmt.args[1]
             x == stmt.dest
             value == ValueOf(old, arg)
  <2>1. stmt.args = <<arg>> /\ arg # Null /\ x \in Local /\ MayUse(code, arg, b, i)
    <3>1. stmt.args = <<arg>> /\ arg # Null /\ x \in Local
      BY <1>1, <1>4 DEF OfLocals
    <3>2. 1 \in DOMAIN stmt.args
      BY <3>1
    <3> QED
      BY <1>1, <1>4, <3>1, <3>2 DEF StatementOK
  <2>2. next = [env |-> [old EXCEPT ![x] = value], out |-> r.out]
    <3>1. Computed(old, "store", [j \in DOMAIN stmt.args |-> ValueOf(old, stmt.args[j])], Zeros[Len(r.out) + 1]) = value
      BY <2>1 DEF Computed
    <3>2. x \in DOMAIN old
      BY <1>3, <2>1
    <3> HIDE DEF value, old
    <3> QED
      BY <1>4, <3>1, <3>2 DEF Executed, old
  <2>3. Fits(value, new, Sub(rep, arg))
    BY <1>1, <2>1, OperandFits DEF Alike
  <2>4. cur[b][i] = [cur[b][i - 1] EXCEPT ![x] = Sub(rep, arg)]
    BY <1>2, <1>4 DEF Step
  <2>5. ASSUME NEW t, AvailableAt(t, b, i + 1) PROVE t \in code.temps /\ Fits(old[t], new, rep[t])
    <3>1. t \in code.temps /\ t # x
      BY <1>1, <2>1, <2>5 DEF AvailableAt
    <3> QED
      BY <1>1, <1>3, <2>5, <3>1, AvailableNext
  <2> DEFINE env == [old EXCEPT ![x] = value]
  <2>6. Related(cur, rep, b, i, env, new)
    <3>1. env = [y \in code.temps \cup Local |-> env[y]] /\ (\A y \in code.temps \cup Local : y # x => env[y] = old[y])
          /\ env[x] = value
      BY <1>3, <2>1
    <3>2. \A y \in Local : Fits(env[y], new, cur[b][i][y])
      BY <1>2, <1>3, <2>1, <2>3, <2>4, <3>1
    <3>3. \A t : AvailableAt(t, b, i + 1) => Fits(env[t], new, rep[t])
      BY <1>1, <2>1, <2>5, <3>1
    <3> HIDE DEF env
    <3> QED
      BY <1>3, <3>1, <3>2, <3>3 DEF Related
  <2> HIDE DEF env
  <2>7. next.env = env /\ next.out = r.out
    BY <2>2 DEF env
  <2> QED
    BY <2>6, <2>7 DEF Alike
<1>5. CASE stmt.op = "load"
  <2> DEFINE t == stmt.dest
  <2>1. PICK x \in Local : stmt.args = <<Named(x)>>
    BY <1>1, <1>5 DEF OfLocals
  <2>2. t \in code.temps /\ stmt.args[1].v = x
    BY <1>1, <1>5, <2>1 DEF OfLocals, Named
  <2> DEFINE env == [old EXCEPT ![t] = old[x]]
  <2>3. next.env = env /\ next.out = r.out
    <3>1. Computed(old, "load", [j \in DOMAIN stmt.args |-> ValueOf(old, stmt.args[j])], Zeros[Len(r.out) + 1]) = old[x]
      BY <2>1 DEF Computed, ValueOf, Named
    <3>2. t \in DOMAIN old
      BY <1>3, <2>2
    <3>3. next = [env |-> env, out |-> r.out]
      <4> HIDE DEF old
      <4> QED
        BY <1>5, <3>1, <3>2 DEF Executed, old
    <3> QED
      BY <3>3
  <2>4. cur[b][i] = cur[b][i - 1] /\ rep[t] = cur[b][i - 1][x]
    BY <1>2, <1>5, <2>2 DEF Step
  <2>5. env = [y \in code.temps \cup Local |-> env[y]] /\ (\A y \in code.temps \cup Local : y # t => env[y] = old[y])
        /\ env[t] = old[x]
    BY <1>3, <2>2
  <2>6. \A y \in Local : Fits(env[y], new, cur[b][i][y])
    BY <1>1, <1>3, <2>2, <2>4, <2>5
  <2>7. ASSUME NEW u, AvailableAt(u, b, i + 1) PROVE Fits(env[u], new, rep[u])
    <3>1. CASE u = t
      BY <1>3, <2>4, <2>5, <3>1
    <3>2. CASE u # t
      <4>1. u \in code.temps /\ AvailableAt(u, b, i)
        BY <1>1, <2>7, <3>2, AvailableNext DEF AvailableAt
      <4> QED
        BY <1>3, <2>5, <3>2, <4>1
    <3> QED
      BY <3>1, <3>2
  <2> HIDE DEF env
  <2>8. Related(cur, rep, b, i, env, new)
    BY <1>3, <2>5, <2>6, <2>7 DEF Related
  <2> QED
    BY <2>3, <2>8 DEF Alike
<1> QED
  BY <1>4, <1>5 DEF Leaves

\* A statement that stays does the same in both.
LEMMA KeptStep ==
  ASSUME code \in Programs, NEW V \in SUBSET Block, NEW cur, NEW rep, Traced(cur, rep, V, Null, 0),
         \A d \in V : \A e \in Block : <<e, d>> \in Domi => e \in V,
         NEW b \in V, NEW i \in 1..Size(b), ~Leaves(code.data[b][i]), NEW r, NEW s,
         Alike(cur, rep, b, i - 1, r, s)
  PROVE  Alike(cur, rep, b, i, Executed(r, code.data[b][i], Zeros), Executed(s, SubStmt(rep, code.data[b][i]), Zeros))
<1> DEFINE stmt == code.data[b][i]
           op == stmt.op
           dest == stmt.dest
           old == r.env
           new == s.env
           D == DOMAIN stmt.args
           u == [j \in D |-> ValueOf(old, stmt.args[j])]
           v == [j \in D |-> ValueOf(new, Sub(rep, stmt.args[j]))]
           given == Computed(old, op, u, Zeros[Len(r.out) + 1])
           now == Computed(new, op, v, Zeros[Len(s.out) + 1])
           oldNext == [x \in DOMAIN old |-> IF x = dest THEN given ELSE old[x]]
           newNext == [x \in DOMAIN new |-> IF x = dest THEN now ELSE new[x]]
           rOut == IF op \in {"call", "usercall"} THEN Append(r.out, u) ELSE r.out
           sOut == IF op \in {"call", "usercall"} THEN Append(s.out, v) ELSE s.out
<1>1. /\ b \in Block /\ Size(b) \in Nat /\ i \in Nat /\ i - 1 \in Nat /\ (i - 1) + 1 = i /\ i \in DOMAIN code.data[b]
      /\ StatementOK(code, b, i) /\ OneDefinition(code)
      /\ code.temps \cap (Local \cup AllNewPhis \cup {Null}) = {} /\ Null \notin Local \cup AllNewPhis
      /\ \A t \in code.temps : Named(t) # Null
  <2>1. b \in Block /\ Size(b) \in Nat /\ DOMAIN code.data[b] = 1..Size(b)
    BY CodeFacts DEF Size
  <2>2. /\ StatementOK(code, b, i) /\ OneDefinition(code)
        /\ code.temps \cap (Local \cup AllNewPhis \cup {Null}) = {} /\ Null \notin Local \cup AllNewPhis
    BY <2>1, StatementsAssumption, NullAssumption
  <2>3. \A t \in code.temps : Named(t) # Null
    BY NullAssumption
  <2> QED
    BY <2>1, <2>2, <2>3
<1>2. /\ op \notin Memory \cup {"store", "load"} /\ dest \in code.temps \cup {Null}
      /\ stmt = Stmt(op, dest, stmt.args) /\ stmt.args \in Seq(Range(stmt.args))
      /\ \A j \in D : MayUse(code, stmt.args[j], b, i)
  BY <1>1 DEF StatementOK, Leaves
<1>3. /\ old = [y \in code.temps \cup Local |-> old[y]]
      /\ new = [y \in code.temps \cup AllNewPhis |-> new[y]]
      /\ \A x \in Local : Fits(old[x], new, cur[b][i - 1][x])
      /\ \A t : AvailableAt(t, b, i) => Fits(old[t], new, rep[t])
      /\ Outs(r.out) /\ Outs(s.out) /\ Agrees(r.out, s.out)
  BY <1>1 DEF Alike, Related
<1>4. Executed(r, stmt, Zeros) = [env |-> oldNext, out |-> rOut]
  <2>1. op # "write" /\ op # "allocate"
    BY <1>2 DEF Memory
  <2> HIDE DEF op, dest, given, u
  <2> QED
    BY <2>1 DEF Executed, op, dest, given, u
<1>5. Executed(s, SubStmt(rep, stmt), Zeros) = [env |-> newNext, out |-> sOut]
  <2> DEFINE sub == SubStmt(rep, stmt)
  <2>1. op # "write" /\ op # "allocate"
    BY <1>2 DEF Memory
  <2>2. sub.op = op /\ sub.dest = dest
    BY DEF SubStmt, Stmt
  <2>3. [j \in DOMAIN sub.args |-> ValueOf(new, sub.args[j])] = v
    BY DEF SubStmt, Stmt, AllSub
  <2> HIDE DEF op, dest, now, v, sub
  <2>4. Executed(s, sub, Zeros) = [env |-> newNext, out |-> sOut]
    BY <2>1, <2>2, <2>3 DEF Executed, now
  <2> QED
    BY <2>4 DEF sub
<1>6. \A j \in D : u[j] \in {Null, v[j]}
  <2> TAKE j \in D
  <2>1. MayUse(code, stmt.args[j], b, (i - 1) + 1) /\ Related(cur, rep, b, i - 1, old, new)
    BY <1>1, <1>2 DEF Alike
  <2> HIDE DEF stmt, old, new, D
  <2>2. ValueOf(old, stmt.args[j]) \in {Null, ValueOf(new, Sub(rep, stmt.args[j]))}
    BY <1>1, <2>1, OperandFits
  <2> QED
    BY <2>2
<1>7. given \in {Null, now}
  <2>1. Len(r.out) = Len(s.out)
    BY <1>3 DEF Agrees
  <2>2. u = [j \in D |-> u[j]] /\ v = [j \in D |-> v[j]]
    OBVIOUS
  <2> HIDE DEF u, v, op, D
  <2> QED
    BY <1>2, <1>6, <2>1, <2>2, ComputedFits
<1>8. Outs(rOut) /\ Outs(sOut) /\ Agrees(rOut, sOut)
  <2>1. Len(u) = Len(v)
    <3>1. D = 1..Len(stmt.args) /\ Len(stmt.args) \in Nat
      BY <1>2
    <3>2. Len(u) = Len(stmt.args) /\ Len(v) = Len(stmt.args)
      <4> HIDE DEF stmt
      <4>1. u = [j \in 1..Len(stmt.args) |-> u[j]] /\ v = [j \in 1..Len(stmt.args) |-> v[j]]
        BY <3>1
      <4> HIDE DEF u, v
      <4> QED
        BY <3>1, <4>1, IsSequence
    <3> QED
      BY <3>2
  <2>2. DOMAIN u = D
    OBVIOUS
  <2> HIDE DEF u, v, D
  <2>3. Agrees(Append(r.out, u), Append(s.out, v)) /\ Outs(Append(r.out, u)) /\ Outs(Append(s.out, v))
    BY <1>3, <1>6, <2>1, <2>2, AgreesAppended, OutsAppended
  <2> QED
    BY <1>3, <2>3
<1> HIDE DEF given, now, rOut, sOut
<1>9. /\ oldNext = [y \in code.temps \cup Local |-> oldNext[y]]
      /\ newNext = [y \in code.temps \cup AllNewPhis |-> newNext[y]]
      /\ \A y \in code.temps \cup Local : y # dest => oldNext[y] = old[y]
      /\ \A y \in code.temps \cup AllNewPhis : y # dest => newNext[y] = new[y]
      /\ dest \in code.temps => oldNext[dest] = given /\ newNext[dest] = now
  <2> HIDE DEF old, new, dest
  <2>1. CASE dest \in code.temps
    BY <1>3, <2>1
  <2>2. CASE dest = Null
    <3>1. dest \notin DOMAIN old /\ dest \notin DOMAIN new /\ dest \notin code.temps
      BY <1>1, <1>3, <2>2
    <3> QED
      BY <1>3, <3>1
  <2> QED
    BY <1>2, <2>1, <2>2
<1> HIDE DEF oldNext, newNext
<1>10. IsDone(V, Null, 0, b, i) /\ Step(cur, rep, b, i) /\ \A x \in Local : Present(cur[b][i - 1][x], b, i)
  <2>1. IsDone(V, Null, 0, b, i) /\ IsDone(V, Null, 0, b, i - 1) /\ i - 1 \in 0..Size(b)
    BY <1>1 DEF IsDone
  <2>2. \A x \in Local : Present(cur[b][i - 1][x], b, (i - 1) + 1)
    BY <1>1, <2>1 DEF Traced
  <2> QED
    BY <1>1, <2>1, <2>2 DEF Traced
<1>11. cur[b][i] = cur[b][i - 1]
  BY <1>2, <1>10 DEF Step
<1>12. ASSUME NEW w, w # Null, Present(w, b, i) PROVE ValueOf(newNext, w) = ValueOf(new, w)
  <2>1. dest \notin AllNewPhis
    BY <1>1, <1>2
  <2>2. code.data[b][i].dest \notin AllNewPhis
        /\ \A y \in code.temps \cup AllNewPhis : y # code.data[b][i].dest => newNext[y] = new[y]
    BY <1>9, <2>1
  <2> HIDE DEF new
  <2> QED
    BY <1>1, <1>12, <2>2, StatementKeeps
<1>13. ASSUME NEW x, NEW w, Present(w, b, i), Fits(x, new, w) PROVE Fits(x, newNext, w)
  BY <1>12, <1>13 DEF Fits
<1>14. ASSUME NEW x \in Local PROVE Fits(oldNext[x], newNext, cur[b][i][x])
  <2>1. oldNext[x] = old[x]
    BY <1>1, <1>2, <1>9
  <2> QED
    BY <1>3, <1>10, <1>11, <1>13, <2>1
<1>15. ASSUME NEW t, AvailableAt(t, b, i + 1) PROVE Fits(oldNext[t], newNext, rep[t])
  <2>1. t \in code.temps
    BY <1>15 DEF AvailableAt
  <2>2. CASE t = dest
    <3>1. rep[t] = Named(t)
      <4>1. t \notin LoadTemps
        <5> SUFFICES ASSUME t \in LoadTemps PROVE FALSE
          OBVIOUS
        <5>1. PICK d \in Block : \E j \in DOMAIN code.data[d] : code.data[d][j].op = "load" /\ code.data[d][j].dest = t
          BY DEF LoadTemps
        <5>2. PICK j \in DOMAIN code.data[d] : code.data[d][j].op = "load" /\ code.data[d][j].dest = t
          BY <5>1
        <5>3. b = d /\ i = j
          BY <1>1, <2>1, <2>2, <5>2 DEF OneDefinition
        <5> QED
          BY <1>2, <5>2, <5>3
      <4> QED
        BY <2>1, <4>1, RepFacts
    <3>2. oldNext[t] = given /\ ValueOf(newNext, Named(t)) = now
      BY <1>9, <2>1, <2>2 DEF ValueOf, Named
    <3> QED
      BY <1>1, <1>7, <2>1, <3>1, <3>2 DEF Fits
  <2>3. CASE t # dest
    <3>1. AvailableAt(t, b, i)
      BY <1>1, <1>15, <2>3, AvailableNext
    <3>2. Present(rep[t], b, i)
      <4>1. MayUse(code, Named(t), b, i) /\ Sub(rep, Named(t)) = rep[t]
        BY <2>1, <3>1 DEF MayUse, AvailableAt, Named, Sub
      <4>2. \A d \in Block : \A j \in 1..Size(d) : IsBefore(d, j, b, i) => IsDone(V, Null, 0, d, j)
        BY DEF IsBefore, IsDone, Above
      <4>3. i \in 1..(Size(b) + 1)
        BY <1>1
      <4> QED
        BY <1>1, <4>1, <4>2, <4>3, UsePresent
    <3>3. oldNext[t] = old[t]
      BY <1>9, <2>1, <2>3
    <3> QED
      BY <1>3, <1>13, <3>1, <3>2, <3>3
  <2> QED
    BY <2>2, <2>3
<1>16. Related(cur, rep, b, i, oldNext, newNext)
  BY <1>9, <1>14, <1>15 DEF Related
<1>17. Executed(r, stmt, Zeros).env = oldNext /\ Executed(r, stmt, Zeros).out = rOut
  BY <1>4
<1>18. Executed(s, SubStmt(rep, stmt), Zeros).env = newNext /\ Executed(s, SubStmt(rep, stmt), Zeros).out = sOut
  BY <1>5
<1> HIDE DEF stmt
<1>19. Alike(cur, rep, b, i, Executed(r, stmt, Zeros), Executed(s, SubStmt(rep, stmt), Zeros))
  BY <1>8, <1>16, <1>17, <1>18 DEF Alike
<1> QED
  BY <1>19 DEF stmt

\* What dominates a block of V is in V.
UpClosed(V) == \A d \in V : \A e \in Block : <<e, d>> \in Domi => e \in V

\* A block, if all is well when its phi statements have been run.
LEMMA BlockAlike ==
  ASSUME code \in Programs, NEW V \in SUBSET Block, UpClosed(V), NEW cur, NEW rep, Traced(cur, rep, V, Null, 0),
         NEW b \in V, NEW env, NEW other, NEW phis, NEW from,
         Related(cur, rep, b, 0, Start(env, code.phi[b], from).env, Start(other, phis, from).env)
  PROVE  /\ Related(cur, rep, b, Size(b), RunBlock(env, code.phi[b], code.data[b], from, Zeros).env,
                    RunBlock(other, phis, KeptOf(rep, b), from, Zeros).env)
         /\ Agrees(RunBlock(env, code.phi[b], code.data[b], from, Zeros).out,
                   RunBlock(other, phis, KeptOf(rep, b), from, Zeros).out)
<1> DEFINE n == Size(b)
           l == Len(Left(b))
           body == KeptOf(rep, b)
<1>1. b \in Block /\ n \in Nat /\ n = Len(code.data[b])
  BY CodeFacts DEF Size
<1>2. Left(b) \in Seq(1..n) /\ l \in Nat /\ \E m : Counts(m, Left(b), code.data[b], n)
  BY <1>1, StayingFacts DEF Left
<1>3. PICK m : Counts(m, Left(b), code.data[b], n)
  BY <1>2
<1>4. Len(body) = l /\ \A k \in 1..l : body[k] = SubStmt(rep, code.data[b][Left(b)[k]])
  <2>1. body = [k \in 1..l |-> body[k]] /\ \A k \in 1..l : body[k] = SubStmt(rep, code.data[b][Left(b)[k]])
    BY DEF KeptOf
  <2> HIDE DEF body, l
  <2> QED
    BY <1>2, <2>1, IsSequence
<1> HIDE DEF body, l, n
<1>5. PICK at : Runs(at, env, code.phi[b], code.data[b], n, from)
  BY <1>1, BlockIsRun
<1>6. PICK now : Runs(now, other, phis, body, l, from)
  BY <1>2, <1>4, BlockIsRun
<1> USE DEF Runs
<1> DEFINE S == {k \in Nat : k \in 0..n => Alike(cur, rep, b, k, at[k], now[m[k]])}
<1>7. 0 \in S
  <2>1. m[0] = 0
    BY <1>3 DEF Counts
  <2>2. at[0].out = <<>> /\ now[0].out = <<>>
    BY <1>5, <1>6 DEF Start
  <2>3. Outs(<<>>) /\ Agrees(<<>>, <<>>)
    BY DEF Outs, Agrees
  <2> QED
    BY <1>5, <1>6, <2>1, <2>2, <2>3 DEF Alike
<1>8. ASSUME NEW k \in Nat, k \in S PROVE k + 1 \in S
  <2> SUFFICES ASSUME k + 1 \in 0..n PROVE Alike(cur, rep, b, k + 1, at[k + 1], now[m[k + 1]])
    OBVIOUS
  <2>1. k \in 0..n /\ k + 1 \in 1..n /\ (k + 1) - 1 = k /\ Alike(cur, rep, b, k, at[k], now[m[k]])
    BY <1>1, <1>8
  <2>2. at[k + 1] = Executed(at[k], code.data[b][k + 1], Zeros)
    BY <1>5, <2>1
  <2>3. k + 1 \in 1..Size(b) /\ Alike(cur, rep, b, (k + 1) - 1, at[k], now[m[k]])
    BY <2>1 DEF n
  <2> HIDE DEF S
  <2>4. CASE Leaves(code.data[b][k + 1])
    <3>1. m[k + 1] = m[k]
      BY <1>3, <2>1, <2>4 DEF Counts
    <3>2. Alike(cur, rep, b, k + 1, Executed(at[k], code.data[b][k + 1], Zeros), now[m[k]])
      BY <2>3, <2>4, GoneStep
    <3> QED
      BY <2>2, <3>1, <3>2
  <2>5. CASE ~Leaves(code.data[b][k + 1])
    <3>1. m[k + 1] = m[k] + 1 /\ Left(b)[m[k + 1]] = k + 1 /\ m[k + 1] <= l /\ m[k] \in Nat
      BY <1>3, <2>1, <2>5 DEF Counts, l
    <3>2. m[k + 1] \in 1..l /\ m[k + 1] - 1 = m[k]
      BY <1>2, <3>1
    <3>3. now[m[k + 1]] = Executed(now[m[k]], SubStmt(rep, code.data[b][k + 1]), Zeros)
      BY <1>4, <1>6, <3>1, <3>2
    <3>4. Alike(cur, rep, b, k + 1, Executed(at[k], code.data[b][k + 1], Zeros),
                Executed(now[m[k]], SubStmt(rep, code.data[b][k + 1]), Zeros))
      BY <2>3, <2>5, KeptStep DEF UpClosed
    <3> QED
      BY <2>2, <3>3, <3>4
  <2> QED
    BY <2>4, <2>5
<1>9. Alike(cur, rep, b, n, at[n], now[l])
  <2>1. n \in S
    <3> HIDE DEF S
    <3> QED
      BY <1>1, <1>7, <1>8, Induction
  <2>2. m[n] = l /\ n \in 0..n
    BY <1>1, <1>3 DEF Counts, l
  <2> QED
    BY <2>1, <2>2
<1> QED
  BY <1>5, <1>6, <1>9 DEF Alike, n, body

(***************************************************************************)
(* The way into a block.                                                   *)
(***************************************************************************)
IsEntered(D, env, next, phis, from) ==
  /\ next = [y \in D |-> next[y]]
  /\ \A i \in DOMAIN phis : next[phis[i].dest] = ValueOf(env, phis[i].from[from])
  /\ \A y \in D : (\A i \in DOMAIN phis : phis[i].dest # y) => next[y] = env[y]

Enterable(D, env, phis) ==
  /\ env = [y \in D |-> env[y]]
  /\ \A i \in DOMAIN phis : phis[i].dest \in D
  /\ \A i, j \in DOMAIN phis : phis[i].dest = phis[j].dest => i = j

LEMMA EnteredIs ==
  ASSUME NEW D, NEW env, NEW phis, Enterable(D, env, phis), NEW from
  PROVE  IsEntered(D, env, Entered(env, phis, from), phis, from)
<1> USE DEF Enterable
<1> DEFINE dests == {phis[i].dest : i \in DOMAIN phis}
           of(x) == CHOOSE i \in DOMAIN phis : phis[i].dest = x
           next == [x \in D |-> IF x \in dests THEN ValueOf(env, phis[of(x)].from[from]) ELSE env[x]]
<1>1. DOMAIN env = D
  OBVIOUS
<1>2. Entered(env, phis, from) = next
  BY <1>1 DEF Entered
<1>3. \A i \in DOMAIN phis : of(phis[i].dest) = i
  OBVIOUS
<1>4. \A i \in DOMAIN phis : next[phis[i].dest] = ValueOf(env, phis[i].from[from])
  BY <1>3
<1>5. \A y \in D : (\A i \in DOMAIN phis : phis[i].dest # y) => next[y] = env[y]
  OBVIOUS
<1>6. next = [y \in D |-> next[y]]
  OBVIOUS
<1> HIDE DEF next
<1> QED
  BY <1>2, <1>4, <1>5, <1>6 DEF IsEntered

LEMMA SetToSeqFacts ==
  ASSUME NEW S, IsFiniteSet(S)
  PROVE  /\ SetToSeq(S) \in Seq(S)
         /\ \A x \in S : \E i \in 1..Len(SetToSeq(S)) : SetToSeq(S)[i] = x
         /\ \A i, j \in 1..Len(SetToSeq(S)) : SetToSeq(S)[i] = SetToSeq(S)[j] => i = j
<1> DEFINE n == Cardinality(S)
           f == SetToSeq(S)
<1>1. n \in Nat /\ ExistsBijection(1..n, S)
  BY FS_CardinalityType
<1>2. \E g \in [1..n -> S] : IsInjective(g)
  BY <1>1 DEF ExistsBijection, Bijection, Injection
<1>3. f \in [1..n -> S] /\ IsInjective(f)
  BY <1>2 DEF SetToSeq
<1> HIDE DEF f
<1>4. f \in Injection(1..n, S)
  BY <1>3 DEF Injection
<1>5. Cardinality(1..n) = n
  BY <1>1, FS_Interval
<1>6. f \in Surjection(1..n, S)
  BY <1>4, <1>5, FS_Injection
<1>7. f \in Seq(S) /\ Len(f) = n /\ DOMAIN f = 1..n
  BY <1>1, <1>3
<1> HIDE DEF n
<1>8. \A x \in S : \E i \in 1..n : f[i] = x
  BY <1>6 DEF Surjection
<1>9. \A i, j \in 1..n : f[i] = f[j] => i = j
  BY <1>3, <1>7 DEF IsInjective
<1> QED
  BY <1>7, <1>8, <1>9 DEF f

\* What insertPhi makes of the phi statements of a block.
PhisAfter(rep, b) == PhiOf(rep, b) \o SetToSeq(NewPhis(b))

OldPhi(rep, b, j) == Phi(code.phi[b][j].dest, AllSub(rep, code.phi[b][j].from))

LEMMA PhisAfterAre ==
  ASSUME code \in Programs, Promoted, NEW b \in Block, NEW rep
  PROVE  /\ \A j \in DOMAIN code.phi[b] : \E i \in DOMAIN PhisAfter(rep, b) :
              PhisAfter(rep, b)[i] = OldPhi(rep, b, j)
         /\ \A x \in phiMap[b] : \E i \in DOMAIN PhisAfter(rep, b) :
              PhisAfter(rep, b)[i] = Phi(NewPhi(b, x), filled[b][x])
         /\ \A i \in DOMAIN PhisAfter(rep, b) :
              \/ \E j \in DOMAIN code.phi[b] : PhisAfter(rep, b)[i] = OldPhi(rep, b, j)
              \/ \E x \in phiMap[b] : PhisAfter(rep, b)[i] = Phi(NewPhi(b, x), filled[b][x])
         /\ \A i, j \in DOMAIN PhisAfter(rep, b) :
              PhisAfter(rep, b)[i].dest = PhisAfter(rep, b)[j].dest => i = j
<1> DEFINE s == PhiOf(rep, b)
           t == SetToSeq(NewPhis(b))
           S == NewPhis(b)
           n == Len(code.phi[b])
           all == s \o t
           New(x) == Phi(NewPhi(b, x), filled[b][x])
<1>1. /\ OneDefinition(code) /\ code.temps \cap AllNewPhis = {} /\ n \in Nat /\ DOMAIN code.phi[b] = 1..n
      /\ \A j \in 1..n : code.phi[b][j].dest \in code.temps
  <2>1. /\ OneDefinition(code) /\ code.temps \cap AllNewPhis = {} /\ code.phi[b] \in Seq(Range(code.phi[b]))
    BY StatementsAssumption
  <2>2. \A j \in DOMAIN code.phi[b] : code.phi[b][j].dest \in code.temps
    BY PhiIsNoLoad
  <2> QED
    BY <2>1, <2>2
<1>2. IsFiniteSet(S)
  <2> DEFINE f == [x \in phiMap[b] |-> New(x)]
  <2>1. IsFiniteSet(phiMap[b])
    BY ProgramsAssumption, FS_Subset DEF Promoted
  <2>2. f \in Surjection(phiMap[b], S)
    BY DEF Surjection, NewPhis
  <2> HIDE DEF f, S
  <2> QED
    BY <2>1, <2>2, FS_Surjection
<1>3. /\ t \in Seq(S) /\ (\A x \in S : \E i \in 1..Len(t) : t[i] = x)
      /\ \A i, j \in 1..Len(t) : t[i] = t[j] => i = j
  BY <1>2, SetToSeqFacts
<1>4. DOMAIN s = 1..n /\ Len(s) = n /\ s \in Seq(Range(s)) /\ \A j \in 1..n : s[j] = OldPhi(rep, b, j)
  <2>1. s = [j \in 1..n |-> s[j]] /\ \A j \in 1..n : s[j] = OldPhi(rep, b, j)
    BY DEF PhiOf, OldPhi
  <2> HIDE DEF s, n
  <2> QED
    BY <1>1, <2>1, IsSequence
<1> DEFINE l == Len(t)
<1>5. /\ l \in Nat /\ DOMAIN all = 1..(n + l)
      /\ \A i \in 1..n : all[i] = s[i]
      /\ \A i \in 1..l : all[n + i] = t[i]
      /\ \A i \in 1..l : t[i] \in S
  <2> DEFINE T == Range(s) \cup S
  <2>1. s \in Seq(T) /\ t \in Seq(T)
    <3>1. (\A i \in 1..n : s[i] \in T) /\ \A i \in 1..Len(t) : t[i] \in T
      BY <1>3, <1>4 DEF Range
    <3> HIDE DEF T, s, t, S
    <3> QED
      BY <1>3, <1>4, <3>1
  <2> HIDE DEF T, s, t, S, n
  <2>2. l \in Nat /\ Len(s) = n /\ n \in Nat /\ \A i \in 1..l : t[i] \in S
    BY <1>1, <1>3, <1>4
  <2>3. /\ all \in Seq(T) /\ Len(all) = Len(s) + Len(t)
        /\ \A i \in 1..Len(s) + Len(t) : all[i] = IF i <= Len(s) THEN s[i] ELSE t[i - Len(s)]
    BY <2>1, ConcatProperties
  <2> HIDE DEF all, l
  <2>4. DOMAIN all = 1..(n + l) /\ \A i \in 1..(n + l) : all[i] = IF i <= n THEN s[i] ELSE t[i - n]
    BY <2>2, <2>3 DEF l
  <2>5. \A i \in 1..l : all[n + i] = t[i]
    <3> TAKE i \in 1..l
    <3>1. n + i \in 1..(n + l) /\ ~(n + i <= n) /\ (n + i) - n = i
      BY <2>2
    <3> QED
      BY <2>4, <3>1
  <2> QED
    BY <2>2, <2>4, <2>5
<1>6. /\ \A x \in phiMap[b] : New(x) \in S /\ NewPhi(b, x) \in AllNewPhis
      /\ \A r \in S : \E x \in phiMap[b] : r = New(x)
      /\ \A x, y : NewPhi(b, x) = NewPhi(b, y) => x = y
  BY DEF NewPhis, Promoted, AllNewPhis, NewPhi
<1>7. \A dest, from : Phi(dest, from).dest = dest
  BY DEF Phi
<1> HIDE DEF s, t, S, l, all, n
<1>8. \A i \in DOMAIN all : i \in 1..n \/ \E k \in 1..l : i = n + k
  <2> SUFFICES ASSUME NEW i \in 1..(n + l), i \notin 1..n PROVE \E k \in 1..l : i = n + k
    BY <1>5
  <2>1. i - n \in 1..l /\ i = n + (i - n)
    BY <1>1, <1>5
  <2> QED
    BY <2>1
<1>9. \A j \in 1..n : j \in DOMAIN all /\ all[j] = OldPhi(rep, b, j)
  BY <1>1, <1>4, <1>5
<1>10. ASSUME NEW x \in phiMap[b] PROVE \E i \in DOMAIN all : all[i] = New(x)
  <2>1. PICK k \in 1..l : t[k] = New(x)
    BY <1>3, <1>6 DEF l
  <2>2. n + k \in DOMAIN all /\ all[n + k] = New(x)
    BY <1>1, <1>5, <2>1
  <2> QED
    BY <2>2
<1>11. ASSUME NEW k \in 1..l PROVE \E x \in phiMap[b] : all[n + k] = New(x)
  BY <1>5, <1>6
<1>12. \A i \in 1..n : all[i].dest = code.phi[b][i].dest /\ all[i].dest \notin AllNewPhis
  BY <1>1, <1>7, <1>9 DEF OldPhi
<1>13. \A k \in 1..l : all[n + k].dest \in AllNewPhis
  <2> TAKE k \in 1..l
  <2>1. PICK x \in phiMap[b] : all[n + k] = New(x)
    BY <1>11
  <2> QED
    BY <1>6, <1>7, <2>1
<1>14. ASSUME NEW i \in DOMAIN all, NEW j \in DOMAIN all, all[i].dest = all[j].dest PROVE i = j
  <2>1. CASE i \in 1..n /\ j \in 1..n
    BY <1>1, <1>12, <1>14, <2>1 DEF OneDefinition
  <2>2. CASE i \notin 1..n /\ j \notin 1..n
    <3>1. PICK k \in 1..l : i = n + k
      BY <1>8, <2>2
    <3>2. PICK h \in 1..l : j = n + h
      BY <1>8, <2>2
    <3>3. PICK x \in phiMap[b] : t[k] = New(x) /\ all[i] = t[k]
      BY <1>5, <1>11, <3>1
    <3>4. PICK y \in phiMap[b] : t[h] = New(y) /\ all[j] = t[h]
      BY <1>5, <1>11, <3>2
    <3>5. x = y
      BY <1>6, <1>7, <1>14, <3>3, <3>4
    <3> QED
      BY <1>3, <3>1, <3>2, <3>3, <3>4, <3>5 DEF l
  <2>3. CASE ~(i \in 1..n <=> j \in 1..n)
    BY <1>8, <1>12, <1>13, <1>14, <2>3
  <2> QED
    BY <2>1, <2>2, <2>3
<1>15. \A i \in DOMAIN all : (\E j \in 1..n : all[i] = OldPhi(rep, b, j)) \/ \E x \in phiMap[b] : all[i] = New(x)
  BY <1>8, <1>9, <1>11
<1> QED
  <2>1. PhisAfter(rep, b) = all
    BY DEF PhisAfter, all, s, t
  <2> QED
    BY <1>1, <1>9, <1>10, <1>14, <1>15, <2>1

\* Only what the phi statements of b define differs.
SameOutside(b, new, next) ==
  \A y \in code.temps \cup AllNewPhis :
    y \in {code.phi[b][j].dest : j \in DOMAIN code.phi[b]} \cup {NewPhi(b, x) : x \in Local} \/ next[y] = new[y]

\* What was present above the block is not what its phi statements define.
LEMMA EntryKeeps ==
  ASSUME code \in Programs, NEW b \in Block, NEW g \in Block, Above(g, b),
         NEW v, v # Null, Present(v, g, Size(g) + 1), NEW new, NEW next,
         SameOutside(b, new, next)
  PROVE  ValueOf(next, v) = ValueOf(new, v)
<1> USE DEF SameOutside
<1>1. Size(g) + 1 \in 1..(Size(g) + 1) /\ code.temps \cap AllNewPhis = {}
  <2>1. Size(g) \in Nat
    BY CodeFacts DEF Size
  <2>2. code.temps \cap AllNewPhis = {}
    BY StatementsAssumption
  <2> QED
    BY <2>1, <2>2
<1>2. <<b, g>> \notin Domi /\ <<g, b>> \in Domi /\ g # b
  BY DominanceFacts DEF Above
<1>3. ASSUME NEW t, AvailableAt(t, g, Size(g) + 1) PROVE next[t] = new[t]
  <2>1. t \in code.temps
    BY <1>3 DEF AvailableAt
  <2>2. ASSUME NEW j \in DOMAIN code.phi[b], t = code.phi[b][j].dest PROVE FALSE
    <3>1. b = g \/ Above(b, g)
      BY <1>1, <1>3, <2>2, PhiDefinedBefore
    <3> QED
      BY <1>2, <3>1 DEF Above
  <2>3. \A x \in Local : t # NewPhi(b, x)
    BY <1>1, <2>1 DEF AllNewPhis
  <2> QED
    BY <2>1, <2>2, <2>3
<1>4. ASSUME NEW d \in Block, NEW x \in Local, <<d, g>> \in Domi PROVE next[NewPhi(d, x)] = new[NewPhi(d, x)]
  <2>1. NewPhi(d, x) \in AllNewPhis /\ NewPhi(d, x) \notin code.temps
    BY <1>1 DEF AllNewPhis
  <2>2. \A j \in DOMAIN code.phi[b] : code.phi[b][j].dest \in code.temps
    BY PhiIsNoLoad
  <2>3. \A y \in Local : NewPhi(d, x) # NewPhi(b, y)
    BY <1>2, <1>4 DEF NewPhi
  <2> QED
    BY <2>1, <2>2, <2>3
<1>5. CASE v.k = "name"
  <2>1. \/ AvailableAt(v.v, g, Size(g) + 1)
        \/ \E d \in Block : \E x \in Local : v = Named(NewPhi(d, x)) /\ <<d, g>> \in Domi
    BY <1>5 DEF Present
  <2>2. \A y : Named(y).v = y
    BY DEF Named
  <2>3. CASE AvailableAt(v.v, g, Size(g) + 1)
    BY <1>3, <1>5, <2>3 DEF ValueOf
  <2>4. ASSUME NEW d \in Block, NEW x \in Local, v = Named(NewPhi(d, x)), <<d, g>> \in Domi
        PROVE  ValueOf(next, v) = ValueOf(new, v)
    <3>1. v.v = NewPhi(d, x)
      BY <2>2, <2>4
    <3>2. next[v.v] = new[v.v]
      BY <1>4, <2>4, <3>1
    <3> QED
      BY <1>5, <3>2 DEF ValueOf
  <2> QED
    BY <2>1, <2>3, <2>4
<1>6. CASE v.k # "name"
  BY <1>6 DEF Present, ValueOf
<1> QED
  BY <1>5, <1>6

\* What the new phi statements of b get from p.
Gets(cur, p, b) ==
  \A x \in phiMap[b] : filled[b][x][p] # Null /\ Same(filled[b][x][p], End(cur, p)[x])

\* The environments after the phi statements.
EntersOld(old, next, p, b) ==
  /\ next = [y \in code.temps \cup Local |-> next[y]]
  /\ \A j \in DOMAIN code.phi[b] : next[code.phi[b][j].dest] = ValueOf(old, code.phi[b][j].from[p])
  /\ \A y \in code.temps \cup Local :
       (\A j \in DOMAIN code.phi[b] : code.phi[b][j].dest # y) => next[y] = old[y]

EntersNew(rep, new, next, p, b) ==
  /\ next = [y \in code.temps \cup AllNewPhis |-> next[y]]
  /\ \A j \in DOMAIN code.phi[b] :
       next[code.phi[b][j].dest] = ValueOf(new, Sub(rep, code.phi[b][j].from[p]))
  /\ \A x \in phiMap[b] : next[NewPhi(b, x)] = ValueOf(new, filled[b][x][p])
  /\ SameOutside(b, new, next)

LEMMA EntersOldIs ==
  ASSUME code \in Programs, NEW b \in Block, NEW old, old = [y \in code.temps \cup Local |-> old[y]], NEW p
  PROVE  EntersOld(old, Entered(old, code.phi[b], p), p, b)
<1>1. \A i \in DOMAIN code.phi[b] : code.phi[b][i].dest \in code.temps \cup Local
  BY PhiIsNoLoad
<1>2. \A i, j \in DOMAIN code.phi[b] : code.phi[b][i].dest = code.phi[b][j].dest => i = j
  <2>1. OneDefinition(code)
    BY StatementsAssumption
  <2> QED
    BY <2>1 DEF OneDefinition
<1> DEFINE D == code.temps \cup Local
           phis == code.phi[b]
           next == Entered(old, phis, p)
<1>3. IsEntered(D, old, next, phis, p)
  <2> HIDE DEF D, phis
  <2>1. \A i \in DOMAIN phis : phis[i].dest \in D
    BY <1>1 DEF D, phis
  <2>2. \A i, j \in DOMAIN phis : phis[i].dest = phis[j].dest => i = j
    BY <1>2 DEF phis
  <2>3. old = [y \in D |-> old[y]]
    BY DEF D
  <2>4. Enterable(D, old, phis)
    BY <2>1, <2>2, <2>3 DEF Enterable
  <2> QED
    BY <2>4, EnteredIs
<1> HIDE DEF next
<1>4. EntersOld(old, next, p, b)
  BY <1>3 DEF EntersOld, IsEntered
<1> QED
  BY <1>4 DEF next

LEMMA EntersNewIs ==
  ASSUME code \in Programs, Promoted, NEW b \in Block, NEW rep, NEW new,
         new = [y \in code.temps \cup AllNewPhis |-> new[y]],
         NEW p \in Block, b \in Range(code.flow[p].to)
  PROVE  EntersNew(rep, new, Entered(new, PhisAfter(rep, b), p), p, b)
<1> DEFINE D == code.temps \cup AllNewPhis
           phis == PhisAfter(rep, b)
           next == Entered(new, phis, p)
<1>1. \A i \in DOMAIN phis :
        \/ \E j \in DOMAIN code.phi[b] : phis[i] = OldPhi(rep, b, j)
        \/ \E x \in phiMap[b] : phis[i] = Phi(NewPhi(b, x), filled[b][x])
  BY PhisAfterAre
<1>2. /\ \A j \in DOMAIN code.phi[b] : \E i \in DOMAIN phis : phis[i] = OldPhi(rep, b, j)
      /\ \A x \in phiMap[b] : \E i \in DOMAIN phis : phis[i] = Phi(NewPhi(b, x), filled[b][x])
      /\ \A i, j \in DOMAIN phis : phis[i].dest = phis[j].dest => i = j
  BY PhisAfterAre
<1> HIDE DEF phis
<1>3. \A j \in DOMAIN code.phi[b] : code.phi[b][j].dest \in code.temps /\ OldPhi(rep, b, j).dest = code.phi[b][j].dest
  BY PhiIsNoLoad DEF OldPhi, Phi
<1>4. \A x \in phiMap[b] : /\ x \in Local /\ NewPhi(b, x) \in AllNewPhis
                            /\ Phi(NewPhi(b, x), filled[b][x]).dest = NewPhi(b, x)
                            /\ Phi(NewPhi(b, x), filled[b][x]).from = filled[b][x]
  BY DEF AllNewPhis, Phi, Promoted
<1>5. \A i \in DOMAIN phis : phis[i].dest \in D
  BY <1>1, <1>3, <1>4
<1>6. \A j \in DOMAIN code.phi[b] : OldPhi(rep, b, j).from[p] = Sub(rep, code.phi[b][j].from[p])
  <2> TAKE j \in DOMAIN code.phi[b]
  <2>1. p \in DOMAIN code.phi[b][j].from
    <3>1. PhiOK(code, b, j)
      BY StatementsAssumption
    <3> QED
      BY <3>1 DEF PhiOK
  <2> QED
    BY <2>1 DEF OldPhi, Phi, AllSub
<1>7. IsEntered(D, new, next, phis, p)
  <2> HIDE DEF D
  <2>1. new = [y \in D |-> new[y]]
    BY DEF D
  <2>2. Enterable(D, new, phis)
    BY <1>2, <1>5, <2>1 DEF Enterable
  <2> QED
    BY <2>2, EnteredIs
<1> HIDE DEF next
<1> USE DEF IsEntered
<1>8. \A j \in DOMAIN code.phi[b] :
        next[code.phi[b][j].dest] = ValueOf(new, Sub(rep, code.phi[b][j].from[p]))
  <2> TAKE j \in DOMAIN code.phi[b]
  <2>1. PICK i \in DOMAIN phis : phis[i] = OldPhi(rep, b, j)
    BY <1>2
  <2> QED
    <3>1. phis[i].dest = code.phi[b][j].dest /\ phis[i].from[p] = Sub(rep, code.phi[b][j].from[p])
      BY <1>3, <1>6, <2>1
    <3>2. next[phis[i].dest] = ValueOf(new, phis[i].from[p])
      BY <1>7
    <3> QED
      BY ONLY <3>1, <3>2
<1>9. \A x \in phiMap[b] : next[NewPhi(b, x)] = ValueOf(new, filled[b][x][p])
  <2> TAKE x \in phiMap[b]
  <2>1. PICK i \in DOMAIN phis : phis[i] = Phi(NewPhi(b, x), filled[b][x])
    BY <1>2
  <2> QED
    <3>1. phis[i].dest = NewPhi(b, x) /\ phis[i].from[p] = filled[b][x][p]
      BY <1>4, <2>1
    <3>2. next[phis[i].dest] = ValueOf(new, phis[i].from[p])
      BY <1>7
    <3> QED
      BY ONLY <3>1, <3>2
<1>10. ASSUME NEW y \in D,
              y \notin {code.phi[b][j].dest : j \in DOMAIN code.phi[b]} \cup {NewPhi(b, x) : x \in Local}
       PROVE  next[y] = new[y]
  <2>1. \A i \in DOMAIN phis : phis[i].dest # y
    BY <1>1, <1>3, <1>4, <1>10
  <2> QED
    BY <1>7, <2>1
<1>11. EntersNew(rep, new, next, p, b)
  BY <1>7, <1>8, <1>9, <1>10 DEF EntersNew, SameOutside
<1> QED
  BY <1>11 DEF next, phis

\* In a set with all that dominates its blocks, a temporary that is available
\* has been replaced by something present.
LEMMA AllPresent ==
  ASSUME code \in Programs, NEW V \in SUBSET Block, UpClosed(V), NEW cur, NEW rep,
         Traced(cur, rep, V, Null, 0), NEW b \in V, NEW i \in 1..(Size(b) + 1), NEW t, AvailableAt(t, b, i)
  PROVE  Present(rep[t], b, i)
<1>1. ASSUME NEW d \in Block, NEW j \in 1..Size(d), IsBefore(d, j, b, i) PROVE IsDone(V, Null, 0, d, j)
  BY <1>1 DEF IsBefore, IsDone, UpClosed, Above
<1> DEFINE o == Named(t)
<1>2. o.k = "name" /\ o.v = t
  BY DEF Named
<1>3. MayUse(code, o, b, i) /\ Sub(rep, o) = rep[t]
  BY <1>2 DEF MayUse, AvailableAt, Sub
<1> HIDE DEF o
<1>4. Present(Sub(rep, o), b, i)
  BY <1>1, <1>3, UsePresent
<1> QED
  BY <1>3, <1>4

\* What a block has at its beginning, it has on the way in from any block.
LEMMA EntryIsEnd ==
  ASSUME Inv, stage # "def", queue = <<>>, NEW V \in SUBSET Block, UpClosed(V), NEW cur, NEW rep,
         Traced(cur, rep, V, Null, 0), Placed(cur, V),
         NEW p \in V, NEW b \in V, b \in Range(code.flow[p].to), NEW x \in Local, x \notin phiMap[b]
  PROVE  /\ Same(End(cur, p)[x], cur[b][0][x])
         /\ \/ cur[b][0][x] \in {Null, Undefined}
            \/ \E g \in Block : Above(g, b) /\ Present(cur[b][0][x], g, Size(g) + 1)
<1>1. code \in Programs
  BY DEF Inv, Shape
<1>2. Givers(x, b) \ {b} = Givers(x, p)
  BY EdgeGivers
<1>3. From(cur, x, Givers(x, b) \ {b}, cur[b][0][x])
  BY DEF Placed
<1>4. From(cur, x, Givers(x, p), End(cur, p)[x])
  BY <1>1, EndFrom
<1>5. Same(End(cur, p)[x], cur[b][0][x])
  BY <1>1, <1>2, <1>3, <1>4, FromIsUnique
<1>6. Givers(x, b) \ {b} \in SUBSET Givers(x, b) /\ Givers(x, b) \ {b} \subseteq V
  BY DEF Givers, UpClosed
<1>7. \/ cur[b][0][x] \in {Null, Undefined}
      \/ \E g \in Block : Above(g, b) /\ Present(cur[b][0][x], g, Size(g) + 1)
  BY <1>1, <1>3, <1>6, FromAbove
<1> QED
  BY <1>5, <1>7

\* If the runs were alike at the end of p, they are so where b begins.
LEMMA EntryRelated ==
  ASSUME Inv, Promoted, stage # "def", queue = <<>>, NEW V \in SUBSET Block, UpClosed(V), NEW cur, NEW rep,
         Traced(cur, rep, V, Null, 0), Placed(cur, V),
         NEW p \in V, NEW b \in V, b \in Range(code.flow[p].to), Gets(cur, p, b),
         NEW old, NEW new, Related(cur, rep, p, Size(p), old, new)
  PROVE  Related(cur, rep, b, 0, Entered(old, code.phi[b], p), Entered(new, PhisAfter(rep, b), p))
<1>1. code \in Programs
  BY DEF Inv, Shape
<1>2. PICK last : last = Entered(old, code.phi[b], p)
  OBVIOUS
<1>3. PICK next : next = Entered(new, PhisAfter(rep, b), p)
  OBVIOUS
<1>4. /\ old = [y \in code.temps \cup Local |-> old[y]]
      /\ new = [y \in code.temps \cup AllNewPhis |-> new[y]]
      /\ \A x \in Local : Fits(old[x], new, End(cur, p)[x])
      /\ \A t : AvailableAt(t, p, Size(p) + 1) => Fits(old[t], new, rep[t])
  BY DEF Related, End
<1>5. EntersOld(old, last, p, b)
  BY <1>1, <1>2, <1>4, EntersOldIs
<1>6. EntersNew(rep, new, next, p, b)
  BY <1>1, <1>3, <1>4, EntersNewIs
<1>7. ASSUME NEW v, NEW u, Fits(u, new, v), NEW g \in Block, Above(g, b), Present(v, g, Size(g) + 1)
      PROVE  Fits(u, next, v)
  <2>1. SameOutside(b, new, next)
    BY <1>6 DEF EntersNew
  <2>2. ASSUME v # Null PROVE ValueOf(next, v) = ValueOf(new, v)
    BY <1>1, <1>7, <2>1, <2>2, EntryKeeps
  <2> QED
    BY <1>7, <2>2 DEF Fits
<1>8. ASSUME NEW x \in Local PROVE Fits(last[x], next, cur[b][0][x])
  <2>1. last[x] = old[x]
    <3>1. \A j \in DOMAIN code.phi[b] : code.phi[b][j].dest # x
      <4>1. code.temps \cap Local = {}
        <5>1. code.temps \cap (Local \cup AllNewPhis \cup {Null}) = {}
          BY <1>1, StatementsAssumption
        <5> QED
          BY <5>1
      <4>2. \A j \in DOMAIN code.phi[b] : code.phi[b][j].dest \in code.temps
        BY <1>1, PhiIsNoLoad
      <4> QED
        BY <4>1, <4>2
    <3> QED
      BY <1>5, <3>1 DEF EntersOld
  <2>2. CASE x \in phiMap[b]
    <3>1. cur[b][0][x] = Named(NewPhi(b, x)) /\ Named(NewPhi(b, x)) # Null
      <4>1. NewPhi(b, x) \in AllNewPhis
        BY DEF AllNewPhis
      <4> QED
        BY <2>2, <4>1, NullAssumption DEF Placed
    <3>2. filled[b][x][p] # Null /\ Same(End(cur, p)[x], filled[b][x][p])
      BY <2>2 DEF Gets, Same
    <3>3. Fits(old[x], new, filled[b][x][p])
      BY <1>4, <3>2, FitsSame
    <3>4. next[NewPhi(b, x)] = ValueOf(new, filled[b][x][p])
      BY <1>6, <2>2 DEF EntersNew
    <3>5. ValueOf(next, Named(NewPhi(b, x))) = next[NewPhi(b, x)]
      BY DEF ValueOf, Named
    <3> QED
      BY <2>1, <3>1, <3>3, <3>4, <3>5 DEF Fits
  <2>3. CASE x \notin phiMap[b]
    <3>1. /\ Same(End(cur, p)[x], cur[b][0][x])
          /\ \/ cur[b][0][x] \in {Null, Undefined}
             \/ \E g \in Block : Above(g, b) /\ Present(cur[b][0][x], g, Size(g) + 1)
      BY <2>3, EntryIsEnd
    <3>2. Fits(old[x], new, cur[b][0][x])
      BY <1>4, <3>1, FitsSame
    <3>3. CASE cur[b][0][x] \in {Null, Undefined}
      <4>1. \A env : ValueOf(env, Undefined) = Null
        BY DEF ValueOf, Undefined
      <4>2. old[x] = Null
        BY <3>2, <3>3, <4>1 DEF Fits
      <4> QED
        BY <2>1, <4>2 DEF Fits
    <3>4. CASE \E g \in Block : Above(g, b) /\ Present(cur[b][0][x], g, Size(g) + 1)
      BY <1>7, <2>1, <3>2, <3>4
    <3> QED
      BY <3>1, <3>3, <3>4
  <2> QED
    BY <2>2, <2>3
<1>9. ASSUME NEW t, AvailableAt(t, b, 1) PROVE Fits(last[t], next, rep[t])
  <2>1. t \in code.temps
    BY <1>9 DEF AvailableAt
  <2>2. ASSUME NEW j \in DOMAIN code.phi[b], t = code.phi[b][j].dest PROVE Fits(last[t], next, rep[t])
    <3> DEFINE o == code.phi[b][j].from[p]
    <3>1. MayUse(code, o, p, Size(p) + 1)
      <4>1. PhiOK(code, b, j)
        BY <1>1, StatementsAssumption
      <4> QED
        BY <4>1 DEF PhiOK, Size
    <3>2. ValueOf(old, o) \in {Null, ValueOf(new, Sub(rep, o))}
      <4>1. Size(p) \in Nat
        BY <1>1, CodeFacts DEF Size
      <4> QED
        BY <3>1, <4>1, OperandFits
    <3>3. last[t] = ValueOf(old, o) /\ next[t] = ValueOf(new, Sub(rep, o))
      BY <1>5, <1>6, <2>2 DEF EntersOld, EntersNew
    <3>4. rep[t] = Named(t) /\ Named(t) # Null
      <4>1. t \in code.temps \ LoadTemps
        BY <1>1, <2>2, PhiIsNoLoad
      <4>2. rep[t] = Named(t)
        BY <1>1, <4>1, RepFacts
      <4> QED
        BY <1>1, <2>1, <4>2, NullAssumption
    <3>5. ValueOf(next, Named(t)) = next[t]
      BY DEF ValueOf, Named
    <3> QED
      BY <3>2, <3>3, <3>4, <3>5 DEF Fits
  <2>3. CASE \A j \in DOMAIN code.phi[b] : code.phi[b][j].dest # t
    <3>1. PICK d \in Block : Above(d, b) /\ AvailableAt(t, d, Size(d) + 1)
      <4>1. ~DefinedIn(code, t, b, 1)
        BY <2>3 DEF DefinedIn
      <4>2. PICK d \in Block : Above(d, b) /\ DefinedIn(code, t, d, Size(d) + 1)
        BY <1>9, <4>1, AvailableMeans DEF AvailableAt
      <4>3. AvailableAt(t, d, Size(d) + 1)
        BY <2>1, <4>2, AvailableMeans DEF AvailableAt
      <4> QED
        BY <4>2, <4>3
    <3>2. d \in V
      BY <3>1 DEF Above, UpClosed
    <3>3. d = p \/ Above(d, p)
      <4>1. <<p, b>> \in Ways
        BY <1>1, ShapeFacts, TargetFacts DEF Ways
      <4>2. <<d, p>> \in Domi
        BY <3>1, <4>1, DominatesPredecessors DEF Domi, Above, Node
      <4> QED
        BY <1>1, <4>2, AboveFacts
    <3>4. AvailableAt(t, p, Size(p) + 1)
      BY <1>1, <3>1, <3>3, AvailableBelow
    <3>5. Fits(old[t], new, rep[t]) /\ last[t] = old[t]
      BY <1>4, <1>5, <2>1, <2>3, <3>4 DEF EntersOld
    <3>6. Size(d) + 1 \in 1..(Size(d) + 1)
      <4>1. Size(d) \in Nat
        BY <1>1, CodeFacts DEF Size
      <4> QED
        BY <4>1
    <3>7. Present(rep[t], d, Size(d) + 1)
      BY <1>1, <3>1, <3>2, <3>6, AllPresent
    <3> QED
      BY <1>7, <3>1, <3>5, <3>7
  <2> QED
    BY <2>2, <2>3
<1>10. Related(cur, rep, b, 0, last, next)
  <2>1. 0 + 1 = 1
    OBVIOUS
  <2>2. /\ last = [y \in code.temps \cup Local |-> last[y]]
        /\ next = [y \in code.temps \cup AllNewPhis |-> next[y]]
    BY <1>5, <1>6 DEF EntersOld, EntersNew
  <2> QED
    BY <1>8, <1>9, <2>1, <2>2 DEF Related
<1> QED
  BY <1>2, <1>3, <1>10

(***************************************************************************)
(* All runs of the two functions next to each other.                       *)
(***************************************************************************)
NothingRun ==
  /\ run.from = Null /\ run.at = Entry
  /\ run.old = [y \in code.temps \cup Local |-> Null]
  /\ run.new = [y \in code.temps \cup AllNewPhis |-> Null]

\* What run.from left, on the way to run.at.
OnTheWay(cur, rep) ==
  /\ run.from \in visited /\ run.at \in Range(code.flow[run.from].to)
  /\ Related(cur, rep, run.from, Size(run.from), run.old, run.new)

Running(cur, rep) ==
  run.agree /\ (run.at # Null => run.at \in visited /\ (NothingRun \/ OnTheWay(cur, rep)))

Result(cur, rep) ==
  /\ Renamed(cur, rep, visited, data) /\ phi = [b \in Block |-> PhisAfter(rep, b)]
  /\ FilledIn(cur, calls, visited, visited, filled)
  /\ Running(cur, rep)

Finished == calls = <<>> /\ UpClosed(visited) /\ \E cur, rep : Result(cur, rep)

LEMMA RelatedStays ==
  ASSUME code' = code
  PROVE  \A cur, rep, b, i, old, new : Related(cur, rep, b, i, old, new)' <=> Related(cur, rep, b, i, old, new)
BY CodeStays DEF Related

LEMMA AfterStays ==
  ASSUME code' = code, phiMap' = phiMap, filled' = filled
  PROVE  \A rep, b : PhisAfter(rep, b)' = PhisAfter(rep, b)
<1>1. \A b : NewPhis(b)' = NewPhis(b)
  BY DEF NewPhis
<1> QED
  BY <1>1, CodeStays DEF PhisAfter

LEMMA ClosedStays == ASSUME code' = code PROVE \A V : UpClosed(V)' <=> UpClosed(V)
BY DomiStays DEF UpClosed

\* Where the runs begin, all is missing in the function as it was.
LEMMA NothingRelated ==
  ASSUME NothingRun, NEW cur, NEW rep
  PROVE  Related(cur, rep, Entry, 0, run.old, run.new)
<1>1. \A x \in Local : run.old[x] = Null
  BY DEF NothingRun
<1>2. \A t : AvailableAt(t, Entry, 0 + 1) => run.old[t] = Null
  BY DEF NothingRun, AvailableAt
<1>3. /\ run.old = [y \in code.temps \cup Local |-> run.old[y]]
      /\ run.new = [y \in code.temps \cup AllNewPhis |-> run.new[y]]
  BY DEF NothingRun
<1> QED
  BY <1>1, <1>2, <1>3 DEF Related, Fits

\* The phi statements of the block that is run next keep the runs alike.
LEMMA StartRelated ==
  ASSUME Inv, WalkInv, Promoted, stage = "done", Finished, run.at # Null, NEW cur, NEW rep, Result(cur, rep)
  PROVE  Related(cur, rep, run.at, 0, Start(run.old, code.phi[run.at], run.from).env,
                 Start(run.new, PhisAfter(rep, run.at), run.from).env)
<1>1. visited \in SUBSET Block /\ queue = <<>> /\ calls = <<>> /\ UpClosed(visited) /\ run.at \in visited
  BY DEF WalkInv, WalkTypes, Begun, Finished, Result, Running
<1>2. CASE NothingRun
  BY <1>2, NothingRelated DEF Start, NothingRun
<1>3. CASE OnTheWay(cur, rep)
  <2>1. PICK p \in visited : p = run.from
    BY <1>3 DEF OnTheWay
  <2>2. PICK b \in visited : b = run.at
    BY <1>1
  <2>3. p \in Block /\ b \in Block /\ p # Null
    BY <1>1, BlockAssumption
  <2>4. b \in Range(code.flow[p].to) /\ Related(cur, rep, p, Size(p), run.old, run.new)
    BY <1>3, <2>1, <2>2 DEF OnTheWay
  <2>5. IsTaken(calls, visited, p, b)
    BY <1>1 DEF IsTaken
  <2>6. Gets(cur, p, b)
    BY <2>3, <2>4, <2>5 DEF Result, FilledIn, Gets
  <2>7. Traced(cur, rep, visited, Null, 0) /\ Placed(cur, visited)
    BY DEF Result, Renamed
  <2>8. Related(cur, rep, b, 0, Entered(run.old, code.phi[b], p), Entered(run.new, PhisAfter(rep, b), p))
    BY <1>1, <2>4, <2>6, <2>7, EntryRelated
  <2> QED
    BY <2>1, <2>2, <2>3, <2>8 DEF Start
<1> QED
  BY <1>2, <1>3 DEF Result, Running

LEMMA RunKeeps ==
  ASSUME Inv, WalkInv, Promoted, stage = "done", Finished, run.at # Null, NEW c \in Exits(run.at), RunOn(c)
  PROVE  Finished'
<1>1. /\ UNCHANGED <<code, phiMap, calls, visited, filled, data, phi>>
      /\ code \in Programs /\ visited \in SUBSET Block /\ UpClosed(visited) /\ calls = <<>>
  BY DEF RunOn, placing, renaming, Inv, Shape, WalkInv, WalkTypes, Finished
<1>2. PICK cur, rep : Result(cur, rep)
  BY DEF Finished
<1>3. PICK b \in visited : b = run.at
  BY <1>2 DEF Result, Running
<1>4. PICK old : old = RunBlock(run.old, code.phi[b], code.data[b], run.from, Zeros)
  OBVIOUS
<1>5. PICK new : new = RunBlock(run.new, PhisAfter(rep, b), KeptOf(rep, b), run.from, Zeros)
  OBVIOUS
<1>6. phi[b] = PhisAfter(rep, b) /\ data[b] = KeptOf(rep, b)
  <2>1. data = DataOf(rep, visited) /\ phi = [e \in Block |-> PhisAfter(rep, e)]
    BY <1>2 DEF Result, Renamed
  <2> QED
    BY <1>1, <2>1 DEF DataOf
<1>7. run' = [at |-> c, from |-> b, old |-> old.env, new |-> new.env, agree |-> Agrees(old.out, new.out)]
  BY <1>3, <1>4, <1>5, <1>6 DEF RunOn
<1>8. Traced(cur, rep, visited, Null, 0)
  BY <1>2 DEF Result, Renamed
<1>9. Related(cur, rep, b, 0, Start(run.old, code.phi[b], run.from).env,
              Start(run.new, PhisAfter(rep, b), run.from).env)
  BY <1>2, <1>3, StartRelated
<1>10. Related(cur, rep, b, Size(b), old.env, new.env) /\ Agrees(old.out, new.out)
  BY <1>1, <1>4, <1>5, <1>8, <1>9, BlockAlike
<1>11. c # Null => c \in Range(code.flow[b].to) /\ c \in visited
  <2>1. c # Null => c \in Range(code.flow[b].to)
    BY <1>3 DEF Exits
  <2>2. IsTaken(calls, visited, b, c)
    BY <1>1 DEF IsTaken
  <2>3. c \in Range(code.flow[b].to) => c \in visited
    BY <1>1, <1>2, <2>2 DEF Result, FilledIn
  <2> QED
    BY <2>1, <2>3
<1>12. Running(cur, rep)'
  <2>1. run'.at = c /\ run'.from = b /\ run'.old = old.env /\ run'.new = new.env /\ run'.agree
    BY <1>7, <1>10
  <2>2. Related(cur, rep, b, Size(b), old.env, new.env)'
    BY <1>1, <1>10, RelatedStays, CodeStays
  <2>3. c # Null => OnTheWay(cur, rep)'
    BY <1>1, <1>10, <1>11, <2>1, RelatedStays, CodeStays DEF OnTheWay
  <2> QED
    BY <1>1, <1>11, <2>1, <2>3 DEF Running
<1>13. Result(cur, rep)'
  <2>1. Renamed(cur, rep, visited, data)' /\ FilledIn(cur, calls, visited, visited, filled)'
    BY <1>1, <1>2, WalkStays DEF Result
  <2>2. phi' = [e \in Block |-> PhisAfter(rep, e)']
    BY <1>1, <1>2, AfterStays DEF Result
  <2> QED
    BY <1>12, <2>1, <2>2 DEF Result
<1>14. UpClosed(visited)'
  BY <1>1, ClosedStays
<1> QED
  BY <1>1, <1>13, <1>14 DEF Finished

LEMMA InsertFinishes ==
  ASSUME Inv, WalkInv, Certified, InsertPhi
  PROVE  Finished'
<1>1. /\ UNCHANGED <<code, phiMap, calls, visited, filled, data>>
      /\ calls = <<>> /\ visited \in SUBSET Block /\ Entry \in visited
      /\ phi' = [b \in Block |-> phi[b] \o SetToSeq(NewPhis(b))]
  BY DEF InsertPhi, placing, Certified, WalkInv, WalkTypes
<1>2. PICK cur, rep : Certificate(cur, rep)
  BY DEF Certified
<1>3. phi' = [b \in Block |-> PhisAfter(rep, b)]
  BY <1>1, <1>2 DEF Certificate, PhisOf, PhisAfter
<1>4. NothingRun' /\ run'.agree /\ run'.at = Entry
  BY DEF InsertPhi, NothingRun
<1>5. Running(cur, rep)'
  BY <1>1, <1>4 DEF Running
<1>6. Result(cur, rep)'
  <2>1. Renamed(cur, rep, visited, data)' /\ FilledIn(cur, calls, visited, visited, filled)'
    BY <1>1, <1>2, WalkStays DEF Certificate
  <2>2. phi' = [e \in Block |-> PhisAfter(rep, e)']
    BY <1>1, <1>3, AfterStays
  <2> QED
    BY <1>5, <2>1, <2>2 DEF Result
<1>7. UpClosed(visited)'
  <2>1. UpClosed(visited)
    BY DEF Certified, Visiting, UpClosed
  <2> QED
    BY <1>1, <2>1, ClosedStays
<1> QED
  BY <1>1, <1>6, <1>7 DEF Finished

RunsInv ==
  /\ Promoted
  /\ stage \in {"def", "spread"} => Untouched
  /\ stage = "rename" => Certified
  /\ stage = "done" => Finished

LEMMA RunsBegin == Init => RunsInv
BY DEF Init, RunsInv, Promoted, Untouched

LEMMA RunsStep == ASSUME Inv, WalkInv, RunsInv, [Next]_vars PROVE RunsInv'
<1>1. Promoted'
  BY PromotedStep DEF RunsInv
<1>2. CASE SpreadDef \/ SpreadPhi
  <2>1. Untouched /\ UNCHANGED <<code, renaming>> /\ stage' = "spread"
    BY <1>2 DEF RunsInv, SpreadDef, SpreadPhi
  <2>2. Untouched'
    BY <2>1 DEF Untouched, renaming
  <2> QED
    BY <1>1, <2>1, <2>2 DEF RunsInv
<1>3. CASE StartRename
  <2>1. Promoted /\ Untouched /\ stage' \in {"rename", "error"}
    BY <1>3 DEF RunsInv, StartRename, Rename
  <2>2. stage' # "error" => Certified'
    BY <1>3, <2>1, StartCertified
  <2> QED
    BY <1>1, <2>1, <2>2 DEF RunsInv
<1>4. ASSUME NEW c \in Block, Descend(c) PROVE RunsInv'
  <2>1. Promoted /\ Certified /\ stage' \in {"rename", "error"}
    BY <1>4 DEF RunsInv, Descend, Rename
  <2>2. stage' # "error" => Certified'
    BY <1>4, <2>1, DescendCertified
  <2> QED
    BY <1>1, <2>1, <2>2 DEF RunsInv
<1>5. CASE Leave
  <2>1. Certified /\ stage' = "rename"
    BY <1>5 DEF RunsInv, Leave
  <2>2. Certified'
    BY <1>5, <2>1, LeaveCertified
  <2> QED
    BY <1>1, <2>1, <2>2 DEF RunsInv
<1>6. CASE InsertPhi
  <2>1. Certified /\ stage' = "done"
    BY <1>6 DEF RunsInv, InsertPhi
  <2>2. Finished'
    BY <1>6, <2>1, InsertFinishes
  <2> QED
    BY <1>1, <2>1, <2>2 DEF RunsInv
<1>7. ASSUME stage = "done", run.at # Null, NEW c \in Exits(run.at), RunOn(c) PROVE RunsInv'
  <2>1. Promoted /\ Finished /\ stage' = "done"
    BY <1>7 DEF RunsInv, RunOn
  <2>2. Finished'
    BY <1>7, <2>1, RunKeeps
  <2> QED
    BY <1>1, <2>1, <2>2 DEF RunsInv
<1>8. CASE UNCHANGED vars
  <2>1. UNCHANGED <<code, stage, phiMap, calls, visited, varMap, filled, data, phi, run>>
    BY <1>8 DEF vars, placing, renaming
  <2>2. Untouched => Untouched'
    BY <2>1 DEF Untouched
  <2>3. Certified => Certified'
    <3> SUFFICES ASSUME Certified PROVE Certified'
      OBVIOUS
    <3>1. PICK cur, rep : Certificate(cur, rep)
      BY DEF Certified
    <3>2. Renamed(cur, rep, visited, data) /\ phi = PhisOf(rep) /\ StackedOn(cur, calls, varMap)
          /\ FilledIn(cur, calls, visited, visited, filled)
      BY <3>1 DEF Certificate
    <3>3. Certificate(cur, rep)'
      BY <2>1, <3>2, WalkStays, CodeStays DEF Certificate
    <3>4. Entry \in visited /\ Visiting(calls, visited)'
      BY <2>1, WalkStays DEF Certified
    <3> QED
      BY <2>1, <3>3, <3>4 DEF Certified
  <2>4. Finished => Finished'
    <3> SUFFICES ASSUME Finished PROVE Finished'
      OBVIOUS
    <3>1. PICK cur, rep : Result(cur, rep)
      BY DEF Finished
    <3>2. Renamed(cur, rep, visited, data)' /\ FilledIn(cur, calls, visited, visited, filled)'
      BY <2>1, <3>1, WalkStays DEF Result
    <3>3. phi' = [e \in Block |-> PhisAfter(rep, e)']
      BY <2>1, <3>1, AfterStays DEF Result
    <3>4. NothingRun => NothingRun'
      BY <2>1 DEF NothingRun
    <3>5. OnTheWay(cur, rep) => OnTheWay(cur, rep)'
      BY <2>1, RelatedStays, CodeStays DEF OnTheWay
    <3>6. Running(cur, rep)'
      BY <2>1, <3>1, <3>4, <3>5 DEF Result, Running
    <3>7. Result(cur, rep)'
      BY <3>2, <3>3, <3>6 DEF Result
    <3>8. UpClosed(visited)'
      BY <2>1, ClosedStays DEF Finished
    <3> QED
      BY <2>1, <3>7, <3>8 DEF Finished
  <2> QED
    BY <1>1, <2>1, <2>2, <2>3, <2>4 DEF RunsInv
<1> QED
  BY <1>2, <1>3, <1>4, <1>5, <1>6, <1>7, <1>8 DEF Next

\* A run of the function that mem2regPass leaves gives its calls what it gave
\* them before, except for what was not initialized: for every function the pass
\* is given, whatever way the walk that renames goes through it and whatever
\* side of its branches the runs take.
THEOREM RunsReadTheSame == Spec => []SameReads
<1>1. Init => RunsInv
  BY RunsBegin
<1>2. Inv /\ WalkInv /\ RunsInv /\ [Next]_vars => RunsInv'
  BY RunsStep
<1>3. RunsInv => SameReads
  BY DEF RunsInv, Finished, Result, Running, SameReads
<1> QED
  BY <1>1, <1>2, <1>3, Inductive, WalkInductive, PTL DEF Spec

=============================================================================

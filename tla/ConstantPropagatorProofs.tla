----------------------- MODULE ConstantPropagatorProofs -----------------------
(***************************************************************************)
(* Theorems about ConstantPropagator, for every function: a value only     *)
(* falls, and when the lists are empty nothing is left to do.              *)
(*                                                                         *)
(* The second is not plain.  killSinglePhi replaces uses after the lists   *)
(* of uses were made, so a statement may read a temporary in whose list it *)
(* is not.  It is in the list of the phi statement it read before.  That   *)
(* one is still there, though nobody reads it; call it a relay.  When the  *)
(* value of what it copies changes, its own has to change as well, for it  *)
(* is behind, never beside it (Behind), and so its list is visited.        *)
(***************************************************************************)
EXTENDS ConstantPropagator, FlowGraphProofs, FiniteSetTheorems

Domi == Dominance(ForwardEdges(code.flow), Entry)

\* The phi statements of blocks with one predecessor, and what they define.
Relays == {s \in Sites(code) : s[2] < 0 /\ OneWayIn(code, s[1])}

Relayed == {DestAt(code, k) : k \in Relays}

\* The operands a statement has in new, and those it reads in state w.
OperandAt(c, s, j) ==
  IF s[2] = 0 THEN c.cond[s[1]]
  ELSE IF s[2] > 0 THEN c.data[s[1]][s[2]].args[j] ELSE c.phi[s[1]][-s[2]].from[j]

Places(c, s) ==
  IF s[2] = 0 THEN {0} ELSE IF s[2] > 0 THEN DOMAIN c.data[s[1]][s[2]].args ELSE DOMAIN c.phi[s[1]][-s[2]].from

PlacesRead(w, s) == IF s[2] < 0 THEN Places(code, s) \cap w.visited[s[1]] ELSE Places(code, s)

\* What a visit of a statement that defines something comes to.
Result(w, s) ==
  IF s[2] < 0 THEN CalculatedPhi(DestAt(code, s), {GetValue(w, OperandAt(new, s, j)) : j \in PlacesRead(w, s)})
  ELSE IF new.data[s[1]][s[2]].op = "call" THEN Null
  ELSE CalculatedBinary(new.data[s[1]][s[2]].op,
         GetValue(w, OperandAt(new, s, 1)), GetValue(w, OperandAt(new, s, 2)))

\* A visit would change no value.
Quiet(w, s) ==
  LET t == DestAt(code, s)
  IN  t = Null \/ Result(w, s) = Named(t) \/ MergeDefs(Result(w, s), w.value[t]) = w.value[t]

\* Nor would it add an edge that is not known.
AtRest(w, s) ==
  IF s[2] = 0 THEN \A x \in Taken(w, s[1]) : <<s[1], x>> \in w.edges \/ s[1] \in w.visited[x]
  ELSE Quiet(w, s)

\* A statement whose relay is still to pass something on.
Awaits(w, s) ==
  hasDomTree /\ \E k \in Relays : w.visited[k[1]] # {} /\ ~Quiet(w, k) /\ s \in Users(DestAt(code, k))

\* Every statement is listed, or at rest, or awaits a relay; todo is still to be
\* visited in the same step.
Covered(w, todo) ==
  \A s \in Sites(code) : w.visited[s[1]] # {} /\ (hasDomTree \/ Listed(s)) =>
    s \in w.uses \cup todo \/ AtRest(w, s) \/ Awaits(w, s)

\* killSinglePhi has put for what a relay defines what the relay has.
Substituted ==
  \A s \in Sites(code) : \A j \in Places(code, s) :
    LET o == OperandAt(code, s, j)
    IN  \/ OperandAt(new, s, j) = o /\ \A t \in Relayed : o # Named(t)
        \/ \E k \in Relays : /\ o = Named(DestAt(code, k)) 
                             /\ \A q \in Places(code, k) : OperandAt(new, s, j) = OperandAt(new, k, q)

\* What is left of the function when operands are replaced.
Shaped(c) ==
  /\ \A b \in Block :
       /\ DOMAIN c.data[b] = DOMAIN code.data[b] /\ DOMAIN c.phi[b] = DOMAIN code.phi[b]
       /\ \A i \in DOMAIN code.data[b] : c.data[b][i].op = code.data[b][i].op
  /\ \A s \in Sites(code) : DestAt(c, s) = DestAt(code, s) /\ Places(c, s) = Places(code, s)

\* No operand is a name that a relay defines.
GoodOperand(o) == o.k = "name" => o.v \in code.temps \ Relayed /\ o = Named(o.v)

SameShape ==
  /\ Shaped(new)
  /\ \A s \in Sites(code) : \A j \in Places(code, s) : GoodOperand(OperandAt(new, s, j))

\* The state of the analysis.
Typed(w) ==
  /\ w = [value |-> w.value, visited |-> w.visited, edges |-> w.edges, uses |-> w.uses]
  /\ w.value = [t \in code.temps |-> w.value[t]]
  /\ w.visited \in [Block -> SUBSET (Block \cup {Null})]
  /\ w.uses \subseteq Sites(code)

\* Edges and visits come from blocks that were visited, as their dominators were.
Sourced(w) ==
  /\ \A e \in w.edges :
       \/ e = <<Null, Entry>>
       \/ e = <<e[1], e[2]>> /\ e[1] \in Preds(code, e[2]) /\ e[2] \in Block /\ w.visited[e[1]] # {}
  /\ \A b \in Block : \A p \in w.visited[b] :
       IF p = Null THEN b = Entry ELSE p \in Preds(code, b) /\ w.visited[p] # {}
  /\ \A b, d \in Block : w.visited[b] # {} /\ <<d, b>> \in Domi => w.visited[d] # {}

\* Values are constants, or names that no relay defines.
GoodValue(v) == v = Null \/ (v.k = "name" => v.v \in code.temps \ Relayed /\ v = Named(v.v))

GoodValues(w) == \A t \in code.temps : GoodValue(w.value[t]) /\ w.value[t] # Named(t)

\* A relay is behind what it relays, not beside it.
Behind(w) ==
  hasDomTree =>
    \A k \in Relays : \A j \in Places(code, k) :
      LET o == OperandAt(new, k, j) d == DestAt(code, k)
      IN o.k = "name" /\ w.value[d] # Undefined /\ w.value[o.v] # Null => w.value[d] = w.value[o.v]

Good(w) == Typed(w) /\ Sourced(w) /\ GoodValues(w) /\ Behind(w)

\* The state before the first edge.
Unvisited == [value |-> [t \in code.temps |-> Undefined], visited |-> [b \in Block |-> {}], edges |-> {}, uses |-> {}]

Inv ==
  /\ code \in Programs
  /\ stage = "init" => State = Unvisited
  /\ stage \in {"edges", "uses"} => SameShape /\ Substituted /\ Good(State) /\ Covered(State, {})

-----------------------------------------------------------------------------

LEMMA KindsOfOperands ==
  /\ \A x : Named(x).k = "name" /\ Named(x).v = x
  /\ \A n : Const(n).k = "const"
  /\ Undefined.k = "undefined"
  /\ Zero.k = "const" /\ One.k = "const" /\ All1.k = "const"
BY DEF Named, Const, Undefined, Zero, One, All1

\* A rule gives an operand, a constant or nothing.
LEMMA IdentityGives ==
  ASSUME NEW op, NEW l, NEW r
  PROVE  Identity(op, l, r) \in {Undefined, Zero, One, l, r, Null}
BY DEF Identity

LEMMA BinaryGives ==
  ASSUME NEW op, NEW l, NEW r
  PROVE  LET v == CalculatedBinary(op, l, r) IN v \in {Undefined, Null, l, r} \/ v.k = "const"
<1>1. Identity(op, l, r) \in {Undefined, l, r, Null} \/ Identity(op, l, r).k = "const"
  BY IdentityGives, KindsOfOperands
<1> QED
  BY <1>1, KindsOfOperands DEF CalculatedBinary

LEMMA PhiGives ==
  ASSUME NEW dest, NEW entries
  PROVE  CalculatedPhi(dest, entries) \in {Undefined, Null} \cup entries
<1> DEFINE known == {o \in entries : o # Undefined /\ o # Named(dest)}
           one == CHOOSE o \in known : TRUE
<1>1. known # {} => one \in entries
  OBVIOUS
<1> HIDE DEF known, one
<1>2. CalculatedPhi(dest, entries) =
        IF known = {} THEN Undefined
        ELSE IF Cardinality(known) > 1 THEN Null
        ELSE IF ~hasDomTree /\ one.k = "name" THEN Null ELSE one
  BY DEF CalculatedPhi, known, one
<1> QED
  BY <1>1, <1>2

\* With dominators a phi statement of one operand is a copy of it.
LEMMA PhiCopies ==
  ASSUME NEW dest, NEW v, hasDomTree
  PROVE  CalculatedPhi(dest, {v}) = IF v \in {Undefined, Named(dest)} THEN Undefined ELSE v
<1> DEFINE known == {o \in {v} : o # Undefined /\ o # Named(dest)}
           one == CHOOSE o \in known : TRUE
<1>1. v \in {Undefined, Named(dest)} => known = {}
  OBVIOUS
<1>2. v \notin {Undefined, Named(dest)} => known = {v} /\ one = v
  OBVIOUS
<1>3. Cardinality({v}) = 1
  BY FS_Singleton
<1> HIDE DEF known, one
<1>4. CalculatedPhi(dest, {v}) =
        IF known = {} THEN Undefined
        ELSE IF Cardinality(known) > 1 THEN Null
        ELSE IF ~hasDomTree /\ one.k = "name" THEN Null ELSE one
  BY DEF CalculatedPhi, known, one
<1> QED
  BY <1>1, <1>2, <1>3, <1>4

\* What is merged falls, and has taken the result in.
LEMMA Merging ==
  ASSUME NEW r, NEW x
  PROVE  /\ MergeDefs(r, x) \in {r, x, Null}
         /\ MergeDefs(r, MergeDefs(r, x)) = MergeDefs(r, x)
         /\ MergeDefs(r, x) # x => x = Undefined \/ MergeDefs(r, x) = Null
         /\ MergeDefs(r, Null) = Null
         /\ r # Undefined => MergeDefs(r, Undefined) = r
         /\ MergeDefs(r, x) = x => r = Undefined \/ r = x \/ x = Null
         /\ MergeDefs(Undefined, x) = x
BY NullAssumption DEF MergeDefs

-----------------------------------------------------------------------------

LEMMA BodyFacts ==
  ASSUME NEW c \in Programs, NEW b \in Block
  PROVE  /\ Len(c.data[b]) \in Nat /\ DOMAIN c.data[b] = 1..Len(c.data[b])
         /\ Len(c.phi[b]) \in Nat /\ DOMAIN c.phi[b] = 1..Len(c.phi[b])
<1>1. c.data[b] \in Seq(Range(c.data[b])) /\ c.phi[b] \in Seq(Range(c.phi[b]))
  BY ProgramsAssumption
<1> QED
  BY <1>1

LEMMA SiteFacts ==
  ASSUME NEW c \in Programs, NEW s \in Sites(c)
  PROVE  /\ s = <<s[1], s[2]>> /\ s[1] \in Block /\ s[2] \in Int
         /\ s[2] > 0 => s[2] \in DOMAIN c.data[s[1]]
         /\ s[2] < 0 => -s[2] \in DOMAIN c.phi[s[1]]
<1>1. PICK b \in Block : s \in {b} \X (-Len(c.phi[b]) .. Len(c.data[b]))
  BY DEF Sites
<1>2. s = <<s[1], s[2]>> /\ s[1] = b /\ s[2] \in -Len(c.phi[b]) .. Len(c.data[b])
  BY <1>1
<1>3. /\ Len(c.data[b]) \in Nat /\ DOMAIN c.data[b] = 1..Len(c.data[b])
      /\ Len(c.phi[b]) \in Nat /\ DOMAIN c.phi[b] = 1..Len(c.phi[b])
  BY BodyFacts
<1> QED
  BY <1>2, <1>3

LEMMA SiteIntro ==
  ASSUME NEW c \in Programs, NEW b \in Block
  PROVE  /\ <<b, 0>> \in Sites(c)
         /\ \A i \in DOMAIN c.data[b] : <<b, i>> \in Sites(c)
         /\ \A i \in DOMAIN c.phi[b] : <<b, -i>> \in Sites(c)
<1> DEFINE places == -Len(c.phi[b]) .. Len(c.data[b])
<1>1. /\ Len(c.data[b]) \in Nat /\ DOMAIN c.data[b] = 1..Len(c.data[b])
      /\ Len(c.phi[b]) \in Nat /\ DOMAIN c.phi[b] = 1..Len(c.phi[b])
  BY BodyFacts
<1>2. /\ 0 \in places /\ (\A i \in DOMAIN c.data[b] : i \in places)
      /\ \A i \in DOMAIN c.phi[b] : -i \in places
  BY <1>1
<1>3. \A i \in places : <<b, i>> \in Sites(c)
  BY DEF Sites
<1> QED
  BY <1>2, <1>3

\* What holds of the places of every statement.
LEMMA PlaceFacts ==
  ASSUME NEW c \in Programs, NEW s \in Sites(c)
  PROVE  /\ DestAt(c, s) \in c.temps \cup {Null} /\ (s[2] = 0 => DestAt(c, s) = Null)
         /\ s[2] < 0 => DestAt(c, s) # Null /\ Places(c, s) = Preds(c, s[1])
         /\ s[2] > 0 /\ c.data[s[1]][s[2]].op # "call" => Places(c, s) = {1, 2}
         /\ \A j \in Places(c, s) :
              LET o == OperandAt(c, s, j)
              IN  o \in OperandsAt(c, s) /\ (o.k = "name" => o.v \in c.temps /\ o = Named(o.v))
         /\ \A o \in OperandsAt(c, s) : \E j \in Places(c, s) : o = OperandAt(c, s, j)
<1>1. /\ s = <<s[1], s[2]>> /\ s[1] \in Block /\ s[2] \in Int
      /\ s[2] > 0 => s[2] \in DOMAIN c.data[s[1]]
      /\ s[2] < 0 => -s[2] \in DOMAIN c.phi[s[1]]
  BY SiteFacts
<1>2. /\ DestAt(c, s) \in c.temps \cup {Null} /\ (s[2] < 0 => DestAt(c, s) # Null)
      /\ \A o \in OperandsAt(c, s) : o.k = "name" => o.v \in c.temps /\ o = Named(o.v)
  BY ProgramsAssumption
<1>3. s[2] = 0 => DestAt(c, s) = Null
  BY DEF DestAt
<1>4. s[2] < 0 => Places(c, s) = Preds(c, s[1])
  BY <1>1, ProgramsAssumption DEF Places
<1>5. s[2] > 0 /\ c.data[s[1]][s[2]].op # "call" => Places(c, s) = {1, 2}
  <2> SUFFICES ASSUME s[2] > 0, c.data[s[1]][s[2]].op # "call" PROVE Places(c, s) = {1, 2}
    OBVIOUS
  <2>1. DOMAIN c.data[s[1]][s[2]].args = 1..2
    BY <1>1, ProgramsAssumption
  <2> QED
    BY <2>1, <1>1 DEF Places
<1>6. \A j \in Places(c, s) : OperandAt(c, s, j) \in OperandsAt(c, s)
  BY <1>1 DEF Places, OperandAt, OperandsAt, Range
<1>7. \A o \in OperandsAt(c, s) : \E j \in Places(c, s) : o = OperandAt(c, s, j)
  BY <1>1 DEF Places, OperandAt, OperandsAt, Range
<1> QED
  BY <1>2, <1>3, <1>4, <1>5, <1>6, <1>7

LEMMA DefinedOnce ==
  ASSUME NEW c \in Programs, NEW s \in Sites(c), NEW d \in Sites(c),
         DestAt(c, s) = DestAt(c, d), DestAt(c, s) # Null
  PROVE  s = d
BY ProgramsAssumption

LEMMA NamesAreNoNull ==
  ASSUME NEW c \in Programs, NEW t \in c.temps
  PROVE  t # Null /\ Named(t) # Null
BY NullAssumption

\* What a visit does, in terms of the statement's place.
LEMMA VisitIs ==
  ASSUME code \in Programs, SameShape, NEW w, NEW s \in Sites(code)
  PROVE  Visit(w, s) = IF w.visited[s[1]] = {} THEN w
                       ELSE IF s[2] = 0 THEN VisitFlow(w, s[1])
                       ELSE TryUpdate(w, DestAt(code, s), Result(w, s))
<1>1. /\ s = <<s[1], s[2]>> /\ s[1] \in Block /\ s[2] \in Int
      /\ s[2] > 0 => s[2] \in DOMAIN code.data[s[1]]
      /\ s[2] < 0 => -s[2] \in DOMAIN code.phi[s[1]]
  BY SiteFacts
<1>2. DestAt(new, s) = DestAt(code, s) /\ Places(new, s) = Places(code, s)
  BY DEF SameShape, Shaped, GoodOperand
<1>3. CASE s[2] < 0
  <2>1. new.phi[s[1]][-s[2]].dest = DestAt(code, s)
    BY <1>1, <1>2, <1>3 DEF DestAt
  <2>2. DOMAIN new.phi[s[1]][-s[2]].from \cap w.visited[s[1]] = PlacesRead(w, s)
    BY <1>1, <1>2, <1>3 DEF Places, PlacesRead
  <2>3. \A q : new.phi[s[1]][-s[2]].from[q] = OperandAt(new, s, q)
    BY <1>1, <1>3 DEF OperandAt
  <2>4. VisitPhi(w, s[1], -s[2]) = TryUpdate(w, DestAt(code, s),
          CalculatedPhi(DestAt(code, s), {GetValue(w, OperandAt(new, s, q)) : q \in PlacesRead(w, s)}))
    BY <2>1, <2>2, <2>3 DEF VisitPhi
  <2>5. VisitPhi(w, s[1], -s[2]) = TryUpdate(w, DestAt(code, s), Result(w, s))
    BY <2>4, <1>3 DEF Result
  <2> QED
    BY <2>5, <1>1, <1>3 DEF Visit
<1>4. CASE s[2] > 0
  <2> DEFINE stmt == new.data[s[1]][s[2]]
             args == [j \in DOMAIN stmt.args |-> GetValue(w, stmt.args[j])]
  <2>1. stmt.dest = DestAt(code, s)
    BY <1>1, <1>2, <1>4 DEF DestAt
  <2>2. stmt.op # "call" => DOMAIN stmt.args = {1, 2}
    <3>1. stmt.op = code.data[s[1]][s[2]].op
      BY <1>1, <1>4 DEF SameShape, Shaped, GoodOperand
    <3>2. DOMAIN stmt.args = Places(code, s)
      BY <1>1, <1>2, <1>4 DEF Places
    <3> QED
      BY <3>1, <3>2, <1>4, PlaceFacts
  <2>3. stmt.op # "call" => args[1] = GetValue(w, OperandAt(new, s, 1)) /\ args[2] = GetValue(w, OperandAt(new, s, 2))
    BY <2>2, <1>1, <1>4 DEF OperandAt
  <2>4. VisitStmt(w, s[1], s[2]) = TryUpdate(w, DestAt(code, s),
          IF stmt.op = "call" THEN Null ELSE CalculatedBinary(stmt.op, args[1], args[2]))
    BY <2>1 DEF VisitStmt
  <2>5. Result(w, s) = IF stmt.op = "call" THEN Null 
                       ELSE CalculatedBinary(stmt.op, GetValue(w, OperandAt(new, s, 1)), GetValue(w, OperandAt(new, s, 2)))
    BY <1>1, <1>4 DEF Result
  <2> HIDE DEF stmt, args
  <2>6. VisitStmt(w, s[1], s[2]) = TryUpdate(w, DestAt(code, s), Result(w, s))
    BY <2>3, <2>4, <2>5
  <2> QED
    BY <2>6, <1>1, <1>4 DEF Visit
<1>5. CASE s[2] = 0
  BY <1>5 DEF Visit
<1> QED
  BY <1>1, <1>3, <1>4, <1>5

\* The value of t becomes y, and the uses of t are to be visited.
Changed(w, w1, t, y) ==
  /\ t \in code.temps /\ t # Null /\ y # w.value[t]
  /\ w1.value[t] = y
  /\ \A u \in code.temps : u # t => w1.value[u] = w.value[u]
  /\ w1.visited = w.visited /\ w1.edges = w.edges
  /\ w1.uses = w.uses \cup Users(t)
  /\ Typed(w1)

LEMMA TryUpdateIs ==
  ASSUME NEW w, Typed(w), NEW t \in code.temps \cup {Null}, NEW r
  PROVE  LET w1 == TryUpdate(w, t, r)
             y  == MergeDefs(r, w.value[t])
         IN  \/ w1 = w /\ (t = Null \/ r = Named(t) \/ y = w.value[t])
             \/ Changed(w, w1, t, y) /\ r # Named(t)
<1> DEFINE y == MergeDefs(r, w.value[t])
           w1 == [w EXCEPT !.value[t] = y, !.uses = @ \cup Users(t)]
<1>1. CASE t = Null \/ r = Named(t) \/ y = w.value[t]
  BY <1>1 DEF TryUpdate
<1>2. CASE ~(t = Null \/ r = Named(t) \/ y = w.value[t])
  <2>1. TryUpdate(w, t, r) = w1
    BY <1>2 DEF TryUpdate
  <2>2. t \in code.temps
    BY <1>2
  <2> HIDE DEF y
  <2>3. /\ w = [value |-> w.value, visited |-> w.visited, edges |-> w.edges, uses |-> w.uses]
        /\ w.value = [u \in code.temps |-> w.value[u]]
    BY DEF Typed
  <2>4. w1 = [value |-> [w.value EXCEPT ![t] = y], visited |-> w.visited, edges |-> w.edges, 
              uses |-> w.uses \cup Users(t)]
    <3> DEFINE val == [w.value EXCEPT ![t] = y]
    <3>1. w1 = [w EXCEPT !.value = val, !.uses = w.uses \cup Users(t)]
      OBVIOUS
    <3> HIDE DEF val, w1
    <3>2. w1 = [value |-> val, visited |-> w.visited, edges |-> w.edges, uses |-> w.uses \cup Users(t)]
      BY <2>3, <3>1
    <3> QED
      BY <3>2 DEF val
  <2> HIDE DEF w1
  <2>5. /\ w1.value = [w.value EXCEPT ![t] = y] /\ w1.visited = w.visited /\ w1.edges = w.edges 
        /\ w1.uses = w.uses \cup Users(t)
        /\ w1 = [value |-> w1.value, visited |-> w1.visited, edges |-> w1.edges, uses |-> w1.uses]
    BY <2>4
  <2>6. w1.value[t] = y /\ \A u \in code.temps : u # t => w1.value[u] = w.value[u]
    BY <2>2, <2>3, <2>5
  <2>7. w1.value = [u \in code.temps |-> w1.value[u]]
    BY <2>3, <2>5
  <2>8. Users(t) \subseteq Sites(code)
    BY DEF Users
  <2>9. Typed(w1)
    BY <2>5, <2>7, <2>8 DEF Typed
  <2> QED
    BY <1>2, <2>1, <2>2, <2>5, <2>6, <2>9 DEF Changed, y
<1> QED
  BY <1>1, <1>2

\* What a statement finds depends on the values of the names it reads only.
LEMMA GetValueSame ==
  ASSUME NEW w, NEW w1, NEW o, o.k = "name" => w1.value[o.v] = w.value[o.v]
  PROVE  GetValue(w1, o) = GetValue(w, o)
BY DEF GetValue

LEMMA OperandFacts ==
  ASSUME code \in Programs, SameShape, NEW s \in Sites(code), NEW j \in Places(code, s)
  PROVE  LET o == OperandAt(new, s, j)
         IN  /\ o \in OperandsAt(new, s)
             /\ o.k = "name" => o.v \in code.temps /\ o.v \notin Relayed /\ o = Named(o.v)
<1>1. /\ s = <<s[1], s[2]>> /\ s[1] \in Block /\ s[2] \in Int
      /\ s[2] > 0 => s[2] \in DOMAIN code.data[s[1]]
      /\ s[2] < 0 => -s[2] \in DOMAIN code.phi[s[1]]
  BY SiteFacts
<1>2. j \in Places(new, s)
  BY DEF SameShape, Shaped, GoodOperand
<1>3. OperandAt(new, s, j) \in OperandsAt(new, s)
  BY <1>1, <1>2 DEF Places, OperandAt, OperandsAt, Range
<1> QED
  BY <1>3 DEF SameShape, Shaped, GoodOperand

Reads(w, s, t) == \E j \in PlacesRead(w, s) : OperandAt(new, s, j) = Named(t)

LEMMA ResultSame ==
  ASSUME code \in Programs, SameShape, NEW w, NEW w1, NEW s \in Sites(code), s[2] # 0,
         w1.visited[s[1]] = w.visited[s[1]],
         NEW t, ~Reads(w, s, t), \A u \in code.temps : u # t => w1.value[u] = w.value[u]
  PROVE  Result(w1, s) = Result(w, s)
<1>1. PlacesRead(w, s) \subseteq Places(code, s) /\ PlacesRead(w1, s) = PlacesRead(w, s)
  BY DEF PlacesRead
<1>2. ASSUME NEW j \in PlacesRead(w, s)
      PROVE  GetValue(w1, OperandAt(new, s, j)) = GetValue(w, OperandAt(new, s, j))
  <2>1. LET o == OperandAt(new, s, j) IN o.k = "name" => o.v \in code.temps /\ o = Named(o.v)
    BY <1>1, OperandFacts
  <2>2. OperandAt(new, s, j) # Named(t)
    BY DEF Reads
  <2>3. LET o == OperandAt(new, s, j) IN o.k = "name" => w1.value[o.v] = w.value[o.v]
    BY <2>1, <2>2
  <2> QED
    BY <2>3, GetValueSame
<1>3. s[2] \in Int
  BY SiteFacts
<1>4. CASE s[2] < 0
  <2>1. {GetValue(w1, OperandAt(new, s, j)) : j \in PlacesRead(w1, s)} = {GetValue(w, OperandAt(new, s, j)) : j \in PlacesRead(w, s)}
    BY <1>1, <1>2
  <2> QED
    BY <2>1, <1>4 DEF Result
<1>5. CASE s[2] > 0
  <2>1. s[2] \in DOMAIN code.data[s[1]] /\ s[1] \in Block
    BY <1>5, SiteFacts
  <2>2. new.data[s[1]][s[2]].op = code.data[s[1]][s[2]].op
    BY <2>1 DEF SameShape, Shaped, GoodOperand
  <2>3. code.data[s[1]][s[2]].op # "call" => 1 \in PlacesRead(w, s) /\ 2 \in PlacesRead(w, s)
    <3>1. PlacesRead(w, s) = Places(code, s)
      BY <1>3, <1>5 DEF PlacesRead
    <3>2. code.data[s[1]][s[2]].op # "call" => Places(code, s) = {1, 2}
      BY <1>5, PlaceFacts
    <3> QED
      BY <3>1, <3>2
  <2>4. code.data[s[1]][s[2]].op # "call" => 
          /\ GetValue(w1, OperandAt(new, s, 1)) = GetValue(w, OperandAt(new, s, 1))
          /\ GetValue(w1, OperandAt(new, s, 2)) = GetValue(w, OperandAt(new, s, 2))
    BY <1>2, <2>3
  <2> QED
    BY <1>3, <1>5, <2>2, <2>4 DEF Result
<1> QED
  BY <1>3, <1>4, <1>5

LEMMA TakenSame ==
  ASSUME code \in Programs, SameShape, NEW w, NEW w1, NEW b \in Block,
         NEW t, ~Reads(w, <<b, 0>>, t), \A u \in code.temps : u # t => w1.value[u] = w.value[u]
  PROVE  Taken(w1, b) = Taken(w, b)
<1>1. <<b, 0>> \in Sites(code) /\ 0 \in Places(code, <<b, 0>>) /\ OperandAt(new, <<b, 0>>, 0) = new.cond[b]
  BY SiteIntro DEF Places, OperandAt
<1>2. new.cond[b].k = "name" => new.cond[b].v \in code.temps /\ new.cond[b] = Named(new.cond[b].v)
  BY <1>1, OperandFacts
<1>3. new.cond[b] # Named(t)
  BY <1>1 DEF Reads, PlacesRead
<1>4. GetValue(w1, new.cond[b]) = GetValue(w, new.cond[b])
  BY <1>2, <1>3, GetValueSame
<1> QED
  BY <1>4 DEF Taken

-----------------------------------------------------------------------------

(***************************************************************************)
(* Values are constants, or names that no relay defines.                   *)
(***************************************************************************)
LEMMA ReadGood ==
  ASSUME code \in Programs, SameShape, NEW w, GoodValues(w), NEW s \in Sites(code), NEW j \in Places(code, s)
  PROVE  GoodValue(GetValue(w, OperandAt(new, s, j)))
<1>1. LET o == OperandAt(new, s, j) IN o.k = "name" => o.v \in code.temps \ Relayed /\ o = Named(o.v)
  BY OperandFacts
<1> QED
  BY <1>1 DEF GetValue, GoodValue, GoodValues

LEMMA ResultGood ==
  ASSUME code \in Programs, SameShape, NEW w, GoodValues(w), NEW s \in Sites(code), s[2] # 0
  PROVE  GoodValue(Result(w, s))
<1>1. PlacesRead(w, s) \subseteq Places(code, s)
  BY DEF PlacesRead
<1>2. GoodValue(Null) /\ GoodValue(Undefined) /\ \A v : v.k = "const" => GoodValue(v)
  BY KindsOfOperands DEF GoodValue
<1>3. s[2] \in Int
  BY SiteFacts
<1>4. CASE s[2] < 0
  <2> DEFINE entries == {GetValue(w, OperandAt(new, s, j)) : j \in PlacesRead(w, s)}
  <2>1. \A v \in entries : GoodValue(v)
    BY <1>1, ReadGood
  <2>2. Result(w, s) = CalculatedPhi(DestAt(code, s), entries)
    BY <1>4 DEF Result
  <2> HIDE DEF entries
  <2> QED
    BY <2>1, <2>2, <1>2, PhiGives
<1>5. CASE s[2] > 0
  <2>1. s[2] \in DOMAIN code.data[s[1]] /\ s[1] \in Block
    BY <1>5, SiteFacts
  <2>2. new.data[s[1]][s[2]].op = code.data[s[1]][s[2]].op
    BY <2>1 DEF SameShape, Shaped, GoodOperand
  <2>3. CASE new.data[s[1]][s[2]].op = "call"
    BY <1>2, <1>3, <1>5, <2>3 DEF Result
  <2>4. CASE new.data[s[1]][s[2]].op # "call"
    <3> DEFINE l == GetValue(w, OperandAt(new, s, 1))
               r == GetValue(w, OperandAt(new, s, 2))
               v == CalculatedBinary(new.data[s[1]][s[2]].op, l, r)
    <3>1. 1 \in Places(code, s) /\ 2 \in Places(code, s)
      BY <1>5, <2>2, <2>4, PlaceFacts
    <3>2. GoodValue(l) /\ GoodValue(r)
      BY <3>1, ReadGood
    <3>3. Result(w, s) = v
      BY <1>3, <1>5, <2>4 DEF Result
    <3>4. v \in {Undefined, Null, l, r} \/ v.k = "const"
      BY BinaryGives
    <3> HIDE DEF v, l, r
    <3> QED
      BY <1>2, <3>2, <3>3, <3>4
  <2> QED
    BY <2>3, <2>4
<1> QED
  BY <1>3, <1>4, <1>5

LEMMA RelayFacts ==
  ASSUME code \in Programs, NEW k \in Relays
  PROVE  /\ k \in Sites(code) /\ k[1] \in Block /\ k[2] < 0
         /\ DestAt(code, k) \in code.temps /\ DestAt(code, k) # Null /\ DestAt(code, k) \in Relayed
         /\ k[1] # Entry
         /\ \E p \in Block : /\ Preds(code, k[1]) = {p} /\ Places(code, k) = {p}
                             /\ \A w : Sourced(w) /\ w.visited[k[1]] # {} => PlacesRead(w, k) = {p}
<1>1. k \in Sites(code) /\ k[2] < 0 /\ OneWayIn(code, k[1]) /\ DestAt(code, k) \in Relayed
  BY DEF Relays, Relayed
<1>2. k[1] \in Block
  BY <1>1, SiteFacts
<1>3. DestAt(code, k) \in code.temps /\ DestAt(code, k) # Null /\ Places(code, k) = Preds(code, k[1])
  BY <1>1, PlaceFacts
<1>4. PICK p \in Block : Preds(code, k[1]) = {p}
  BY <1>1 DEF OneWayIn
<1>5. k[1] # Entry
  BY <1>4, ProgramsAssumption
<1>6. ASSUME NEW w, Sourced(w), w.visited[k[1]] # {} PROVE PlacesRead(w, k) = {p}
  <2>1. \A q \in w.visited[k[1]] : q = p
    BY <1>2, <1>4, <1>5, <1>6 DEF Sourced
  <2> QED
    BY <2>1, <1>1, <1>3, <1>4, <1>6 DEF PlacesRead
<1> QED
  BY <1>1, <1>2, <1>3, <1>4, <1>5, <1>6

Falls(x, y) == x = Undefined \/ y = Null

\* Whatever the value of a name becomes, a visited relay of it has to pass it on.
LEMMA RelayIsMoved ==
  ASSUME code \in Programs, SameShape, hasDomTree, NEW w, NEW w1, NEW t, NEW y,
         Sourced(w), Sourced(w1), GoodValues(w), Behind(w),
         Changed(w, w1, t, y), Falls(w.value[t], y), GoodValue(y),
         NEW k \in Relays, w.visited[k[1]] # {}, Reads(w, k, t)
  PROVE  ~Quiet(w1, k)
<1> DEFINE d == DestAt(code, k)
           x == w.value[t]
           m == w.value[d]
           v == GetValue(w1, Named(t))
<1>1. /\ k \in Sites(code) /\ k[1] \in Block /\ k[2] < 0
      /\ d \in code.temps /\ d # Null /\ d \in Relayed
  BY RelayFacts
<1>2. PICK p \in Block : Places(code, k) = {p} /\ PlacesRead(w, k) = {p} /\ PlacesRead(w1, k) = {p}
  <2>1. w1.visited[k[1]] # {}
    BY DEF Changed
  <2> QED
    BY <2>1, RelayFacts
<1>3. OperandAt(new, k, p) = Named(t) /\ t \in code.temps /\ t \notin Relayed
  <2>1. OperandAt(new, k, p) = Named(t)
    BY <1>2 DEF Reads
  <2> QED
    BY <2>1, <1>1, <1>2, OperandFacts, KindsOfOperands
<1>4. w1.value[t] = y /\ y # x /\ w1.value[d] = m
  BY <1>1, <1>3 DEF Changed
<1>5. x # Null /\ x # Named(t)
  BY <1>3, <1>4, NullAssumption DEF Falls, GoodValues
<1>6. m # Undefined => m = x
  BY <1>1, <1>2, <1>3, <1>5, KindsOfOperands DEF Behind
<1>7. v = IF y = Null THEN Named(t) ELSE y
  BY <1>4, KindsOfOperands DEF GetValue
<1>8. v # Undefined /\ v # Named(d)
  <2>1. CASE y = Null
    BY <2>1, <1>1, <1>3, <1>7, KindsOfOperands
  <2>2. CASE y # Null
    <3>1. y # Undefined
      BY <2>2, <1>4 DEF Falls
    <3>2. y # Named(d)
      BY <2>2, <1>1, KindsOfOperands DEF GoodValue
    <3> QED
      BY <3>1, <3>2, <2>2, <1>7
  <2> QED
    BY <2>1, <2>2
<1>9. Result(w1, k) = v
  <2>1. {GetValue(w1, OperandAt(new, k, j)) : j \in PlacesRead(w1, k)} = {v}
    BY <1>2, <1>3
  <2>2. Result(w1, k) = CalculatedPhi(d, {v})
    BY <2>1, <1>1 DEF Result
  <2> HIDE DEF v, d
  <2> QED
    BY <2>2, <1>8, PhiCopies
<1> HIDE DEF v, m, x, d
<1>10. SUFFICES ASSUME MergeDefs(v, m) = m PROVE FALSE
  BY <1>1, <1>4, <1>8, <1>9 DEF Quiet, d
<1>11. v = m \/ m = Null
  BY <1>8, <1>10, Merging
<1>12. CASE m = Undefined
  BY <1>12, <1>8, <1>11, NullAssumption
<1>13. CASE m # Undefined
  <2>1. m = x /\ x # Undefined
    BY <1>13, <1>6
  <2>2. y = Null
    BY <2>1 DEF Falls, x
  <2>3. v = Named(t)
    BY <2>2, <1>7
  <2> QED
    BY <2>1, <2>3, <1>5, <1>11
<1> QED
  BY <1>12, <1>13

\* Its dominator tree is that of its flow graph.
LEMMA FlowIs ==
  ASSUME code \in Programs
  PROVE  /\ code.flow \in [Block -> FlowStmt]
         /\ code.dom = [b \in Block |-> DominatorsOf(Domi, b) \cap Block]
<1> DEFINE shape == <<code.flow, code.dom>>
<1>1. shape \in {<<c.flow, c.dom>> : c \in Programs}
  OBVIOUS
<1>2. /\ shape[1] \in [Block -> FlowStmt]
      /\ LET domi == Dominance(ForwardEdges(shape[1]), Entry)
         IN  shape[2] = [b \in Block |-> DominatorsOf(domi, b) \cap Block]
  BY <1>1, ProgramsAssumption
<1> QED
  BY <1>2 DEF Domi

\* Who reads a name has it in its list of uses, or waits for a relay of it.
LEMMA ReadersAreTold ==
  ASSUME code \in Programs, SameShape, Substituted, NEW w, Sourced(w),
         NEW s \in Sites(code), w.visited[s[1]] # {}, NEW t, Reads(w, s, t)
  PROVE  \/ s \in Users(t)
         \/ \E k \in Relays : s \in Users(DestAt(code, k)) /\ w.visited[k[1]] # {} /\ Reads(w, k, t)
<1>1. PICK j \in PlacesRead(w, s) : OperandAt(new, s, j) = Named(t)
  BY DEF Reads
<1>2. j \in Places(code, s)
  BY DEF PlacesRead
<1>3. OperandAt(code, s, j) \in OperandsAt(code, s)
  BY <1>2, PlaceFacts
<1>4. CASE OperandAt(new, s, j) = OperandAt(code, s, j)
  BY <1>1, <1>3, <1>4 DEF Users
<1>5. CASE \E k \in Relays : /\ OperandAt(code, s, j) = Named(DestAt(code, k))
                             /\ \A q \in Places(code, k) : OperandAt(new, s, j) = OperandAt(new, k, q)
  <2> PICK k \in Relays : /\ OperandAt(code, s, j) = Named(DestAt(code, k))
                          /\ \A q \in Places(code, k) : OperandAt(new, s, j) = OperandAt(new, k, q)
    BY <1>5
  <2>1. s \in Users(DestAt(code, k))
    BY <1>3 DEF Users
  <2>2. k \in Sites(code) /\ k[1] \in Block
    BY RelayFacts
  <2>3. UseDominated(code, k, s)
    BY <2>2, ProgramsAssumption
  <2>4. s[1] \in Block /\ s[2] \in Int
    BY SiteFacts
  <2>5. ASSUME NEW b \in Block, k[1] \in code.dom[b], w.visited[b] # {}
        PROVE  w.visited[k[1]] # {}
    <3>1. code.dom = [a \in Block |-> DominatorsOf(Domi, a) \cap Block]
      BY FlowIs
    <3>2. <<k[1], b>> \in Domi
      BY <3>1, <2>5 DEF DominatorsOf
    <3> QED
      BY <3>2, <2>2, <2>5 DEF Sourced
  <2>6. w.visited[k[1]] # {}
    <3>1. CASE s[2] >= 0
      BY <3>1, <2>3, <2>4, <2>5, <1>3 DEF UseDominated
    <3>2. CASE s[2] < 0
      <4>1. j \in Preds(code, s[1]) /\ j \in w.visited[s[1]]
        BY <3>2, <1>1, <1>2, PlaceFacts DEF PlacesRead
      <4>2. j \in Block /\ j # Null
        BY <4>1, BlockAssumption DEF Preds
      <4>3. w.visited[j] # {}
        BY <4>1, <4>2, <2>4 DEF Sourced
      <4>4. code.phi[s[1]][-s[2]].from[j] = Named(DestAt(code, k))
        BY <3>2, <2>4 DEF OperandAt
      <4>5. k[1] \in code.dom[j]
        BY <3>2, <4>1, <4>4, <2>3, <2>4 DEF UseDominated
      <4> QED
        BY <4>2, <4>3, <4>5, <2>5
    <3> QED
      BY <3>1, <3>2, <2>4
  <2>7. Reads(w, k, t)
    <3>1. PICK p : Places(code, k) = {p} /\ PlacesRead(w, k) = {p}
      BY <2>6, RelayFacts
    <3>2. OperandAt(new, k, p) = Named(t)
      BY <1>1, <3>1
    <3> QED
      BY <3>1, <3>2 DEF Reads
  <2> QED
    BY <2>1, <2>6, <2>7
<1> QED
  BY <1>2, <1>4, <1>5 DEF Substituted

Followed(s) == hasDomTree \/ Listed(s)

\* A name has changed: its readers are listed, or wait for a relay of it.
LEMMA Told ==
  ASSUME code \in Programs, SameShape, Substituted, NEW w, NEW w1, NEW t, NEW y, Good(w),
         Changed(w, w1, t, y), Falls(w.value[t], y), GoodValue(y),
         NEW s \in Sites(code), w.visited[s[1]] # {}, Followed(s), Reads(w, s, t)
  PROVE  s \in w1.uses \/ Awaits(w1, s)
<1>1. Sourced(w) /\ GoodValues(w) /\ Behind(w) /\ Sourced(w1)
  BY DEF Good, Changed, Sourced
<1>2. w1.uses = w.uses \cup Users(t) /\ w1.visited = w.visited /\ t \in code.temps
  BY DEF Changed
<1>3. CASE hasDomTree
  <2>1. CASE s \in Users(t)
    BY <2>1, <1>2
  <2>2. CASE \E k \in Relays : s \in Users(DestAt(code, k)) /\ w.visited[k[1]] # {} /\ Reads(w, k, t)
    <3> PICK k \in Relays : s \in Users(DestAt(code, k)) /\ w.visited[k[1]] # {} /\ Reads(w, k, t)
      BY <2>2
    <3>1. ~Quiet(w1, k)
      BY <1>1, <1>3, RelayIsMoved
    <3> QED
      BY <3>1, <1>2, <1>3 DEF Awaits
  <2> QED
    BY <2>1, <2>2, <1>1, ReadersAreTold
<1>4. CASE Listed(s)
  <2>1. PICK j \in PlacesRead(w, s) : OperandAt(new, s, j) = Named(t)
    BY DEF Reads
  <2>2. Named(t) \in OperandsAt(new, s)
    <3>1. j \in Places(code, s)
      BY DEF PlacesRead
    <3> QED
      BY <2>1, <3>1, OperandFacts
  <2> QED
    BY <2>2, <1>2, <1>4 DEF Listed
<1> QED
  BY <1>3, <1>4 DEF Followed

\* A statement that defines something else than what has changed.
LEMMA OthersCovered ==
  ASSUME code \in Programs, SameShape, Substituted, NEW w, NEW w1, NEW t, NEW y, Good(w),
         Changed(w, w1, t, y), Falls(w.value[t], y), GoodValue(y),
         NEW s \in Sites(code), w.visited[s[1]] # {}, Followed(s), DestAt(code, s) # t,
         AtRest(w, s) \/ Awaits(w, s)
  PROVE  s \in w1.uses \/ AtRest(w1, s) \/ Awaits(w1, s)
<1>1. /\ w1.uses = w.uses \cup Users(t) /\ w1.visited = w.visited /\ w1.edges = w.edges
      /\ \A u \in code.temps : u # t => w1.value[u] = w.value[u]
  BY DEF Changed
<1>2. s[1] \in Block /\ s = <<s[1], s[2]>>
  BY SiteFacts
<1>3. ASSUME NEW d \in Sites(code), d[2] # 0, DestAt(code, d) # t, ~Reads(w, d, t)
      PROVE  Quiet(w1, d) <=> Quiet(w, d)
  <2>1. Result(w1, d) = Result(w, d)
    BY <1>1, <1>3, ResultSame
  <2>2. DestAt(code, d) # Null => w1.value[DestAt(code, d)] = w.value[DestAt(code, d)]
    BY <1>1, <1>3, PlaceFacts
  <2> QED
    BY <2>1, <2>2 DEF Quiet
<1>4. CASE Reads(w, s, t)
  BY <1>4, Told
<1>5. CASE ~Reads(w, s, t) /\ AtRest(w, s)
  <2>1. CASE s[2] = 0
    <3>1. Taken(w1, s[1]) = Taken(w, s[1])
      BY <1>1, <1>2, <1>5, <2>1, TakenSame
    <3> QED
      BY <3>1, <1>1, <1>5, <2>1 DEF AtRest
  <2>2. CASE s[2] # 0
    BY <1>3, <1>5, <2>2 DEF AtRest
  <2> QED
    BY <2>1, <2>2
<1>6. CASE Awaits(w, s)
  <2> PICK k \in Relays : w.visited[k[1]] # {} /\ ~Quiet(w, k) /\ s \in Users(DestAt(code, k))
    BY <1>6 DEF Awaits
  <2>1. hasDomTree
    BY <1>6 DEF Awaits
  <2>2. k \in Sites(code) /\ k[2] # 0
    BY RelayFacts
  <2>3. CASE DestAt(code, k) = t
    BY <2>3, <1>1
  <2>4. CASE DestAt(code, k) # t
    <3>1. CASE Reads(w, k, t)
      <4>1. Sourced(w) /\ GoodValues(w) /\ Behind(w) /\ Sourced(w1)
        BY DEF Good, Changed, Sourced
      <4>2. ~Quiet(w1, k)
        BY <2>1, <3>1, <4>1, RelayIsMoved
      <4> QED
        BY <4>2, <2>1, <1>1 DEF Awaits
    <3>2. CASE ~Reads(w, k, t)
      BY <1>1, <1>3, <2>1, <2>2, <2>4, <3>2 DEF Awaits
    <3> QED
      BY <3>1, <3>2
  <2> QED
    BY <2>3, <2>4
<1> QED
  BY <1>4, <1>5, <1>6

\* The relay takes what it relays, which may not fall beside it.
LEMMA BehindKept ==
  ASSUME code \in Programs, SameShape, NEW w, NEW w1, NEW s \in Sites(code), NEW y, Good(w),
         w.visited[s[1]] # {}, s[2] # 0,
         Changed(w, w1, DestAt(code, s), y), Falls(w.value[DestAt(code, s)], y),
         y = MergeDefs(Result(w, s), w.value[DestAt(code, s)])
  PROVE  Behind(w1)
<1> DEFINE t == DestAt(code, s)
<1>1. t \in code.temps /\ w1.value[t] = y /\ y # w.value[t] /\ \A u \in code.temps : u # t => w1.value[u] = w.value[u]
  BY DEF Changed
<1>2. Sourced(w) /\ GoodValues(w) /\ Behind(w)
  BY DEF Good
<1> SUFFICES ASSUME hasDomTree, NEW k \in Relays, NEW j \in Places(code, k),
                    OperandAt(new, k, j).k = "name",
                    w1.value[DestAt(code, k)] # Undefined, w1.value[OperandAt(new, k, j).v] # Null
             PROVE  w1.value[DestAt(code, k)] = w1.value[OperandAt(new, k, j).v]
  BY DEF Behind
<1> DEFINE o == OperandAt(new, k, j)
           d == DestAt(code, k)
           v == GetValue(w, o)
<1>3. k \in Sites(code) /\ k[2] < 0 /\ d \in code.temps /\ d # Null /\ d \in Relayed
  BY RelayFacts
<1>4. o.v \in code.temps /\ o.v \notin Relayed /\ o = Named(o.v) /\ o.v # d
  BY <1>3, OperandFacts
<1>5. w.value[d] # Undefined /\ w.value[o.v] # Null => w.value[d] = w.value[o.v]
  BY <1>2 DEF Behind
<1>6. CASE t = d
  <2>1. s = k
    BY <1>3, <1>6, DefinedOnce
  <2>2. PlacesRead(w, k) = {j}
    BY <1>2, <2>1, RelayFacts
  <2>3. w1.value[o.v] = w.value[o.v]
    BY <1>1, <1>4, <1>6
  <2>4. v = w.value[o.v]
    BY <2>3, <1>4 DEF GetValue
  <2>5. v # Named(d)
    BY <1>2, <1>3, <1>4, <2>3, <2>4, KindsOfOperands DEF GoodValues, GoodValue
  <2>6. Result(w, k) = v
    <3>1. {GetValue(w, OperandAt(new, k, q)) : q \in PlacesRead(w, k)} = {v}
      BY <2>2
    <3>2. Result(w, k) = CalculatedPhi(d, {v})
      BY <3>1, <1>3 DEF Result
    <3> HIDE DEF v, d, o
    <3> QED
      BY <3>2, <2>5, PhiCopies
  <2>7. y = MergeDefs(v, w.value[d])
    BY <2>1, <2>6
  <2> HIDE DEF v, d, o, t
  <2>8. w.value[d] # Undefined => w.value[d] = v
    BY <1>5, <2>3, <2>4 DEF o
  <2>9. CASE w.value[d] = Undefined
    <3>1. y = v
      BY <2>7, <2>9 DEF MergeDefs
    <3> QED
      BY <3>1, <2>3, <2>4, <1>1, <1>6 DEF o, d
  <2>10. CASE w.value[d] # Undefined
    <3>1. y = w.value[d]
      BY <2>7, <2>8, <2>10 DEF MergeDefs
    <3> QED
      BY <3>1, <1>1, <1>6
  <2> QED
    BY <2>9, <2>10
<1>7. CASE t # d /\ t = o.v
  <2>1. w.value[o.v] = Undefined
    BY <1>1, <1>7 DEF Falls
  <2>2. w1.value[d] = w.value[d]
    BY <1>1, <1>3, <1>7
  <2> QED
    BY <1>5, <2>1, <2>2, NullAssumption
<1>8. CASE t # d /\ t # o.v
  BY <1>1, <1>3, <1>4, <1>5, <1>8
<1> QED
  BY <1>6, <1>7, <1>8

\* Values have fallen from w to w1.
Fallen(w, w1) ==
  \A t \in code.temps : w1.value[t] # w.value[t] => Falls(w.value[t], w1.value[t])

LEMMA FallenTwice ==
  ASSUME NEW w, NEW w1, NEW w2, Fallen(w, w1), Fallen(w1, w2)
  PROVE  Fallen(w, w2)
BY NullAssumption DEF Fallen, Falls

Kept(w, w1, todo) == Good(w1) /\ Covered(w1, todo) /\ w1.visited = w.visited /\ Fallen(w, w1)

LEMMA FlowVisitKeeps ==
  ASSUME code \in Programs, SameShape, Substituted, NEW w, NEW todo, NEW s \in Sites(code),
         Good(w), Covered(w, todo \cup {s}), w.visited[s[1]] # {}, s[2] = 0
  PROVE  Kept(w, VisitFlow(w, s[1]), todo)
<1> DEFINE b == s[1]
           more == {b} \X Taken(w, b)
           w1 == [w EXCEPT !.edges = w.edges \cup more]
<1>1. b \in Block /\ s = <<b, 0>>
  BY SiteFacts
<1>2. VisitFlow(w, b) = w1
  BY DEF VisitFlow
<1>3. w = [value |-> w.value, visited |-> w.visited, edges |-> w.edges, uses |-> w.uses]
  BY DEF Good, Typed
<1>4. /\ w1 = [value |-> w.value, visited |-> w.visited, edges |-> w.edges \cup more, uses |-> w.uses]
      /\ w1.value = w.value /\ w1.visited = w.visited /\ w1.edges = w.edges \cup more /\ w1.uses = w.uses
  <2> HIDE DEF more
  <2> QED BY <1>3
<1>5. Taken(w, b) \subseteq Range(code.flow[b].to)
  <2>1. code.flow[b] \in FlowStmt
    BY <1>1, FlowIs
  <2>2. code.flow[b].op = "branch" => {1, 2} \subseteq DOMAIN code.flow[b].to
    <3>1. code.flow[b].op = "branch" => \E x, y : code.flow[b].to = <<x, y>>
      <4>1. \A x : Jump(x).op = "jump" /\ Return.op = "return" /\ Unreachable.op = "unreachable"
        BY DEF Jump, Return, Unreachable
      <4>2. code.flow[b].op = "branch" => \E x, y \in Block : code.flow[b] = Branch(x, y)
        BY <2>1, <4>1 DEF FlowStmt
      <4>3. \A x, y : Branch(x, y).to = <<x, y>>
        BY DEF Branch
      <4> QED
        BY <4>2, <4>3
    <3>2. \A x, y : DOMAIN <<x, y>> = {1, 2}
      OBVIOUS
    <3> QED
      BY <3>1, <3>2
  <2>3. Zero.v = 0 /\ One.v = 1
    BY DEF Zero, One, Const
  <2>4. CASE code.flow[b].op # "branch"
    BY <2>4 DEF Taken
  <2>5. CASE code.flow[b].op = "branch" /\ GetValue(w, new.cond[b]) \in {Zero, One}
    BY <2>2, <2>3, <2>5 DEF Taken, Range
  <2>6. CASE code.flow[b].op = "branch" /\ GetValue(w, new.cond[b]) \notin {Zero, One}
    BY <2>6 DEF Taken
  <2> QED
    BY <2>4, <2>5, <2>6
<1>6. Range(code.flow[b].to) \subseteq Block
  BY <1>1, FlowIs, TargetFacts
<1>7. \A e \in more : e = <<e[1], e[2]>> /\ e[1] \in Preds(code, e[2]) /\ e[2] \in Block /\ w.visited[e[1]] # {}
  BY <1>1, <1>5, <1>6 DEF Preds
<1> HIDE DEF w1
<1>8. \A d \in Sites(code) : Result(w1, d) = Result(w, d)
  BY <1>4 DEF Result, GetValue, PlacesRead
<1>9. ASSUME NEW a PROVE Taken(w1, a) = Taken(w, a)
  <2>1. GetValue(w1, new.cond[a]) = GetValue(w, new.cond[a])
    BY <1>4 DEF GetValue
  <2> QED
    BY <2>1 DEF Taken
<1>10. Good(w1)
  <2> HIDE DEF more
  <2>1. Typed(w1)
    BY <1>4 DEF Good, Typed
  <2>2. Sourced(w1)
    BY <1>4, <1>7 DEF Good, Sourced
  <2>3. GoodValues(w1) /\ Behind(w1)
    BY <1>4 DEF Good, GoodValues, Behind
  <2> QED
    BY <2>1, <2>2, <2>3 DEF Good
<1>11. Covered(w1, todo)
  <2> SUFFICES ASSUME NEW d \in Sites(code), w1.visited[d[1]] # {}, hasDomTree \/ Listed(d)
               PROVE  d \in w1.uses \cup todo \/ AtRest(w1, d) \/ Awaits(w1, d)
    BY DEF Covered
  <2>1. d \in w.uses \cup todo \cup {s} \/ AtRest(w, d) \/ Awaits(w, d)
    BY <1>4 DEF Covered
  <2>2. CASE d = s
    BY <2>2, <1>1, <1>4, <1>9 DEF AtRest
  <2>3. CASE AtRest(w, d)
    BY <2>3, <1>4, <1>8, <1>9 DEF AtRest, Quiet
  <2>4. CASE Awaits(w, d)
    BY <2>4, <1>4, <1>8, RelayFacts DEF Awaits, Quiet
  <2> QED
    BY <2>1, <2>2, <2>3, <2>4, <1>4
<1> QED
  BY <1>2, <1>4, <1>10, <1>11 DEF Kept, Fallen

LEMMA VisitKeeps ==
  ASSUME code \in Programs, SameShape, Substituted, NEW w, NEW todo, NEW s \in Sites(code),
         Good(w), Covered(w, todo \cup {s})
  PROVE  Kept(w, Visit(w, s), todo)
<1> DEFINE t == DestAt(code, s)
           y == MergeDefs(Result(w, s), w.value[t])
           w1 == TryUpdate(w, t, Result(w, s))
<1>1. Good(w) /\ Fallen(w, w)
  BY DEF Fallen
<1>2. CASE w.visited[s[1]] = {}
  <2>1. Visit(w, s) = w
    BY <1>2 DEF Visit
  <2>2. Covered(w, todo)
    BY <1>2 DEF Covered
  <2> QED
    BY <2>1, <2>2, <1>1 DEF Kept
<1>3. CASE w.visited[s[1]] # {} /\ s[2] = 0
  BY <1>3, FlowVisitKeeps, VisitIs
<1>4. CASE w.visited[s[1]] # {} /\ s[2] # 0
  <2>1. Visit(w, s) = w1
    BY <1>4, VisitIs
  <2>2. t \in code.temps \cup {Null}
    BY PlaceFacts
  <2>3. \/ w1 = w /\ (t = Null \/ Result(w, s) = Named(t) \/ y = w.value[t])
        \/ Changed(w, w1, t, y) /\ Result(w, s) # Named(t)
    BY <2>2, TryUpdateIs DEF Good
  <2>4. CASE w1 = w /\ (t = Null \/ Result(w, s) = Named(t) \/ y = w.value[t])
    <3>1. AtRest(w, s)
      BY <1>4, <2>4 DEF AtRest, Quiet
    <3>2. Covered(w, todo)
      BY <3>1 DEF Covered
    <3> QED
      BY <2>1, <2>4, <3>2, <1>1 DEF Kept
  <2>5. CASE Changed(w, w1, t, y) /\ Result(w, s) # Named(t)
    <3> HIDE DEF w1
    <3>1. /\ t \in code.temps /\ t # Null /\ y # w.value[t] /\ w1.value[t] = y
          /\ \A u \in code.temps : u # t => w1.value[u] = w.value[u]
          /\ w1.visited = w.visited /\ w1.edges = w.edges /\ w1.uses = w.uses \cup Users(t)
          /\ Typed(w1)
      BY <2>5 DEF Changed
    <3>2. Falls(w.value[t], y) /\ Fallen(w, w1)
      BY <3>1, Merging DEF Falls, Fallen
    <3>3. GoodValue(y) /\ y # Named(t)
      <4>1. GoodValue(Result(w, s)) /\ GoodValue(w.value[t]) /\ GoodValue(Null) /\ w.value[t] # Named(t)
        BY <1>4, <3>1, ResultGood DEF Good, GoodValues, GoodValue
      <4>2. y \in {Result(w, s), w.value[t], Null}
        BY Merging
      <4>3. Named(t) # Null
        BY <3>1, NamesAreNoNull
      <4> HIDE DEF y
      <4> QED
        BY <4>1, <4>2, <4>3, <2>5
    <3>4. Good(w1)
      <4>1. GoodValues(w1)
        BY <3>1, <3>3 DEF Good, GoodValues
      <4>2. Sourced(w1)
        BY <3>1 DEF Good, Sourced
      <4>3. Behind(w1)
        BY <1>4, <2>5, <3>2, BehindKept
      <4> QED
        BY <3>1, <4>1, <4>2, <4>3 DEF Good
    <3>5. Covered(w1, todo)
      <4> SUFFICES ASSUME NEW d \in Sites(code), w.visited[d[1]] # {}, Followed(d), d \notin w1.uses \cup todo
                   PROVE  AtRest(w1, d) \/ Awaits(w1, d)
        BY <3>1 DEF Covered, Followed
      <4>1. CASE d # s
        <5>1. AtRest(w, d) \/ Awaits(w, d)
          BY <4>1, <3>1 DEF Covered, Followed
        <5>2. DestAt(code, d) # t
          BY <4>1, <3>1, DefinedOnce
        <5> QED
          BY <5>1, <5>2, <2>5, <3>2, <3>3, OthersCovered
      <4>2. CASE d = s /\ Reads(w, s, t)
        BY <4>2, <2>5, <3>2, <3>3, Told
      <4>3. CASE d = s /\ ~Reads(w, s, t)
        <5>1. Result(w1, s) = Result(w, s)
          BY <4>3, <1>4, <3>1, ResultSame
        <5>2. MergeDefs(Result(w1, s), w1.value[t]) = w1.value[t]
          BY <5>1, <3>1, Merging
        <5> QED
          BY <5>2, <4>3, <1>4 DEF AtRest, Quiet
      <4> QED
        BY <4>1, <4>2, <4>3
    <3> QED
      BY <2>1, <3>1, <3>2, <3>4, <3>5 DEF Kept, w1
  <2> QED
    BY <2>3, <2>4, <2>5
<1> QED
  BY <1>2, <1>3, <1>4

-----------------------------------------------------------------------------

IsVisit(at, w, sites, n) ==
  at = [i \in 0..n |-> IF i = 0 THEN w ELSE Visit(at[i - 1], sites[i])]

LEMMA VisitExists ==
  ASSUME NEW w, NEW sites, NEW n \in Nat
  PROVE  \E at : IsVisit(at, w, sites, n)
<1> DEFINE S == {k \in Nat : \E at : IsVisit(at, w, sites, k)}
           Turn(at, i) == IF i = 0 THEN w ELSE Visit(at[i - 1], sites[i])
<1>1. 0 \in S
  <2> DEFINE at == [i \in 0..0 |-> w]
  <2>1. IsVisit(at, w, sites, 0)
    BY DEF IsVisit
  <2> QED
    BY <2>1
<1>2. ASSUME NEW k \in Nat, k \in S PROVE k + 1 \in S
  <2> PICK at : IsVisit(at, w, sites, k)
    BY <1>2
  <2> DEFINE next == [i \in 0..(k + 1) |-> IF i = k + 1 THEN Turn(at, i) ELSE at[i]]
  <2>1. \A i \in 0..k : at[i] = Turn(at, i)
    BY DEF IsVisit
  <2>2. \A i \in 1..(k + 1) : next[i - 1] = at[i - 1]
    OBVIOUS
  <2>3. \A i \in 0..(k + 1) : next[i] = Turn(next, i)
    <3> SUFFICES ASSUME NEW i \in 0..(k + 1) PROVE next[i] = Turn(next, i)
      OBVIOUS
    <3>1. i = 0 \/ next[i - 1] = at[i - 1]
      BY <2>2
    <3>2. next[i] = Turn(at, i)
      BY <2>1
    <3> QED
      BY <3>1, <3>2
  <2>4. next = [i \in 0..(k + 1) |-> next[i]]
    OBVIOUS
  <2> HIDE DEF next
  <2>5. IsVisit(next, w, sites, k + 1)
    BY <2>3, <2>4 DEF IsVisit
  <2> QED
    BY <2>5
<1> HIDE DEF S
<1>3. n \in S
  BY <1>1, <1>2, Induction
<1> QED
  BY <1>3 DEF S

LEMMA VisitAllKeeps ==
  ASSUME code \in Programs, SameShape, Substituted, NEW w, NEW sites \in Seq(Sites(code)),
         Good(w), Covered(w, Range(sites))
  PROVE  Kept(w, VisitAll(w, sites), {})
<1> DEFINE n == Len(sites)
           Rest(i) == {sites[j] : j \in (i + 1)..n}
<1>1. n \in Nat /\ \A i \in 1..n : sites[i] \in Sites(code)
  OBVIOUS
<1>2. PICK at : at = CHOOSE u : IsVisit(u, w, sites, n)
  OBVIOUS
<1>3. IsVisit(at, w, sites, n)
  BY <1>1, <1>2, VisitExists
<1>4. VisitAll(w, sites) = at[n]
  BY <1>2 DEF VisitAll, IsVisit
<1>5. at[0] = w /\ \A i \in 0..n : i + 1 <= n => at[i + 1] = Visit(at[i], sites[i + 1])
  BY <1>1, <1>3 DEF IsVisit
<1> DEFINE S == {i \in Nat : i <= n => Kept(w, at[i], Rest(i))}
<1>6. 0 \in S
  <2>1. Rest(0) = Range(sites)
    BY DEF Range
  <2> QED
    BY <2>1, <1>5 DEF Kept, Fallen
<1>7. ASSUME NEW i \in Nat, i \in S PROVE i + 1 \in S
  <2> SUFFICES ASSUME i + 1 <= n PROVE Kept(w, at[i + 1], Rest(i + 1))
    OBVIOUS
  <2>1. Kept(w, at[i], Rest(i))
    BY <1>1, <1>7
  <2>2. Rest(i) = Rest(i + 1) \cup {sites[i + 1]} /\ sites[i + 1] \in Sites(code) /\ at[i + 1] = Visit(at[i], sites[i + 1])
    BY <1>1, <1>5
  <2> HIDE DEF Rest
  <2>3. Good(at[i]) /\ Covered(at[i], Rest(i + 1) \cup {sites[i + 1]})
    BY <2>1, <2>2 DEF Kept
  <2>4. Kept(at[i], at[i + 1], Rest(i + 1))
    BY <2>2, <2>3, VisitKeeps
  <2> QED
    BY <2>1, <2>4, FallenTwice DEF Kept
<1>8. n \in S
  <2> HIDE DEF S
  <2> QED BY <1>1, <1>6, <1>7, Induction
<1>9. Rest(n) = {}
  BY <1>1
<1>10. Kept(w, at[n], Rest(n))
  BY <1>1, <1>8
<1> QED
  BY <1>4, <1>9, <1>10

\* What a block's predecessor is dominated by, or the block itself, is all it
\* is dominated by: so the blocks that were visited hold their dominators.
LEMMA EdgeKeepsSourced ==
  ASSUME code \in Programs, NEW w, NEW w1, Good(w), NEW e \in w.edges,
         w1.value = w.value, w1.edges = w.edges \ {e}, w1.uses = w.uses,
         w1.visited = [w.visited EXCEPT ![e[2]] = @ \cup {e[1]}]
  PROVE  e[2] \in Block /\ Sourced(w1) /\ (e[1] \in w.visited[e[2]] \/ ~OneWayIn(code, e[2]) \/ w.visited[e[2]] = {})
<1> DEFINE p == e[1]
           b == e[2]
<1>1. Sourced(w) /\ w.visited \in [Block -> SUBSET (Block \cup {Null})]
  BY DEF Good, Typed
<1>2. \/ e = <<Null, Entry>>
      \/ p \in Preds(code, b) /\ b \in Block /\ w.visited[p] # {} /\ p \in Block /\ p # Null
  BY <1>1, BlockAssumption DEF Sourced, Preds
<1>3. b \in Block /\ (p = Null => b = Entry)
  BY <1>2, BlockAssumption
<1>4. w1.visited[b] = w.visited[b] \cup {p} /\ \A a \in Block : a # b => w1.visited[a] = w.visited[a]
  BY <1>1, <1>3
<1> HIDE DEF p, b
<1>5. \A a \in Block : w.visited[a] # {} => w1.visited[a] # {}
  BY <1>3, <1>4
<1>6. \A f \in w1.edges :
       \/ f = <<Null, Entry>>
       \/ f = <<f[1], f[2]>> /\ f[1] \in Preds(code, f[2]) /\ f[2] \in Block /\ w1.visited[f[1]] # {}
  BY <1>1, <1>5 DEF Sourced, Preds
<1>7. ASSUME NEW a \in Block, NEW q \in w1.visited[a]
      PROVE  IF q = Null THEN a = Entry ELSE q \in Preds(code, a) /\ w1.visited[q] # {}
  <2>1. CASE a = b /\ q = p
    BY <2>1, <1>2, <1>3, <1>5 DEF p, b
  <2>2. CASE q \in w.visited[a]
    BY <2>2, <1>1, <1>5 DEF Sourced, Preds
  <2> QED
    BY <2>1, <2>2, <1>4, <1>7
<1>8. ASSUME NEW a \in Block, NEW d \in Block, w1.visited[a] # {}, <<d, a>> \in Domi
      PROVE  w1.visited[d] # {}
  <2>1. CASE w.visited[a] # {}
    BY <2>1, <1>1, <1>5, <1>8 DEF Sourced
  <2>2. CASE a = b
    <3>1. CASE d = b
      BY <3>1, <1>4, <1>3
    <3>2. CASE d # b /\ e = <<Null, Entry>>
      BY <3>2, <2>2, <1>8, BlockAssumption, RootHasOneDominator DEF Domi, Node, b
    <3>3. CASE d # b /\ p \in Preds(code, b) /\ w.visited[p] # {} /\ p \in Block
      <4>1. <<p, b>> \in ForwardEdges(code.flow)
        <5>1. b \in Range(code.flow[p].to)
          BY <3>3 DEF Preds
        <5>2. code.flow \in [Block -> FlowStmt]
          BY FlowIs
        <5>3. b \in Targets(code.flow[p])
          BY <5>1, <5>2, <3>3, TargetFacts
        <5> QED
          BY <5>2, <5>3, <3>3, TargetFacts
      <4>2. <<d, p>> \in Domi
        BY <4>1, <1>3, <1>8, <2>2, <3>3, DominatesPredecessors DEF Domi, Node
      <4> QED
        BY <4>2, <3>3, <1>1, <1>5 DEF Sourced
    <3> QED
      BY <3>1, <3>2, <3>3, <1>2 DEF p, b
  <2> QED
    BY <2>1, <2>2, <1>4, <1>8
<1>9. p \in w.visited[b] \/ ~OneWayIn(code, b) \/ w.visited[b] = {}
  <2> SUFFICES ASSUME OneWayIn(code, b), w.visited[b] # {} PROVE p \in w.visited[b]
    OBVIOUS
  <2>1. PICK q \in Block : Preds(code, b) = {q}
    BY DEF OneWayIn
  <2>2. b # Entry
    BY <2>1, ProgramsAssumption
  <2>3. p = q
    BY <2>1, <2>2, <1>2 DEF p, b
  <2>4. \A r \in w.visited[b] : r = q
    BY <1>1, <1>3, <2>1, <2>2 DEF Sourced
  <2> QED
    BY <2>3, <2>4
<1>10. Sourced(w1)
  BY <1>6, <1>7, <1>8 DEF Sourced
<1> QED
  BY <1>3, <1>9, <1>10 DEF p, b

LEMMA EdgeKeeps ==
  ASSUME code \in Programs, SameShape, Substituted, NEW w, NEW w1, Good(w), Covered(w, {}),
         NEW e \in w.edges, e[1] \notin w.visited[e[2]],
         w1 = [value |-> w.value, visited |-> [w.visited EXCEPT ![e[2]] = @ \cup {e[1]}],
               edges |-> w.edges \ {e}, uses |-> w.uses],
         NEW sites, sites \subseteq Sites(code),
         \A s \in Sites(code) : s[1] = e[2] /\ (w.visited[e[2]] = {} \/ s[2] <= 0) => s \in sites
  PROVE  Good(w1) /\ Covered(w1, sites)
<1> DEFINE p == e[1]
           b == e[2]
<1>1. /\ w1.value = w.value /\ w1.edges = w.edges \ {e} /\ w1.uses = w.uses
      /\ w1.visited = [w.visited EXCEPT ![e[2]] = @ \cup {e[1]}]
      /\ w1 = [value |-> w1.value, visited |-> w1.visited, edges |-> w1.edges, uses |-> w1.uses]
  OBVIOUS
<1>2. /\ e[2] \in Block /\ Sourced(w1) /\ (~OneWayIn(code, e[2]) \/ w.visited[e[2]] = {})
  BY <1>1, EdgeKeepsSourced
<1>3. w.visited \in [Block -> SUBSET (Block \cup {Null})]
  BY DEF Good, Typed
<1>4. w1.visited[b] = w.visited[b] \cup {p} /\ \A a \in Block : a # b => w1.visited[a] = w.visited[a]
  BY <1>1, <1>2, <1>3
<1>5. e = <<p, b>> /\ p \in Block \cup {Null}
  <2>1. Sourced(w)
    BY DEF Good
  <2>2. e = <<Null, Entry>> \/ (e = <<p, b>> /\ p \in Block)
    BY <2>1 DEF Sourced, Preds
  <2> QED
    BY <2>2
<1>6. Good(w1)
  <2>1. w1.visited \in [Block -> SUBSET (Block \cup {Null})]
    BY <1>1, <1>2, <1>3, <1>5
  <2>2. Typed(w1)
    BY <1>1, <2>1 DEF Good, Typed
  <2>3. GoodValues(w1) /\ Behind(w1)
    BY <1>1 DEF Good, GoodValues, Behind
  <2> QED
    BY <1>2, <2>2, <2>3 DEF Good
<1>7. \A o : GetValue(w1, o) = GetValue(w, o)
  BY <1>1 DEF GetValue
<1>8. ASSUME NEW s \in Sites(code), s[1] # b \/ s[2] > 0, s[2] # 0
      PROVE  Quiet(w1, s) <=> Quiet(w, s)
  <2>1. s[1] \in Block /\ s[2] \in Int
    BY SiteFacts
  <2>2. PlacesRead(w1, s) = PlacesRead(w, s)
    <3>1. s[2] > 0 \/ w1.visited[s[1]] = w.visited[s[1]]
      BY <1>4, <1>8, <2>1
    <3>2. ~(s[2] > 0 /\ s[2] < 0)
      BY <2>1
    <3>3. PlacesRead(w1, s) = IF s[2] < 0 THEN Places(code, s) \cap w1.visited[s[1]] ELSE Places(code, s)
      BY DEF PlacesRead
    <3>4. PlacesRead(w, s) = IF s[2] < 0 THEN Places(code, s) \cap w.visited[s[1]] ELSE Places(code, s)
      BY DEF PlacesRead
    <3> QED
      BY <3>1, <3>2, <3>3, <3>4
  <2>3. Result(w1, s) = Result(w, s)
    BY <1>7, <2>2 DEF Result
  <2> QED
    BY <1>1, <2>3 DEF Quiet
<1>9. ASSUME NEW s \in Sites(code), s[2] = 0, AtRest(w, s)
      PROVE  AtRest(w1, s)
  <2>1. s[1] \in Block
    BY SiteFacts
  <2>2. Taken(w1, s[1]) = Taken(w, s[1])
    BY <1>7 DEF Taken
  <2>3. ASSUME NEW x \in Taken(w, s[1]) PROVE <<s[1], x>> \in w1.edges \/ s[1] \in w1.visited[x]
    <3>1. CASE <<s[1], x>> = e
      BY <3>1, <1>4
    <3>2. CASE <<s[1], x>> # e /\ <<s[1], x>> \in w.edges
      BY <3>2, <1>1
    <3>3. CASE s[1] \in w.visited[x]
      BY <3>3, <1>1, <1>2, <1>3
    <3> QED
      BY <3>1, <3>2, <3>3, <2>3, <1>9 DEF AtRest
  <2> QED
    BY <2>2, <2>3, <1>9 DEF AtRest
<1>10. Covered(w1, sites)
  <2> SUFFICES ASSUME NEW s \in Sites(code), w1.visited[s[1]] # {}, hasDomTree \/ Listed(s),
                      s \notin w1.uses \cup sites
               PROVE  AtRest(w1, s) \/ Awaits(w1, s)
    BY DEF Covered
  <2>1. s[1] \in Block /\ s[2] \in Int
    BY SiteFacts
  <2>2. s[1] # b \/ (s[2] > 0 /\ w.visited[b] # {})
    BY <2>1
  <2>3. AtRest(w, s) \/ Awaits(w, s)
    BY <1>1, <1>4, <2>1, <2>2 DEF Covered
  <2>4. CASE AtRest(w, s)
    BY <2>2, <2>4, <1>8, <1>9 DEF AtRest
  <2>5. CASE Awaits(w, s)
    <3> PICK k \in Relays : w.visited[k[1]] # {} /\ ~Quiet(w, k) /\ s \in Users(DestAt(code, k))
      BY <2>5 DEF Awaits
    <3>1. k \in Sites(code) /\ k[1] \in Block /\ k[2] < 0 /\ OneWayIn(code, k[1])
      BY RelayFacts DEF Relays
    <3>2. k[1] # b
      BY <1>2, <3>1
    <3>3. ~Quiet(w1, k) /\ w1.visited[k[1]] # {}
      <4>1. k[1] # b /\ k[2] # 0
        BY <3>1, <3>2
      <4> HIDE DEF b
      <4> QED
        BY <4>1, <1>4, <1>8, <3>1
    <3> QED
      BY <2>5, <3>3 DEF Awaits
  <2> QED
    BY <2>3, <2>4, <2>5
<1> QED
  BY <1>6, <1>10

\* One phi statement killed.
LEMMA KilledIs ==
  ASSUME code \in Programs, NEW c, Shaped(c), NEW k \in Relays, NEW p, Places(code, k) = {p}
  PROVE  LET c1 == Killed(c, k[1], -k[2])
             t  == DestAt(code, k)
         IN  /\ Shaped(c1)
             /\ \A s \in Sites(code) : \A j \in Places(code, s) :
                  OperandAt(c1, s, j) = IF s \in Users(t) /\ OperandAt(c, s, j) = Named(t)
                                        THEN OperandAt(c, k, p) ELSE OperandAt(c, s, j)
<1> DEFINE b == k[1]
           i == -k[2]
           t == DestAt(code, k)
           init == OperandAt(c, k, p)
           F(s, o) == IF s \in Users(t) /\ o = Named(t) THEN init ELSE o
           c1 == Killed(c, b, i)
           cond == [a \in Block |-> F(<<a, 0>>, c.cond[a])]
           data == [a \in Block |-> [x \in DOMAIN c.data[a] |->
                     Stmt(c.data[a][x].op, c.data[a][x].dest,
                       [j \in DOMAIN c.data[a][x].args |-> F(<<a, x>>, c.data[a][x].args[j])])]]
           phi == [a \in Block |-> [x \in DOMAIN c.phi[a] |->
                    Phi(c.phi[a][x].dest,
                      [q \in DOMAIN c.phi[a][x].from |-> F(<<a, -x>>, c.phi[a][x].from[q])])]]
<1>1. k \in Sites(code) /\ b \in Block /\ k[2] < 0 /\ k[2] \in Int /\ k = <<k[1], k[2]>>
  BY RelayFacts, SiteFacts
<1>2. /\ c.phi[b][i].dest = t
      /\ DOMAIN c.phi[b][i].from = {p}
      /\ c.phi[b][i].from[CHOOSE q \in DOMAIN c.phi[b][i].from : TRUE] = init
  <2>1. DestAt(c, k) = t /\ Places(c, k) = {p}
    BY <1>1 DEF Shaped
  <2>2. c.phi[b][i].dest = t /\ DOMAIN c.phi[b][i].from = {p}
    BY <2>1, <1>1 DEF DestAt, Places
  <2>3. (CHOOSE q \in {p} : TRUE) = p
    OBVIOUS
  <2>4. init = c.phi[b][i].from[p]
    BY <1>1 DEF OperandAt
  <2> QED
    BY <2>2, <2>3, <2>4
<1>3. c1.cond = cond /\ c1.data = data /\ c1.phi = phi
  <2> HIDE DEF init, t, i, b
  <2>1. c1 = [cond |-> cond, data |-> data, phi |-> phi]
    BY <1>2 DEF Killed, Rewritten
  <2> HIDE DEF c1, cond, data, phi
  <2> QED
    BY <2>1
<1> HIDE DEF c1, F, t, i, b
<1>4. ASSUME NEW a \in Block PROVE DOMAIN c.data[a] = DOMAIN code.data[a] /\ DOMAIN c.phi[a] = DOMAIN code.phi[a]
  BY DEF Shaped
<1>5. ASSUME NEW a \in Block, NEW x \in DOMAIN code.data[a]
      PROVE  c1.data[a][x] = [op |-> c.data[a][x].op, dest |-> c.data[a][x].dest,
                              args |-> [j \in DOMAIN c.data[a][x].args |-> F(<<a, x>>, c.data[a][x].args[j])]]
  BY <1>3, <1>4, <1>5 DEF Stmt
<1>6. ASSUME NEW a \in Block, NEW x \in DOMAIN code.phi[a]
      PROVE  c1.phi[a][x] = [dest |-> c.phi[a][x].dest,
                             from |-> [q \in DOMAIN c.phi[a][x].from |-> F(<<a, -x>>, c.phi[a][x].from[q])]]
  BY <1>3, <1>4, <1>6 DEF Phi
<1>7. ASSUME NEW a \in Block PROVE c1.cond[a] = F(<<a, 0>>, c.cond[a])
  BY <1>3
<1>8. ASSUME NEW a \in Block PROVE DOMAIN c1.data[a] = DOMAIN code.data[a] /\ DOMAIN c1.phi[a] = DOMAIN code.phi[a]
  BY <1>3, <1>4
<1>9. ASSUME NEW s \in Sites(code)
      PROVE  /\ DestAt(c1, s) = DestAt(code, s) /\ Places(c1, s) = Places(code, s)
             /\ \A j \in Places(code, s) : OperandAt(c1, s, j) = F(s, OperandAt(c, s, j))
  <2> DEFINE a == s[1]
             x == s[2]
  <2>1. /\ s = <<a, x>> /\ a \in Block /\ x \in Int
        /\ x > 0 => x \in DOMAIN code.data[a]
        /\ x < 0 => -x \in DOMAIN code.phi[a]
    BY SiteFacts
  <2>2. DestAt(c, s) = DestAt(code, s) /\ Places(c, s) = Places(code, s)
    BY DEF Shaped
  <2> HIDE DEF a, x
  <2>3. CASE x = 0
    BY <1>7, <2>1, <2>2, <2>3 DEF a, x, DestAt, Places, OperandAt
  <2>4. CASE x > 0
    <3>1. c1.data[a][x] = [op |-> c.data[a][x].op, dest |-> c.data[a][x].dest,
                           args |-> [j \in DOMAIN c.data[a][x].args |-> F(<<a, x>>, c.data[a][x].args[j])]]
      BY <1>5, <2>1, <2>4
    <3>2. /\ c1.data[a][x].dest = c.data[a][x].dest
          /\ DOMAIN c1.data[a][x].args = DOMAIN c.data[a][x].args
          /\ \A j \in DOMAIN c.data[a][x].args : c1.data[a][x].args[j] = F(s, c.data[a][x].args[j])
      BY <3>1, <2>1
    <3>3. x # 0 /\ ~(x < 0)
      BY <2>1, <2>4
    <3>4. \A e : /\ DestAt(e, s) = e.data[a][x].dest
                 /\ Places(e, s) = DOMAIN e.data[a][x].args
                 /\ \A j : OperandAt(e, s, j) = e.data[a][x].args[j]
      BY <2>4, <3>3 DEF a, x, DestAt, Places, OperandAt
    <3> QED
      BY <3>2, <3>4, <2>2
  <2>5. CASE x < 0
    <3>1. c1.phi[a][-x] = [dest |-> c.phi[a][-x].dest,
                           from |-> [q \in DOMAIN c.phi[a][-x].from |-> F(<<a, -(-x)>>, c.phi[a][-x].from[q])]]
      BY <1>6, <2>1, <2>5
    <3>2. /\ c1.phi[a][-x].dest = c.phi[a][-x].dest
          /\ DOMAIN c1.phi[a][-x].from = DOMAIN c.phi[a][-x].from
          /\ \A j \in DOMAIN c.phi[a][-x].from : c1.phi[a][-x].from[j] = F(<<a, -(-x)>>, c.phi[a][-x].from[j])
      BY <3>1
    <3>3. x # 0 /\ ~(x > 0) /\ s = <<a, -(-x)>>
      BY <2>1, <2>5
    <3>4. \A e : /\ DestAt(e, s) = e.phi[a][-x].dest
                 /\ Places(e, s) = DOMAIN e.phi[a][-x].from
                 /\ \A j : OperandAt(e, s, j) = e.phi[a][-x].from[j]
      BY <2>5, <3>3 DEF a, x, DestAt, Places, OperandAt
    <3> QED
      BY <3>2, <3>3, <3>4, <2>2
  <2> QED
    BY <2>1, <2>3, <2>4, <2>5
<1>10. ASSUME NEW a \in Block, NEW x \in DOMAIN code.data[a] PROVE c1.data[a][x].op = code.data[a][x].op
  <2>1. c1.data[a][x].op = c.data[a][x].op
    <3>1. c1.data[a][x] = [op |-> c.data[a][x].op, dest |-> c.data[a][x].dest,
                           args |-> [j \in DOMAIN c.data[a][x].args |-> F(<<a, x>>, c.data[a][x].args[j])]]
      BY <1>5, <1>10
    <3> QED
      BY <3>1
  <2> QED
    BY <2>1 DEF Shaped
<1>11. Shaped(c1)
  BY <1>8, <1>9, <1>10 DEF Shaped
<1> QED
  BY <1>9, <1>11 DEF c1, F, t, i, b

\* What killSinglePhi has done when the relays D have been gone through.
KilledAll(c, D) ==
  /\ Shaped(c)
  /\ \A k \in D : \A q \in Places(code, k) : GoodOperand(OperandAt(c, k, q))
  /\ \A s \in Sites(code) : \A j \in Places(code, s) :
       LET o == OperandAt(code, s, j)
       IN  \/ OperandAt(c, s, j) = o /\ \A k \in D : o # Named(DestAt(code, k))
           \/ \E k \in D : /\ o = Named(DestAt(code, k))
                           /\ \A q \in Places(code, k) : OperandAt(c, s, j) = OperandAt(c, k, q)

LEMMA KilledStep ==
  ASSUME code \in Programs, NEW c, NEW D \in SUBSET Relays, KilledAll(c, D), NEW k \in Relays,
         \A d \in Relays : Named(DestAt(code, d)) \in OperandsAt(code, k) => d \in D
  PROVE  KilledAll(Killed(c, k[1], -k[2]), D \cup {k})
<1> DEFINE c1 == Killed(c, k[1], -k[2])
           t == DestAt(code, k)
<1>1. k \in Sites(code) /\ t \in Relayed /\ t # Null
  BY RelayFacts
<1>2. PICK p : Places(code, k) = {p}
  BY RelayFacts
<1>3. /\ Shaped(c1)
      /\ \A s \in Sites(code) : \A j \in Places(code, s) :
           OperandAt(c1, s, j) = IF s \in Users(t) /\ OperandAt(c, s, j) = Named(t)
                                 THEN OperandAt(c, k, p) ELSE OperandAt(c, s, j)
  BY <1>2, KilledIs DEF KilledAll
<1> HIDE DEF c1
<1>4. \A o : GoodOperand(o) => o # Named(t)
  BY <1>1, KindsOfOperands DEF GoodOperand
<1>5. GoodOperand(OperandAt(c, k, p))
  <2> DEFINE o == OperandAt(code, k, p)
  <2>1. o \in OperandsAt(code, k) /\ (o.k = "name" => o.v \in code.temps /\ o = Named(o.v))
    BY <1>1, <1>2, PlaceFacts
  <2>2. CASE \E d \in D : o = Named(DestAt(code, d)) /\ \A q \in Places(code, d) : OperandAt(c, k, p) = OperandAt(c, d, q)
    <3> PICK d \in D : \A q \in Places(code, d) : OperandAt(c, k, p) = OperandAt(c, d, q)
      BY <2>2
    <3>1. PICK q : Places(code, d) = {q}
      BY RelayFacts
    <3> QED
      BY <3>1 DEF KilledAll
  <2>3. CASE OperandAt(c, k, p) = o /\ \A d \in D : o # Named(DestAt(code, d))
    <3>1. ASSUME o.k = "name", o.v \in Relayed PROVE FALSE
      <4>1. PICK d \in Relays : o.v = DestAt(code, d)
        BY <3>1 DEF Relayed
      <4> QED
        BY <4>1, <3>1, <2>1, <2>3
    <3> QED
      BY <3>1, <2>1, <2>3 DEF GoodOperand
  <2> QED
    BY <1>1, <1>2, <2>2, <2>3 DEF KilledAll
<1>6. ASSUME NEW s \in Sites(code), NEW j \in Places(code, s), GoodOperand(OperandAt(c, s, j))
      PROVE  OperandAt(c1, s, j) = OperandAt(c, s, j)
  BY <1>3, <1>4, <1>6
<1>7. ASSUME NEW d \in D \cup {k}, NEW q \in Places(code, d)
      PROVE  GoodOperand(OperandAt(c, d, q)) /\ OperandAt(c1, d, q) = OperandAt(c, d, q)
  <2>1. GoodOperand(OperandAt(c, d, q))
    BY <1>2, <1>5, <1>7 DEF KilledAll
  <2>2. d \in Sites(code)
    BY RelayFacts
  <2> QED
    BY <2>1, <2>2, <1>6
<1>8. ASSUME NEW s \in Sites(code), NEW j \in Places(code, s)
      PROVE  LET o == OperandAt(code, s, j)
             IN  \/ OperandAt(c1, s, j) = o /\ \A d \in D \cup {k} : o # Named(DestAt(code, d))
                 \/ \E d \in D \cup {k} : /\ o = Named(DestAt(code, d))
                                          /\ \A q \in Places(code, d) : OperandAt(c1, s, j) = OperandAt(c1, d, q)
  <2> DEFINE o == OperandAt(code, s, j)
  <2>1. CASE \E d \in D : o = Named(DestAt(code, d)) /\ \A q \in Places(code, d) : OperandAt(c, s, j) = OperandAt(c, d, q)
    <3> PICK d \in D : /\ o = Named(DestAt(code, d))
                       /\ \A q \in Places(code, d) : OperandAt(c, s, j) = OperandAt(c, d, q)
      BY <2>1
    <3>1. PICK q : Places(code, d) = {q}
      BY RelayFacts
    <3>2. OperandAt(c, s, j) = OperandAt(c, d, q) /\ GoodOperand(OperandAt(c, d, q)) /\ OperandAt(c1, d, q) = OperandAt(c, d, q)
      BY <3>1, <1>7
    <3>3. OperandAt(c1, s, j) = OperandAt(c, s, j)
      BY <3>2, <1>6
    <3> QED
      BY <3>1, <3>2, <3>3
  <2>2. CASE OperandAt(c, s, j) = o /\ (\A d \in D : o # Named(DestAt(code, d))) /\ o # Named(t)
    BY <2>2, <1>3
  <2>3. CASE OperandAt(c, s, j) = o /\ o = Named(t)
    <3>1. s \in Users(t)
      BY <2>3, PlaceFacts DEF Users
    <3>2. OperandAt(c1, s, j) = OperandAt(c, k, p)
      BY <3>1, <2>3, <1>3
    <3>3. OperandAt(c1, k, p) = OperandAt(c, k, p)
      BY <1>2, <1>7
    <3> QED
      BY <3>2, <3>3, <2>3, <1>2
  <2> QED
    BY <2>1, <2>2, <2>3 DEF KilledAll
<1> QED
  BY <1>3, <1>7, <1>8 DEF KilledAll, c1

-----------------------------------------------------------------------------

\* killSinglePhi.
IsKilling(at, c, b, n) ==
  at = [i \in 0..n |-> IF i = 0 THEN c ELSE Killed(at[i - 1], b, i)]

LEMMA KillingExists ==
  ASSUME NEW c, NEW b, NEW n \in Nat
  PROVE  \E at : IsKilling(at, c, b, n)
<1> DEFINE S == {k \in Nat : \E at : IsKilling(at, c, b, k)}
           Turn(at, i) == IF i = 0 THEN c ELSE Killed(at[i - 1], b, i)
<1>1. 0 \in S
  <2> DEFINE at == [i \in 0..0 |-> c]
  <2>1. IsKilling(at, c, b, 0)
    BY DEF IsKilling
  <2> QED
    BY <2>1
<1>2. ASSUME NEW k \in Nat, k \in S PROVE k + 1 \in S
  <2> PICK at : IsKilling(at, c, b, k)
    BY <1>2
  <2> DEFINE next == [i \in 0..(k + 1) |-> IF i = k + 1 THEN Turn(at, i) ELSE at[i]]
  <2>1. \A i \in 0..k : at[i] = Turn(at, i)
    BY DEF IsKilling
  <2>2. \A i \in 1..(k + 1) : next[i - 1] = at[i - 1]
    OBVIOUS
  <2>3. \A i \in 0..(k + 1) : next[i] = Turn(next, i)
    <3> SUFFICES ASSUME NEW i \in 0..(k + 1) PROVE next[i] = Turn(next, i)
      OBVIOUS
    <3>1. i = 0 \/ next[i - 1] = at[i - 1]
      BY <2>2
    <3>2. next[i] = Turn(at, i)
      BY <2>1
    <3> QED
      BY <3>1, <3>2
  <2>4. next = [i \in 0..(k + 1) |-> next[i]]
    OBVIOUS
  <2> HIDE DEF next
  <2>5. IsKilling(next, c, b, k + 1)
    BY <2>3, <2>4 DEF IsKilling
  <2> QED
    BY <2>5
<1> HIDE DEF S
<1>3. n \in S
  BY <1>1, <1>2, Induction
<1> QED
  BY <1>3 DEF S

LEMMA KilledInKeeps ==
  ASSUME code \in Programs, NEW c, NEW b \in Block, NEW D \in SUBSET Relays, KilledAll(c, D),
         \A k, d \in Relays : k[1] = b /\ Named(DestAt(code, d)) \in OperandsAt(code, k) => d \in D
  PROVE  KilledAll(KilledIn(c, b), D \cup {k \in Relays : k[1] = b})
<1> DEFINE n == Len(code.phi[b])
           In(i) == {k \in Relays : k[1] = b /\ -k[2] <= i}
<1>1. n \in Nat /\ DOMAIN code.phi[b] = 1..n
  BY BodyFacts
<1>2. CASE ~OneWayIn(code, b)
  <2>1. {k \in Relays : k[1] = b} = {}
    BY <1>2 DEF Relays
  <2>2. KilledIn(c, b) = c
    BY <1>2 DEF KilledIn
  <2> QED
    BY <2>1, <2>2
<1>3. CASE OneWayIn(code, b)
  <2>1. PICK at : at = CHOOSE u : IsKilling(u, c, b, n)
    OBVIOUS
  <2>2. IsKilling(at, c, b, n)
    BY <1>1, <2>1, KillingExists
  <2>3. KilledIn(c, b) = at[n]
    BY <1>3, <2>1 DEF KilledIn, IsKilling
  <2>4. at[0] = c /\ \A i \in 0..n : i + 1 <= n => at[i + 1] = Killed(at[i], b, i + 1)
    BY <1>1, <2>2 DEF IsKilling
  <2> DEFINE S == {i \in Nat : i <= n => KilledAll(at[i], D \cup In(i))}
  <2>5. \A k \in Relays : k[1] = b => k = <<b, k[2]>> /\ k[2] \in Int /\ k[2] < 0 /\ -k[2] \in 1..n
    <3> SUFFICES ASSUME NEW k \in Relays, k[1] = b
                 PROVE  k = <<b, k[2]>> /\ k[2] \in Int /\ k[2] < 0 /\ -k[2] \in 1..n
      OBVIOUS
    <3> QED
      BY <1>1, RelayFacts, SiteFacts
  <2>6. 0 \in S
    <3>1. In(0) = {}
      BY <2>5
    <3>2. D \cup In(0) = D
      BY <3>1
    <3> HIDE DEF In
    <3> QED
      BY <2>4, <3>2
  <2>7. ASSUME NEW i \in Nat, i \in S PROVE i + 1 \in S
    <3> HIDE DEF In
    <3> SUFFICES ASSUME i + 1 <= n PROVE KilledAll(at[i + 1], D \cup In(i + 1))
      OBVIOUS
    <3> USE DEF In
    <3> DEFINE k == <<b, -(i + 1)>>
    <3>1. k \in Relays /\ k[1] = b /\ -k[2] = i + 1
      <4>1. k \in Sites(code)
        <5>1. i + 1 \in DOMAIN code.phi[b]
          BY <1>1
        <5> QED
          BY <5>1, SiteIntro
      <4> QED
        BY <4>1, <1>3 DEF Relays
    <3>2. In(i + 1) = In(i) \cup {k}
      <4>1. \A d \in Relays : d[1] = b => (-d[2] <= i + 1 <=> (-d[2] <= i \/ d = k))
        BY <2>5
      <4> QED
        BY <4>1, <3>1
    <3> HIDE DEF k
    <3>3. KilledAll(at[i], D \cup In(i)) /\ at[i + 1] = Killed(at[i], b, i + 1)
      BY <1>1, <2>4, <2>7
    <3>4. D \cup In(i) \in SUBSET Relays
      OBVIOUS
    <3> HIDE DEF In
    <3>5. KilledAll(Killed(at[i], k[1], -k[2]), (D \cup In(i)) \cup {k})
      BY <3>1, <3>3, <3>4, KilledStep
    <3>6. (D \cup In(i)) \cup {k} = D \cup In(i + 1)
      BY <3>2
    <3> QED
      BY <3>1, <3>3, <3>5, <3>6
  <2>8. n \in S
    <3> HIDE DEF S
    <3> QED BY <1>1, <2>6, <2>7, Induction
  <2>9. In(n) = {k \in Relays : k[1] = b}
    BY <2>5, <1>1
  <2> HIDE DEF In
  <2>10. KilledAll(at[n], D \cup In(n))
    <3>1. n <= n
      BY <1>1
    <3> HIDE DEF n
    <3> QED
      BY <2>8, <3>1
  <2> QED
    BY <2>3, <2>9, <2>10
<1> QED
  BY <1>2, <1>3

IsKillingAll(at, n) ==
  at = [i \in 0..n |-> IF i = 0 THEN code ELSE KilledIn(at[i - 1], code.order[i])]

LEMMA KillingAllExists ==
  ASSUME NEW n \in Nat
  PROVE  \E at : IsKillingAll(at, n)
<1> DEFINE S == {k \in Nat : \E at : IsKillingAll(at, k)}
           Turn(at, i) == IF i = 0 THEN code ELSE KilledIn(at[i - 1], code.order[i])
<1>1. 0 \in S
  <2> DEFINE at == [i \in 0..0 |-> code]
  <2>1. IsKillingAll(at, 0)
    BY DEF IsKillingAll
  <2> QED
    BY <2>1
<1>2. ASSUME NEW k \in Nat, k \in S PROVE k + 1 \in S
  <2> PICK at : IsKillingAll(at, k)
    BY <1>2
  <2> DEFINE next == [i \in 0..(k + 1) |-> IF i = k + 1 THEN Turn(at, i) ELSE at[i]]
  <2>1. \A i \in 0..k : at[i] = Turn(at, i)
    BY DEF IsKillingAll
  <2>2. \A i \in 1..(k + 1) : next[i - 1] = at[i - 1]
    OBVIOUS
  <2>3. \A i \in 0..(k + 1) : next[i] = Turn(next, i)
    <3> SUFFICES ASSUME NEW i \in 0..(k + 1) PROVE next[i] = Turn(next, i)
      OBVIOUS
    <3>1. i = 0 \/ next[i - 1] = at[i - 1]
      BY <2>2
    <3>2. next[i] = Turn(at, i)
      BY <2>1
    <3> QED
      BY <3>1, <3>2
  <2>4. next = [i \in 0..(k + 1) |-> next[i]]
    OBVIOUS
  <2> HIDE DEF next
  <2>5. IsKillingAll(next, k + 1)
    BY <2>3, <2>4 DEF IsKillingAll
  <2> QED
    BY <2>5
<1> HIDE DEF S
<1>3. n \in S
  BY <1>1, <1>2, Induction
<1> QED
  BY <1>3 DEF S

\* All relays are gone through, each behind those that it relays.
LEMMA KillSinglePhiKills ==
  ASSUME code \in Programs
  PROVE  KilledAll(KillSinglePhi, Relays)
<1> DEFINE n == Len(code.order)
           Before(m) == {k \in Relays : \E i \in 1..m : k[1] = code.order[i]}
<1>1. n \in Nat /\ DOMAIN code.order = 1..n /\ Range(code.order) = Block /\ \A i \in 1..n : code.order[i] \in Block
  <2>1. code.order \in Seq(Block) /\ Range(code.order) = Block
    BY ProgramsAssumption
  <2> QED
    BY <2>1
<1>2. PICK at : at = CHOOSE u : IsKillingAll(u, n)
  OBVIOUS
<1>3. IsKillingAll(at, n)
  BY <1>1, <1>2, KillingAllExists
<1>4. KillSinglePhi = at[n]
  BY <1>2 DEF KillSinglePhi, IsKillingAll
<1>5. at[0] = code /\ \A i \in 0..n : i + 1 <= n => at[i + 1] = KilledIn(at[i], code.order[i + 1])
  BY <1>1, <1>3 DEF IsKillingAll
<1> DEFINE S == {i \in Nat : i <= n => KilledAll(at[i], Before(i))}
<1>6. 0 \in S
  <2>1. Before(0) = {}
    OBVIOUS
  <2>2. KilledAll(code, {})
    BY DEF KilledAll, Shaped
  <2> HIDE DEF Before
  <2> QED
    BY <1>5, <2>1, <2>2
<1>7. ASSUME NEW i \in Nat, i \in S PROVE i + 1 \in S
  <2> SUFFICES ASSUME i + 1 <= n PROVE KilledAll(at[i + 1], Before(i + 1))
    OBVIOUS
  <2> DEFINE b == code.order[i + 1]
  <2>1. b \in Block /\ KilledAll(at[i], Before(i)) /\ at[i + 1] = KilledIn(at[i], b)
    BY <1>1, <1>5, <1>7
  <2>2. Before(i + 1) = Before(i) \cup {k \in Relays : k[1] = b}
    BY <1>1
  <2>3. ASSUME NEW k \in Relays, NEW d \in Relays, k[1] = b, Named(DestAt(code, d)) \in OperandsAt(code, k)
        PROVE  d \in Before(i)
    <3>1. d \in Sites(code) /\ d[1] \in Block /\ d[2] < 0 /\ OneWayIn(code, d[1])
      BY RelayFacts DEF Relays
    <3>2. k \in Sites(code) /\ k[2] < 0 /\ OneWayIn(code, k[1])
      BY RelayFacts DEF Relays
    <3>3. PICK x \in 1..n : d[1] = code.order[x]
      BY <3>1, <1>1 DEF Range
    <3>4. BlocksInOrder(code)
      BY ProgramsAssumption
    <3>5. x < i + 1
      BY <1>1, <2>3, <3>1, <3>2, <3>3, <3>4 DEF BlocksInOrder
    <3> QED
      BY <1>1, <3>3, <3>5
  <2>4. Before(i) \in SUBSET Relays
    OBVIOUS
  <2> HIDE DEF Before, b
  <2>5. KilledAll(KilledIn(at[i], b), Before(i) \cup {k \in Relays : k[1] = b})
    BY <2>1, <2>3, <2>4, KilledInKeeps
  <2> QED
    BY <2>1, <2>2, <2>5
<1>8. n \in S
  <2> HIDE DEF S
  <2> QED BY <1>1, <1>6, <1>7, Induction
<1>9. Before(n) = Relays
  <2>1. \A k \in Relays : k[1] \in Block
    BY RelayFacts
  <2> QED
    BY <2>1, <1>1 DEF Range
<1> HIDE DEF Before
<1>10. KilledAll(at[n], Before(n))
  BY <1>1, <1>8
<1> QED
  BY <1>4, <1>9, <1>10

LEMMA KilledIsSubstituted ==
  code \in Programs /\ KilledAll(new, Relays) => Substituted /\ SameShape
<1> SUFFICES ASSUME code \in Programs, KilledAll(new, Relays) PROVE Substituted /\ SameShape
  OBVIOUS
<1>1. ASSUME NEW s \in Sites(code), NEW j \in Places(code, s)
      PROVE  LET o == OperandAt(code, s, j)
             IN  /\ GoodOperand(OperandAt(new, s, j))
                 /\ \/ OperandAt(new, s, j) = o /\ \A t \in Relayed : o # Named(t)
                    \/ \E k \in Relays : /\ o = Named(DestAt(code, k))
                                         /\ \A q \in Places(code, k) : OperandAt(new, s, j) = OperandAt(new, k, q)
  <2> DEFINE o == OperandAt(code, s, j)
  <2>1. o.k = "name" => o.v \in code.temps /\ o = Named(o.v)
    BY PlaceFacts
  <2>2. CASE \E k \in Relays : /\ o = Named(DestAt(code, k))
                               /\ \A q \in Places(code, k) : OperandAt(new, s, j) = OperandAt(new, k, q)
    <3> PICK k \in Relays : /\ o = Named(DestAt(code, k))
                            /\ \A q \in Places(code, k) : OperandAt(new, s, j) = OperandAt(new, k, q)
      BY <2>2
    <3>1. PICK q : Places(code, k) = {q}
      BY RelayFacts
    <3>2. GoodOperand(OperandAt(new, k, q))
      BY <3>1 DEF KilledAll
    <3> QED
      BY <3>1, <3>2
  <2>3. CASE OperandAt(new, s, j) = o /\ \A k \in Relays : o # Named(DestAt(code, k))
    <3>1. \A t \in Relayed : o # Named(t)
      BY <2>3 DEF Relayed
    <3>2. GoodOperand(o)
      BY <2>1, <3>1 DEF GoodOperand
    <3> QED
      BY <2>3, <3>1, <3>2
  <2> QED
    BY <2>2, <2>3 DEF KilledAll
<1>2. Shaped(new)
  BY DEF KilledAll
<1> QED
  BY <1>1, <1>2 DEF Substituted, SameShape

-----------------------------------------------------------------------------

LEMMA Joined ==
  ASSUME NEW T, NEW s \in Seq(T), NEW u \in Seq(T)
  PROVE  s \o u \in Seq(T) /\ Range(s) \subseteq Range(s \o u) /\ Range(u) \subseteq Range(s \o u)
<1>1. /\ Len(s) \in Nat /\ Len(u) \in Nat /\ DOMAIN s = 1..Len(s) /\ DOMAIN u = 1..Len(u)
      /\ DOMAIN (s \o u) = 1..(Len(s) + Len(u))
      /\ \A i \in 1..Len(s) : (s \o u)[i] = s[i]
      /\ \A i \in 1..Len(u) : (s \o u)[Len(s) + i] = u[i]
  OBVIOUS
<1>2. \A i \in DOMAIN s : i \in DOMAIN (s \o u) /\ (s \o u)[i] = s[i]
  BY <1>1
<1>3. \A i \in DOMAIN u : Len(s) + i \in DOMAIN (s \o u) /\ (s \o u)[Len(s) + i] = u[i]
  BY <1>1
<1>4. Range(s) \subseteq Range(s \o u)
  BY <1>2 DEF Range
<1>5. Range(u) \subseteq Range(s \o u)
  BY <1>3 DEF Range
<1> QED
  BY <1>4, <1>5

LEMMA ToVisitIs ==
  ASSUME code \in Programs, NEW b \in Block
  PROVE  /\ ToVisit(b) \in Seq(Sites(code))
         /\ \A s \in Sites(code) :
              s[1] = b /\ (visited[b] = {} \/ s[2] <= 0) => s \in Range(ToVisit(b))
<1> DEFINE phis == [i \in 1..Len(code.phi[b]) |-> <<b, -i>>]
           data == [i \in 1..Len(code.data[b]) |-> <<b, i>>]
           first == IF visited[b] = {} THEN data ELSE <<>>
           flow == << <<b, 0>> >>
<1>1. /\ Len(code.data[b]) \in Nat /\ DOMAIN code.data[b] = 1..Len(code.data[b])
      /\ Len(code.phi[b]) \in Nat /\ DOMAIN code.phi[b] = 1..Len(code.phi[b])
  BY BodyFacts
<1>2. phis \in Seq(Sites(code))
  <2>1. \A i \in 1..Len(code.phi[b]) : <<b, -i>> \in Sites(code)
    BY <1>1, SiteIntro
  <2> QED
    BY <1>1, <2>1
<1>3. data \in Seq(Sites(code))
  <2>1. \A i \in 1..Len(code.data[b]) : <<b, i>> \in Sites(code)
    BY <1>1, SiteIntro
  <2> QED
    BY <1>1, <2>1
<1>4. flow \in Seq(Sites(code)) /\ <<b, 0>> \in Range(flow)
  <2>1. <<b, 0>> \in Sites(code)
    BY SiteIntro
  <2>2. flow[1] = <<b, 0>> /\ 1 \in DOMAIN flow
    OBVIOUS
  <2> QED
    BY <2>1, <2>2 DEF Range
<1>5. ASSUME NEW s \in Sites(code), s[1] = b, visited[b] = {} \/ s[2] <= 0
      PROVE  s \in Range(phis) \/ s \in Range(first) \/ s \in Range(flow)
  <2>1. /\ s = <<b, s[2]>> /\ s[2] \in Int
        /\ s[2] > 0 => s[2] \in DOMAIN code.data[b]
        /\ s[2] < 0 => -s[2] \in DOMAIN code.phi[b]
    BY <1>5, SiteFacts
  <2>2. CASE s[2] > 0
    <3>1. first = data /\ s[2] \in DOMAIN data /\ data[s[2]] = s
      BY <1>1, <1>5, <2>1, <2>2
    <3> QED
      BY <3>1 DEF Range
  <2>3. CASE s[2] < 0
    <3>1. -s[2] \in DOMAIN phis /\ phis[-s[2]] = s
      BY <1>1, <2>1, <2>3
    <3> QED
      BY <3>1 DEF Range
  <2>4. CASE s[2] = 0
    BY <1>4, <2>1, <2>4
  <2> QED
    BY <2>1, <2>2, <2>3, <2>4
<1>6. first \in Seq(Sites(code))
  BY <1>3
<1>7. ToVisit(b) = phis \o first \o flow
  BY DEF ToVisit
<1> HIDE DEF phis, first, flow
<1>8. /\ phis \o first \in Seq(Sites(code))
      /\ Range(phis) \subseteq Range(phis \o first) /\ Range(first) \subseteq Range(phis \o first)
  BY <1>2, <1>6, Joined
<1>9. /\ ToVisit(b) \in Seq(Sites(code))
      /\ Range(phis \o first) \subseteq Range(ToVisit(b)) /\ Range(flow) \subseteq Range(ToVisit(b))
  BY <1>4, <1>7, <1>8, Joined
<1> QED
  BY <1>5, <1>8, <1>9

\* A statement reads the values and the edges that were followed, not the lists.
LEMMA ReadsNoLists ==
  ASSUME NEW w, NEW w1, w1.value = w.value, w1.visited = w.visited, NEW s
  PROVE  Result(w1, s) = Result(w, s) /\ Taken(w1, s[1]) = Taken(w, s[1])
<1>1. \A o : GetValue(w1, o) = GetValue(w, o)
  BY DEF GetValue
<1>2. PlacesRead(w1, s) = PlacesRead(w, s)
  BY DEF PlacesRead
<1>3. Result(w1, s) = Result(w, s)
  BY <1>1, <1>2 DEF Result
<1>4. Taken(w1, s[1]) = Taken(w, s[1])
  BY <1>1 DEF Taken
<1> QED
  BY <1>3, <1>4

\* The two steps of the analysis keep what is good.
AfterEdge(e) ==
  LET b == e[2]
      w == [State EXCEPT !.edges = @ \ {e}]
  IN  IF e[1] \in visited[b] THEN w
      ELSE VisitAll([w EXCEPT !.visited[b] = @ \cup {e[1]}], ToVisit(b))

LEMMA EdgeFollowed ==
  ASSUME code \in Programs, SameShape, Substituted, Good(State), Covered(State, {}), NEW e \in edgeList
  PROVE  LET w1 == AfterEdge(e) IN  Good(w1) /\ Covered(w1, {}) /\ Fallen(State, w1)
<1> DEFINE b == e[2]
           w == [State EXCEPT !.edges = @ \ {e}]
           w0 == [w EXCEPT !.visited[b] = @ \cup {e[1]}]
<1>1. /\ State.value = value /\ State.visited = visited /\ State.edges = edgeList /\ State.uses = useList
      /\ w = [value |-> value, visited |-> visited, edges |-> edgeList \ {e}, uses |-> useList]
      /\ w0 = [value |-> value, visited |-> [visited EXCEPT ![b] = @ \cup {e[1]}],
               edges |-> edgeList \ {e}, uses |-> useList]
  <2>1. w = [value |-> value, visited |-> visited, edges |-> edgeList \ {e}, uses |-> useList]
    BY DEF State
  <2> HIDE DEF w, b
  <2>2. w0 = [value |-> value, visited |-> [visited EXCEPT ![b] = @ \cup {e[1]}],
              edges |-> edgeList \ {e}, uses |-> useList]
    BY <2>1
  <2> QED
    BY <2>1, <2>2 DEF State
<1>2. CASE e[1] \in visited[b]
  <2>1. w.value = value /\ w.visited = visited /\ w.edges = edgeList \ {e} /\ w.uses = useList
    BY <1>1
  <2> HIDE DEF w, b
  <2>2. Typed(w) /\ GoodValues(w) /\ Behind(w)
    BY <1>1, <2>1 DEF Good, Typed, GoodValues, Behind
  <2>3. Sourced(w)
    BY <1>1, <2>1 DEF Good, Sourced
  <2>4. \A s \in Sites(code) : Result(w, s) = Result(State, s) /\ Taken(w, s[1]) = Taken(State, s[1])
    BY <1>1, <2>1, ReadsNoLists
  <2>5. Covered(w, {})
    <3> SUFFICES ASSUME NEW s \in Sites(code), w.visited[s[1]] # {}, hasDomTree \/ Listed(s)
                 PROVE  s \in w.uses \cup {} \/ AtRest(w, s) \/ Awaits(w, s)
      BY DEF Covered
    <3>1. s \in State.uses \/ AtRest(State, s) \/ Awaits(State, s)
      BY <1>1, <2>1 DEF Covered
    <3>2. CASE AtRest(State, s) /\ s[2] = 0
      <4> SUFFICES ASSUME NEW x \in Taken(w, s[1]) PROVE <<s[1], x>> \in w.edges \/ s[1] \in w.visited[x]
        BY <3>2 DEF AtRest
      <4>1. <<s[1], x>> \in edgeList \/ s[1] \in visited[x]
        BY <1>1, <2>4, <3>2 DEF AtRest
      <4>2. <<s[1], x>> = e => s[1] \in visited[x]
        BY <1>2 DEF b
      <4> QED
        BY <2>1, <4>1, <4>2
    <3>3. CASE AtRest(State, s) /\ s[2] # 0
      BY <1>1, <2>1, <2>4, <3>3 DEF AtRest, Quiet
    <3>4. CASE Awaits(State, s)
      BY <1>1, <2>1, <2>4, <3>4, RelayFacts DEF Awaits, Quiet
    <3> QED
      BY <1>1, <2>1, <3>1, <3>2, <3>3, <3>4
  <2> QED
    BY <1>1, <1>2, <2>1, <2>2, <2>3, <2>5 DEF Good, Fallen, AfterEdge, w, b
<1>3. CASE e[1] \notin visited[b]
  <2>1. Sourced(State)
    BY DEF Good
  <2>2. b \in Block
    BY <1>1, <2>1, BlockAssumption DEF Sourced
  <2>3. /\ ToVisit(b) \in Seq(Sites(code)) /\ Range(ToVisit(b)) \subseteq Sites(code)
        /\ \A s \in Sites(code) : s[1] = b /\ (visited[b] = {} \/ s[2] <= 0) => s \in Range(ToVisit(b))
    <3>1. \A q \in Seq(Sites(code)) : Range(q) \subseteq Sites(code)
      BY DEF Range
    <3> QED
      BY <2>2, <3>1, ToVisitIs
  <2> HIDE DEF w0, w
  <2>4. Good(w0) /\ Covered(w0, Range(ToVisit(b)))
    BY <1>1, <1>3, <2>3, EdgeKeeps
  <2>5. Kept(w0, VisitAll(w0, ToVisit(b)), {})
    BY <2>3, <2>4, VisitAllKeeps
  <2>6. w0.value = State.value
    BY <1>1
  <2>7. Fallen(State, VisitAll(w0, ToVisit(b)))
    BY <2>5, <2>6 DEF Kept, Fallen
  <2> QED
    BY <1>3, <2>5, <2>7 DEF Kept, AfterEdge, w0, w
<1> QED
  BY <1>2, <1>3

LEMMA UseVisited ==
  ASSUME code \in Programs, SameShape, Substituted, Good(State), Covered(State, {}), NEW s \in useList
  PROVE  LET w1 == Visit([State EXCEPT !.uses = @ \ {s}], s)
         IN  Good(w1) /\ Covered(w1, {}) /\ Fallen(State, w1)
<1> DEFINE w == [State EXCEPT !.uses = @ \ {s}]
<1>1. /\ State.value = value /\ State.visited = visited /\ State.edges = edgeList /\ State.uses = useList
      /\ w = [value |-> value, visited |-> visited, edges |-> edgeList, uses |-> useList \ {s}]
      /\ w.value = value /\ w.visited = visited /\ w.edges = edgeList /\ w.uses = useList \ {s}
  BY DEF State
<1>2. s \in Sites(code)
  BY <1>1 DEF Good, Typed
<1> HIDE DEF w
<1>3. Good(w)
  <2>1. Typed(w) /\ GoodValues(w) /\ Behind(w)
    BY <1>1 DEF Good, Typed, GoodValues, Behind
  <2>2. Sourced(w)
    BY <1>1 DEF Good, Sourced
  <2> QED
    BY <2>1, <2>2 DEF Good
<1>4. \A d \in Sites(code) : (AtRest(State, d) => AtRest(w, d)) /\ (Awaits(State, d) => Awaits(w, d))
  <2>3. \A d : Result(w, d) = Result(State, d) /\ Taken(w, d[1]) = Taken(State, d[1])
    BY <1>1, ReadsNoLists
  <2>4. \A d : Quiet(w, d) <=> Quiet(State, d)
    BY <1>1, <2>3 DEF Quiet
  <2> QED
    BY <1>1, <2>3, <2>4 DEF AtRest, Awaits
<1>5. Covered(w, {} \cup {s})
  BY <1>1, <1>4 DEF Covered
<1>6. Kept(w, Visit(w, s), {})
  BY <1>2, <1>3, <1>5, VisitKeeps
<1>7. Good(Visit(w, s)) /\ Covered(Visit(w, s), {}) /\ Fallen(State, Visit(w, s))
  BY <1>1, <1>6 DEF Kept, Fallen
<1> QED
  BY <1>7 DEF w

LEMMA Beginning ==
  ASSUME code \in Programs, NEW w,
         w = [value |-> [t \in code.temps |-> Undefined], visited |-> [b \in Block |-> {}],
              edges |-> {<<Null, Entry>>}, uses |-> {}]
  PROVE  Good(w) /\ Covered(w, {})
<1>1. /\ w.value = [t \in code.temps |-> Undefined] /\ w.visited = [b \in Block |-> {}]
      /\ w.edges = {<<Null, Entry>>} /\ w.uses = {}
  OBVIOUS
<1>2. \A s \in Sites(code) : s[1] \in Block
  BY SiteFacts
<1>3. Covered(w, {})
  BY <1>1, <1>2 DEF Covered
<1>4. Typed(w)
  BY <1>1 DEF Typed
<1>5. Sourced(w)
  BY <1>1 DEF Sourced
<1>6. GoodValues(w)
  BY <1>1, KindsOfOperands DEF GoodValues, GoodValue
<1>7. Behind(w)
  BY <1>1, RelayFacts DEF Behind
<1> QED
  BY <1>3, <1>4, <1>5, <1>6, <1>7 DEF Good

LEMMA Unchanged ==
  ASSUME code' = code, hasDomTree' = hasDomTree, new' = new
  PROVE  /\ SameShape' <=> SameShape
         /\ Substituted' <=> Substituted
BY DEF SameShape, Shaped, GoodOperand, Substituted, Relays, Relayed

LEMMA GoodUnchanged ==
  ASSUME code' = code, hasDomTree' = hasDomTree, new' = new, NEW w
  PROVE  Good(w)' <=> Good(w)
<1>1. Relayed' = Relayed /\ Relays' = Relays /\ Domi' = Domi
  BY DEF Relayed, Relays, Domi
<1>2. \A v : GoodValue(v)' <=> GoodValue(v)
  BY <1>1 DEF GoodValue
<1> QED
  BY <1>1, <1>2 DEF Good, Typed, Sourced, GoodValues, Behind

LEMMA CoveredUnchanged ==
  ASSUME code' = code, hasDomTree' = hasDomTree, new' = new, NEW w, NEW todo
  PROVE  Covered(w, todo)' <=> Covered(w, todo)
<1>1. Relays' = Relays
  BY DEF Relays
<1>2. \A t : Users(t)' = Users(t)
  BY DEF Users
<1>3. \A dest, entries : CalculatedPhi(dest, entries)' = CalculatedPhi(dest, entries)
  BY DEF CalculatedPhi
<1>4. \A s : PlacesRead(w, s)' = PlacesRead(w, s)
  BY DEF PlacesRead
<1>5. \A s : Result(w, s)' = Result(w, s)
  BY <1>3, <1>4 DEF Result
<1>6. \A b : Taken(w, b)' = Taken(w, b)
  BY DEF Taken
<1>7. \A s : Quiet(w, s)' <=> Quiet(w, s)
  BY <1>5 DEF Quiet
<1>8. \A s : AtRest(w, s)' <=> AtRest(w, s)
  BY <1>6, <1>7 DEF AtRest
<1>9. \A s : Awaits(w, s)' <=> Awaits(w, s)
  BY <1>1, <1>2, <1>7 DEF Awaits
<1>10. \A s : Listed(s)' <=> Listed(s)
  BY <1>2 DEF Listed
<1> QED
  BY <1>8, <1>9, <1>10 DEF Covered

LEMMA StateSet ==
  ASSUME NEW w, Typed(w), SetState(w)
  PROVE  State' = w
BY DEF Typed, SetState, State

\* A step of the analysis.
LEMMA StepKeeps ==
  ASSUME Inv, stage \in {"edges", "uses"}, stage' \in {"edges", "uses"},
         code' = code, hasDomTree' = hasDomTree, new' = new,
         NEW w, SetState(w), Good(w), Covered(w, {}), Fallen(State, w)
  PROVE  Inv' /\ \A t \in code.temps : value'[t] # value[t] => value[t] = Undefined \/ value'[t] = Null
<1>1. State' = w
  BY StateSet DEF Good
<1>2. Good(State)' /\ Covered(State, {})'
  BY <1>1, GoodUnchanged, CoveredUnchanged
<1>3. SameShape' /\ Substituted'
  BY Unchanged DEF Inv
<1>4. value' = w.value /\ State.value = value
  BY DEF SetState, State
<1> QED
  BY <1>2, <1>3, <1>4 DEF Inv, Fallen, Falls

LEMMA Killing ==
  (code \in Programs /\ KilledAll(new, Relays) => Substituted /\ SameShape)'
BY KilledIsSubstituted, PTL

Begun ==
  [value |-> [t \in code.temps |-> Undefined], visited |-> [b \in Block |-> {}],
   edges |-> {<<Null, Entry>>}, uses |-> {}]

BeginningIsGood == \A w : w = Begun => Good(w) /\ Covered(w, {})

LEMMA BeginningPrimed == (code \in Programs => BeginningIsGood)'
<1>1. code \in Programs => BeginningIsGood
  BY Beginning DEF BeginningIsGood, Begun
<1> QED
  BY <1>1, PTL

LEMMA KilledUnchanged ==
  ASSUME code' = code, NEW c, NEW D
  PROVE  KilledAll(c, D)' <=> KilledAll(c, D)
<1>1. Relayed' = Relayed
  BY DEF Relayed, Relays
<1>2. \A o : GoodOperand(o)' <=> GoodOperand(o)
  BY <1>1 DEF GoodOperand
<1>3. Shaped(c)' <=> Shaped(c)
  BY DEF Shaped
<1> QED
  BY <1>2, <1>3 DEF KilledAll

LEMMA InitInfoKeeps ==
  ASSUME Inv, InitInfo
  PROVE  Inv'
<1>1. /\ stage = "init" /\ stage' = "edges" /\ new' = KillSinglePhi /\ edgeList' = {<<Null, Entry>>}
      /\ code' = code /\ hasDomTree' = hasDomTree /\ value' = value /\ visited' = visited /\ useList' = useList
  BY DEF InitInfo
<1>2. code \in Programs /\ State = Unvisited
  BY <1>1 DEF Inv
<1>3. (SameShape /\ Substituted)'
  <2>1. PICK c : c = KillSinglePhi
    OBVIOUS
  <2>2. PICK D : D = Relays
    OBVIOUS
  <2>3. KilledAll(c, D)
    BY <1>2, <2>1, <2>2, KillSinglePhiKills
  <2>4. KilledAll(c, D)'
    BY <1>1, <2>3, KilledUnchanged
  <2>5. new' = c /\ Relays' = D
    BY <1>1, <2>1, <2>2 DEF Relays
  <2>6. KilledAll(new, Relays)'
    BY <2>4, <2>5
  <2> QED
    BY <1>1, <1>2, <2>6, Killing
<1>4. (Good(State) /\ Covered(State, {}))'
  <2>1. BeginningIsGood'
    BY <1>1, <1>2, BeginningPrimed
  <2>2. State' = Begun'
    <3>1. value = [t \in code.temps |-> Undefined] /\ visited = [b \in Block |-> {}] /\ useList = {}
      BY <1>2 DEF State, Unvisited
    <3>2. value' = [t \in code'.temps |-> Undefined] /\ visited' = [b \in Block |-> {}] /\ useList' = {}
      BY <1>1, <3>1
    <3> QED
      BY <1>1, <3>2 DEF State, Begun
  <2> QED
    BY <2>1, <2>2 DEF BeginningIsGood
<1> QED
  BY <1>1, <1>2, <1>3, <1>4 DEF Inv

Falling == \A t \in code.temps : value'[t] # value[t] => value[t] = Undefined \/ value'[t] = Null

LEMMA StepsKeep ==
  ASSUME Inv, [Next]_vars
  PROVE  Inv' /\ Falling
<1>1. CASE InitInfo
  BY <1>1, InitInfoKeeps DEF Falling, InitInfo
<1>2. ASSUME NEW e \in edgeList, UpdateCFG(e) PROVE Inv' /\ Falling
  <2>1. PICK w : w = AfterEdge(e)
    OBVIOUS
  <2>2. /\ stage = "edges" /\ stage' = "edges" /\ code' = code /\ hasDomTree' = hasDomTree /\ new' = new
        /\ SetState(w)
    BY <1>2, <2>1 DEF UpdateCFG, AfterEdge
  <2>3. Good(w) /\ Covered(w, {}) /\ Fallen(State, w)
    <3>1. code \in Programs /\ SameShape /\ Substituted /\ Good(State) /\ Covered(State, {})
      BY <2>2 DEF Inv
    <3> QED
      BY <2>1, <3>1, EdgeFollowed
  <2> QED
    BY <2>2, <2>3, StepKeeps DEF Falling
<1>3. ASSUME NEW s \in useList, UpdateSSA(s) PROVE Inv' /\ Falling
  <2>1. PICK w : w = Visit([State EXCEPT !.uses = @ \ {s}], s)
    OBVIOUS
  <2>2. /\ stage \in {"edges", "uses"} /\ stage' \in {"edges", "uses"}
        /\ code' = code /\ hasDomTree' = hasDomTree /\ new' = new
        /\ SetState(w)
    BY <1>3, <2>1 DEF UpdateSSA
  <2>3. Good(w) /\ Covered(w, {}) /\ Fallen(State, w)
    <3>1. code \in Programs /\ SameShape /\ Substituted /\ Good(State) /\ Covered(State, {})
      BY <2>2 DEF Inv
    <3> QED
      BY <2>1, <3>1, UseVisited
  <2> QED
    BY <2>2, <2>3, StepKeeps DEF Falling
<1>4. CASE ModifyValue
  BY <1>4 DEF ModifyValue, Inv, Falling, lists
<1>5. ASSUME NEW input \in code.inputs, RunOn(input) PROVE Inv' /\ Falling
  BY <1>5 DEF RunOn, Inv, Falling, lists
<1>6. CASE UNCHANGED vars
  <2>1. /\ code' = code /\ hasDomTree' = hasDomTree /\ new' = new /\ stage' = stage
        /\ value' = value /\ visited' = visited /\ edgeList' = edgeList /\ useList' = useList
    BY <1>6 DEF vars, lists
  <2>2. PICK w : w = State
    OBVIOUS
  <2>3. State' = w /\ Unvisited' = Unvisited
    BY <2>1, <2>2 DEF State, Unvisited
  <2>4. (Good(State)' <=> Good(w)) /\ (Covered(State, {})' <=> Covered(w, {}))
    BY <2>1, <2>3, GoodUnchanged, CoveredUnchanged
  <2>5. (SameShape' <=> SameShape) /\ (Substituted' <=> Substituted)
    BY <2>1, Unchanged
  <2> QED
    BY <2>1, <2>2, <2>3, <2>4, <2>5 DEF Inv, Falling
<1> QED
  BY <1>1, <1>2, <1>3, <1>4, <1>5, <1>6 DEF Next

\* What the analysis rests on: of every statement in a visited block, its use
\* is listed, or a visit would change nothing, or a phi statement that relays to
\* it is still to be visited (sccp.cpp, updateCFG and updateSSA).
THEOREM Coverage == Spec => []Inv
<1>1. Init => Inv
  <2> SUFFICES ASSUME Init PROVE Inv
    OBVIOUS
  <2>1. State = Unvisited
    BY DEF Init, State, Unvisited
  <2> QED
    BY <2>1 DEF Init, Inv
<1>2. Inv /\ [Next]_vars => Inv'
  BY StepsKeep
<1> QED
  BY <1>1, <1>2, PTL DEF Spec

\* A value only falls, from undefined to a constant or copy, to unknown, for
\* every function (sccp.cpp, tryUpdate and mergeDefs).
THEOREM FallsOnly == Spec => ValuesOnlyFall
<1>1. Inv /\ [Next]_vars => [\A t \in code.temps : value'[t] # value[t] => value[t] = Undefined \/ value'[t] = Null]_vars
  BY StepsKeep DEF Falling
<1> QED
  BY <1>1, Coverage, PTL DEF Spec, ValuesOnlyFall

\* When the lists are empty no relay has anything to pass on: the first one in
\* the order of the blocks would have it from a statement that is at rest.
LEMMA RelaysAreQuiet ==
  ASSUME code \in Programs, hasDomTree, NEW w, Covered(w, {}), w.uses = {},
         NEW k \in Relays, w.visited[k[1]] # {}
  PROVE  Quiet(w, k)
<1> DEFINE n == Len(code.order)
           Calm(i) == \A d \in Relays : d[1] = code.order[i] /\ w.visited[d[1]] # {} => Quiet(w, d)
           S == {m \in Nat : \A i \in 1..m : i <= n => Calm(i)}
<1>1. n \in Nat /\ DOMAIN code.order = 1..n /\ Range(code.order) = Block
  <2>1. code.order \in Seq(Block) /\ Range(code.order) = Block
    BY ProgramsAssumption
  <2> QED
    BY <2>1
<1>2. \A d \in Relays : \E i \in 1..n : d[1] = code.order[i]
  BY <1>1, RelayFacts DEF Range
<1>3. ASSUME NEW m \in Nat, m \in S PROVE m + 1 \in S
  <2> SUFFICES ASSUME m + 1 <= n PROVE Calm(m + 1)
    <3>1. \A i \in 1..(m + 1) : i \in 1..m \/ i = m + 1
      OBVIOUS
    <3> HIDE DEF Calm
    <3> QED
      BY <1>3, <3>1
  <2> SUFFICES ASSUME NEW d \in Relays, d[1] = code.order[m + 1], w.visited[d[1]] # {}, ~Quiet(w, d)
               PROVE  FALSE
    OBVIOUS
  <2>1. d \in Sites(code) /\ d[2] < 0 /\ OneWayIn(code, d[1])
    BY RelayFacts DEF Relays
  <2>2. ~AtRest(w, d)
    BY <2>1 DEF AtRest
  <2>3. Awaits(w, d)
    BY <2>1, <2>2 DEF Covered
  <2>4. PICK f \in Relays : w.visited[f[1]] # {} /\ ~Quiet(w, f) /\ d \in Users(DestAt(code, f))
    BY <2>3 DEF Awaits
  <2>5. f \in Sites(code) /\ f[2] < 0 /\ OneWayIn(code, f[1])
    BY RelayFacts DEF Relays
  <2>6. PICK i \in 1..n : f[1] = code.order[i]
    BY <1>2
  <2>7. i < m + 1
    <3>1. BlocksInOrder(code)
      BY ProgramsAssumption
    <3>2. Named(DestAt(code, f)) \in OperandsAt(code, d)
      BY <2>4 DEF Users
    <3> QED
      BY <1>1, <2>1, <2>5, <2>6, <3>1, <3>2 DEF BlocksInOrder
  <2>8. Calm(i)
    <3>1. i \in 1..m /\ i <= n
      BY <1>1, <2>6, <2>7
    <3> HIDE DEF Calm
    <3> QED
      BY <1>3, <3>1
  <2> QED
    BY <2>4, <2>6, <2>8
<1>4. n \in S
  <2>1. 0 \in S
    OBVIOUS
  <2> HIDE DEF S
  <2> QED
    BY <1>1, <1>3, <2>1, Induction
<1>5. PICK i \in 1..n : k[1] = code.order[i]
  BY <1>2
<1>6. Calm(i)
  <2>1. i \in 1..n /\ i <= n
    BY <1>1, <1>5
  <2> HIDE DEF Calm
  <2> QED
    BY <1>4, <2>1
<1> QED
  BY <1>5, <1>6

LEMMA NothingLeft ==
  ASSUME Inv
  PROVE  Settled
<1> SUFFICES ASSUME stage = "edges", edgeList = {}, useList = {},
                    NEW s \in Sites(code), visited[s[1]] # {}, hasDomTree \/ Listed(s)
             PROVE  /\ Visit(State, s).value = value
                    /\ \A e \in Visit(State, s).edges : e[1] \in visited[e[2]]
  BY DEF Settled
<1>1. code \in Programs /\ SameShape /\ Substituted /\ Good(State) /\ Covered(State, {})
  BY DEF Inv
<1>2. State.value = value /\ State.visited = visited /\ State.edges = {} /\ State.uses = {}
  BY DEF State
<1> DEFINE w == State
<1> HIDE DEF w
<1>3. AtRest(State, s)
  <2>1. AtRest(State, s) \/ Awaits(State, s)
    BY <1>1, <1>2 DEF Covered
  <2>2. ~Awaits(State, s)
    BY <1>1, <1>2, RelaysAreQuiet DEF Awaits
  <2> QED
    BY <2>1, <2>2
<1>4. CASE s[2] = 0
  <2>1. Visit(State, s) = VisitFlow(State, s[1])
    BY <1>1, <1>2, <1>4, VisitIs
  <2>2. VisitFlow(State, s[1]) = [value |-> value, visited |-> visited,
                                  edges |-> {s[1]} \X Taken(State, s[1]), uses |-> useList]
    <3>1. VisitFlow(State, s[1]) = [State EXCEPT !.edges = {s[1]} \X Taken(State, s[1])]
      BY <1>2 DEF VisitFlow
    <3>2. \A more : [State EXCEPT !.edges = more] =
            [value |-> value, visited |-> visited, edges |-> more, uses |-> useList]
      BY DEF State
    <3> QED
      BY <3>1, <3>2
  <2>3. \A x \in Taken(State, s[1]) : s[1] \in visited[x]
    BY <1>2, <1>3, <1>4 DEF AtRest
  <2> QED
    BY <2>1, <2>2, <2>3
<1>5. CASE s[2] # 0
  <2> DEFINE t == DestAt(code, s)
             r == Result(State, s)
             w1 == TryUpdate(State, t, r)
  <2>1. Visit(State, s) = w1
    BY <1>1, <1>2, <1>5, VisitIs
  <2>2. t = Null \/ r = Named(t) \/ MergeDefs(r, State.value[t]) = State.value[t]
    BY <1>3, <1>5 DEF AtRest, Quiet
  <2>3. w1 = State
    BY <2>2 DEF TryUpdate
  <2> QED
    BY <1>2, <2>1, <2>3
<1> QED
  BY <1>4, <1>5

\* When both lists have run empty, to visit a statement again changes nothing,
\* for every function: with dominators even behind the phi statements whose
\* uses killSinglePhi has taken (sccp.cpp, initInfo, killSinglePhi, updateSSA).
THEOREM Settles == Spec => []Settled
<1>1. Inv => Settled
  BY NothingLeft
<1> QED
  BY <1>1, Coverage, PTL

=============================================================================

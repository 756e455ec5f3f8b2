-------------------------- MODULE ConstantPropagator --------------------------
(***************************************************************************)
(* ConstantPropagatior: sparse conditional constant and copy propagation,  *)
(* with ConstantCalculator's rules.  Two work lists, one of edges and one  *)
(* of statements, raise the value of each temporary from undefined to a    *)
(* constant or to another temporary, and from there to unknown; then the   *)
(* uses are replaced.                                                      *)
(*                                                                         *)
(* What is in a work list is taken in any order.  Afterwards the function  *)
(* is run next to the function as it was.                                  *)
(***************************************************************************)
EXTENDS Execution

CONSTANT Programs   \* the functions: flow, dom, order, cond, phi, data, temps and inputs

(***************************************************************************)
(* A statement is named by its block and its place: 0 the flow statement,  *)
(* i > 0 the i-th of data, -i the i-th phi statement.                      *)
(***************************************************************************)
Sites(c) == UNION {{b} \X (-Len(c.phi[b]) .. Len(c.data[b])) : b \in Block}

OperandsAt(c, site) ==
  LET b == site[1] i == site[2]
  IN  IF i = 0 THEN {c.cond[b]} ELSE IF i > 0 THEN Range(c.data[b][i].args) ELSE Range(c.phi[b][-i].from)

DestAt(c, site) ==
  LET b == site[1] i == site[2]
  IN  IF i = 0 THEN Null ELSE IF i > 0 THEN c.data[b][i].dest ELSE c.phi[b][-i].dest

Preds(c, b) == {p \in Block : b \in Range(c.flow[p].to)}

OneWayIn(c, b) == \E p \in Block : Preds(c, b) = {p}

\* What is defined by statement d is used where its block dominates, by a phi
\* statement at the end of the predecessor.
UseDominated(c, d, s) ==
  IF s[2] >= 0 THEN Named(DestAt(c, d)) \in OperandsAt(c, s) => d[1] \in c.dom[s[1]]
  ELSE \A q \in Preds(c, s[1]) : c.phi[s[1]][-s[2]].from[q] = Named(DestAt(c, d)) => d[1] \in c.dom[q]

\* The blocks are in such an order that a phi statement with one operand stands
\* behind the one that this is.
BlocksInOrder(c) ==
  \A i, j \in DOMAIN c.order : \A d, s \in Sites(c) :
    /\ d[1] = c.order[i] /\ d[2] < 0 /\ OneWayIn(c, d[1])
    /\ s[1] = c.order[j] /\ s[2] < 0 /\ OneWayIn(c, s[1])
    /\ Named(DestAt(c, d)) \in OperandsAt(c, s)
    => i < j

(***************************************************************************)
(* The functions are as the passes before leave them: a temporary has one  *)
(* definition, a phi statement an operand for each predecessor, no block   *)
(* leads to the entry.                                                     *)
(***************************************************************************)
ASSUME ProgramsAssumption ==
  /\ \A shape \in {<<c.flow, c.dom>> : c \in Programs} :
       /\ shape[1] \in [Block -> FlowStmt]
       /\ LET domi == Dominance(ForwardEdges(shape[1]), Entry)
          IN  shape[2] = [b \in Block |-> DominatorsOf(domi, b) \cap Block]
  /\ \A c \in Programs :
       /\ c.order \in Seq(Block) /\ Range(c.order) = Block
       /\ Preds(c, Entry) = {}
       /\ \A b \in Block :
            /\ c.data[b] \in Seq(Range(c.data[b])) /\ c.phi[b] \in Seq(Range(c.phi[b]))
            /\ \A i \in DOMAIN c.phi[b] : DOMAIN c.phi[b][i].from = Preds(c, b)
            /\ \A i \in DOMAIN c.data[b] : c.data[b][i].op # "call" => DOMAIN c.data[b][i].args = 1..2
       /\ \A s \in Sites(c) :
            /\ DestAt(c, s) \in c.temps \cup {Null} /\ (s[2] < 0 => DestAt(c, s) # Null)
            /\ \A o \in OperandsAt(c, s) : o.k = "name" => o.v \in c.temps /\ o = Named(o.v)
            /\ \A d \in Sites(c) : DestAt(c, d) = DestAt(c, s) /\ d # s => DestAt(c, d) = Null
            /\ \A d \in Sites(c) : UseDominated(c, d, s)
       /\ BlocksInOrder(c)

\* The null pointer is no operand and no name.
ASSUME NullAssumption ==
  /\ Undefined # Null
  /\ \A t \in UNION {c.temps : c \in Programs} : t # Null /\ Named(t) # Null

VARIABLES
  code,         \* the function given to the pass, its single phis killed
  hasDomTree,   \* whether it has dominators
  stage,        \* how far the constructor is
  value,        \* defMap: the value of each temporary, Null if it is unknown
  visited,      \* blockMap: per block, where it was visited from
  edgeList,     \* CFGworklist
  useList,      \* SSAworklist: the temporaries whose uses are to be visited
  new,          \* the function with its uses replaced
  run           \* the two runs

lists == <<value, visited, edgeList, useList>>
vars == <<code, hasDomTree, stage, lists, new, run>>

(***************************************************************************)
(* ConstantCalculator.  Operands are compared by their addresses, which is *)
(* by what they are.  An unknown result is Null.                           *)
(***************************************************************************)
Zero == Const(0)
One  == Const(1)
All1 == Const(-1)

UnsignedShift(a, b, left) ==   \* a slip
  IF b \notin 0..2 * Width - 1 THEN Null
  ELSE IF left THEN Wrapped(a * 2 ^ b) ELSE (a % 2 ^ Width) \div 2 ^ b

\* The host calculates in twice the width; its shifts are undefined beyond.
HostShift(a, b, left) ==
  IF b \notin 0..2 * Width - 1 THEN Null
  ELSE IF left THEN Wrapped(a * 2 ^ b) ELSE a \div 2 ^ b

Folded(op, a, b) ==
  CASE op = "shl" -> HostShift(a, b, TRUE)
    [] op = "ashr" -> HostShift(a, b, FALSE)
    [] op = "sdiv" -> Wrapped(Quotient(a, b))
    [] op = "srem" -> a - b * Quotient(a, b)
    [] OTHER -> Operation(op, a, b)

\* The rules on 0, 1 and -1 to the right, then to the left, in their order.
Identity(op, l, r) ==
  CASE r = Zero /\ op \in {"sdiv", "srem"} -> Undefined
    [] r = Zero /\ op \in {"add", "sub", "shl", "ashr", "xor", "or"} -> l
    [] r = Zero /\ op \in {"mul", "and"} -> r
    [] r = One /\ op \in {"sdiv", "mul"} -> l
    [] r = One /\ op = "srem" -> Zero
    [] r = All1 /\ op = "and" -> l
    [] r = All1 /\ op = "or" -> r
    [] l = Zero /\ op \in {"sdiv", "srem", "mul", "and", "shl", "ashr"} -> l
    [] l = Zero /\ op \in {"add", "xor", "or"} -> r
    [] l = One /\ op = "mul" -> r
    [] l = All1 /\ op = "and" -> r
    [] l = All1 /\ op = "or" -> l
    [] l = r /\ op \in {"xor", "sub", "srem", "ashr"} -> Zero
    [] l = r /\ op = "sdiv" -> One
    [] l = r /\ op \in {"and", "or"} -> l
    [] OTHER -> Null

Comparison == {"eq", "ne", "slt", "sle", "sgt", "sge"}

CalculatedBinary(op, l, r) ==
  IF l = Undefined \/ r = Undefined THEN Undefined
  ELSE IF op \in Comparison /\ l = r THEN Const(Truth(op \in {"eq", "sle", "sge"}))
  ELSE IF op \notin Comparison /\ Identity(op, l, r) # Null THEN Identity(op, l, r)
  ELSE IF l.k = "const" /\ r.k = "const" THEN Const(Folded(op, l.v, r.v))
  ELSE Null

\* A phi whose known entries are one, itself and undefined ones not counted.
CalculatedPhi(dest, entries) ==
  LET known == {o \in entries : o # Undefined /\ o # Named(dest)}
  IN  IF known = {} THEN Undefined
      ELSE IF Cardinality(known) > 1 THEN Null
      ELSE LET o == CHOOSE o \in known : TRUE
           IN  IF ~hasDomTree /\ o.k = "name" THEN Null ELSE o

-----------------------------------------------------------------------------

\* defInfo::useList, the statements that use t before the pass changes any.
Users(t) == {s \in Sites(code) : Named(t) \in OperandsAt(code, s)}

\* Each operand o of each statement replaced by F(site, o).
Rewritten(c, F(_, _)) ==
  [cond |-> [b \in Block |-> F(<<b, 0>>, c.cond[b])],
   data |-> [b \in Block |-> [i \in DOMAIN c.data[b] |->
      Stmt(c.data[b][i].op, c.data[b][i].dest,
           [j \in DOMAIN c.data[b][i].args |-> F(<<b, i>>, c.data[b][i].args[j])])]],
   phi |-> [b \in Block |-> [i \in DOMAIN c.phi[b] |->
      Phi(c.phi[b][i].dest,
          [q \in DOMAIN c.phi[b][i].from |-> F(<<b, -i>>, c.phi[b][i].from[q])])]]]

\* killSinglePhi: those who use the phi statements of blocks with one
\* predecessor take what these have, block after block.
Killed(c, b, i) ==
  LET p     == c.phi[b][i]
      users == Users(p.dest)
      init  == p.from[CHOOSE q \in DOMAIN p.from : TRUE]
  IN  Rewritten(c, LAMBDA s, o : IF s \in users /\ o = Named(p.dest) THEN init ELSE o)

KilledIn(c, b) ==
  LET at[i \in 0..Len(code.phi[b])] == IF i = 0 THEN c ELSE Killed(at[i - 1], b, i)
  IN  IF OneWayIn(code, b) THEN at[Len(code.phi[b])] ELSE c

KillSinglePhi ==
  LET at[i \in 0..Len(code.order)] == IF i = 0 THEN code ELSE KilledIn(at[i - 1], code.order[i])
  IN  at[Len(code.order)]

-----------------------------------------------------------------------------

Init ==
  /\ code \in Programs
  /\ hasDomTree \in BOOLEAN
  /\ stage = "init"
  /\ value = [t \in code.temps |-> Undefined]
  /\ visited = [b \in Block |-> {}]
  /\ edgeList = {} /\ useList = {}
  /\ new = code
  /\ run = Null

InitInfo ==
  /\ stage = "init"
  /\ stage' = "edges"
  /\ new' = KillSinglePhi
  /\ edgeList' = {<<Null, Entry>>}
  /\ UNCHANGED <<code, hasDomTree, value, visited, useList, run>>

(***************************************************************************)
(* The visitors work on a copy w of the state of the analysis.             *)
(***************************************************************************)
State == [value |-> value, visited |-> visited, edges |-> edgeList, uses |-> useList]

GetValue(w, o) == IF o.k # "name" \/ w.value[o.v] = Null THEN o ELSE w.value[o.v]

LatestDef(l, r) == l   \* a slip

MergeDefs(l, r) == IF l = Undefined THEN r ELSE IF r = Undefined \/ l = r THEN l ELSE Null

UpdateOnce(w, dest, result) ==   \* a slip
  LET merged == MergeDefs(result, w.value[dest])
  IN  IF dest = Null \/ result = Named(dest) \/ merged = w.value[dest] THEN w
      ELSE [w EXCEPT !.value[dest] = merged,
                     !.uses = IF w.value[dest] = Undefined THEN @ \cup Users(dest) ELSE @]

TryUpdate(w, dest, result) ==
  LET merged == MergeDefs(result, w.value[dest])
  IN  IF dest = Null \/ result = Named(dest) \/ merged = w.value[dest] THEN w
      ELSE [w EXCEPT !.value[dest] = merged, !.uses = @ \cup Users(dest)]

VisitPhi(w, b, i) ==
  LET p == new.phi[b][i]
  IN  TryUpdate(w, p.dest, CalculatedPhi(p.dest,
        {GetValue(w, p.from[q]) : q \in DOMAIN p.from \cap w.visited[b]}))

\* The edges a flow statement adds once its condition is known.
Taken(w, b) ==
  LET to == code.flow[b].to
      c  == GetValue(w, new.cond[b])
  IN  IF code.flow[b].op # "branch" THEN Range(to)
      ELSE IF c = Undefined THEN {}
      ELSE IF c \in {Zero, One} THEN {to[c.v + 1]}
      ELSE Range(to)

VisitFlow(w, b) == [w EXCEPT !.edges = @ \cup ({b} \X Taken(w, b))]

VisitStmt(w, b, i) ==
  LET stmt == new.data[b][i]
      args == [j \in DOMAIN stmt.args |-> GetValue(w, stmt.args[j])]
  IN  TryUpdate(w, stmt.dest,
        IF stmt.op = "call" THEN Null ELSE CalculatedBinary(stmt.op, args[1], args[2]))

\* Only what stands in visited blocks is visited.
Visit(w, s) ==
  IF w.visited[s[1]] = {} THEN w
  ELSE IF s[2] < 0 THEN VisitPhi(w, s[1], -s[2])
  ELSE IF s[2] = 0 THEN VisitFlow(w, s[1])
  ELSE VisitStmt(w, s[1], s[2])

VisitAll(w, sites) ==
  LET at[i \in 0..Len(sites)] == IF i = 0 THEN w ELSE Visit(at[i - 1], sites[i])
  IN  at[Len(sites)]

\* The phi statements, on the first visit the others as well.
ToVisit(b) ==
  LET phis == [i \in 1..Len(code.phi[b]) |-> <<b, -i>>]
      data == [i \in 1..Len(code.data[b]) |-> <<b, i>>]
  IN  phis \o (IF visited[b] = {} THEN data ELSE <<>>) \o << <<b, 0>> >>

SetState(w) ==
  value' = w.value /\ visited' = w.visited /\ edgeList' = w.edges /\ useList' = w.uses

\* Every edge is followed once.
UpdateCFG(e) ==
  /\ stage = "edges"
  /\ LET b == e[2]
         w == [State EXCEPT !.edges = @ \ {e}]
     IN  SetState(IF e[1] \in visited[b] THEN w
                  ELSE VisitAll([w EXCEPT !.visited[b] = @ \cup {e[1]}], ToVisit(b)))
  /\ UNCHANGED <<code, hasDomTree, stage, new, run>>

\* Uses are visited until none is left, whatever edges they add meanwhile.
UpdateSSA(s) ==
  /\ stage = "uses" \/ (stage = "edges" /\ edgeList = {})
  /\ SetState(Visit([State EXCEPT !.uses = @ \ {s}], s))
  /\ stage' = IF useList' = {} THEN "edges" ELSE "uses"
  /\ UNCHANGED <<code, hasDomTree, new, run>>

(***************************************************************************)
(* modifyValue on every block: a use is replaced by a temporary only if    *)
(* that is defined in a block that dominates the block of the use.         *)
(***************************************************************************)
BlockOf(t) ==
  CHOOSE b \in Block : t \in {stmt.dest : stmt \in Range(code.data[b]) \cup Range(code.phi[b])}

CopyAllowed(s, o) ==
  o.k # "name" \/ ~hasDomTree \/ BlockOf(o.v) \in code.dom[s[1]]

ModifyValue ==
  /\ stage = "edges" /\ edgeList = {} /\ useList = {}
  /\ stage' = "done"
  /\ new' = Rewritten(new, LAMBDA s, o :
              IF CopyAllowed(s, GetValue(State, o)) THEN GetValue(State, o) ELSE o)
  /\ LET env == [t \in code.temps |-> Null]
     IN  run' = [at |-> Entry, from |-> Null, agree |-> TRUE, old |-> env, new |-> env]
  /\ UNCHANGED <<code, hasDomTree, lists>>

(***************************************************************************)
(* Both functions run a block, their calls return the same, and the way    *)
(* from it is that of the function as it was.  A run ends where that one   *)
(* passes on or branches on what is undefined.                             *)
(***************************************************************************)
RunBlockOf(c, env, input) ==
  LET ran == RunBlock(env, c.phi[run.at], c.data[run.at], run.from, [i \in Nat |-> input])
  IN  [env |-> ran.env, out |-> Append(ran.out, <<ValueOf(ran.env, c.cond[run.at])>>)]

Way(out) ==
  LET flow == code.flow[run.at]
      cond == Last(out)[1]
  IN  CASE \E i \in 1..Len(out) - 1 : Null \in Range(out[i]) -> Null
        [] flow.op = "jump" -> flow.to[1]
        [] flow.op = "branch" /\ cond # Null -> flow.to[cond + 1]
        [] OTHER -> Null

RunOn(input) ==
  /\ stage = "done" /\ run.at # Null
  /\ LET old == RunBlockOf(code, run.old, input)
         now == RunBlockOf(new, run.new, input)
     IN  run' = [at |-> Way(old.out), from |-> run.at, old |-> old.env,
                 new |-> now.env, agree |-> Agrees(old.out, now.out)]
  /\ UNCHANGED <<code, hasDomTree, stage, lists, new>>

Next ==
  \/ InitInfo
  \/ \E e \in edgeList : UpdateCFG(e)
  \/ \E s \in useList : UpdateSSA(s)
  \/ ModifyValue
  \/ \E input \in code.inputs : RunOn(input)

Spec == Init /\ [][Next]_vars

-----------------------------------------------------------------------------

\* Running the function passes to its calls what it passed before, and decides
\* its branches as before.
RunsAgree == stage = "done" => run.agree

\* What stands at s uses only temporaries that have it in their useList.
Listed(s) == \A t \in code.temps : Named(t) \in OperandsAt(new, s) => s \in Users(t)

\* When both lists have run empty, to visit a statement again would change
\* nothing: no value is left that was taken from an older one, and no branch
\* has a way that its condition allows and that was not followed.  With
\* dominators this holds of statements too that killSinglePhi has changed after
\* the lists of uses were made.
Settled ==
  stage = "edges" /\ edgeList = {} /\ useList = {} =>
    \A s \in Sites(code) : visited[s[1]] # {} /\ (hasDomTree \/ Listed(s)) =>
      /\ Visit(State, s).value = value
      /\ \A e \in Visit(State, s).edges : e[1] \in visited[e[2]]

\* A value only falls, from undefined to a constant or copy, to unknown: so the
\* lists run empty.
ValuesOnlyFall ==
  [][\A t \in code.temps : value'[t] # value[t] => value[t] = Undefined \/ value'[t] = Null]_vars

=============================================================================

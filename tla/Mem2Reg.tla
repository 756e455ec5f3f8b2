------------------------------- MODULE Mem2Reg -------------------------------
(***************************************************************************)
(* mem2regPass: local variables become temporaries.  Phi statements are    *)
(* reserved in the frontiers of the blocks that store to a variable, and   *)
(* of the blocks that got one, with a work list; then a depth-first walk   *)
(* of the CFG (not of the dominator tree) replaces each load by the value  *)
(* stored last and fills in the phi statements.                            *)
(*                                                                         *)
(* All locals are simple.  The frontiers are what dominantMaker promises.  *)
(* Afterwards the function is run, any side of a branch taken, next to the *)
(* function as it was.                                                     *)
(***************************************************************************)
EXTENDS Execution

CONSTANTS
  Local,     \* function::locals
  Programs   \* the functions: flow, rpo, block::fro, phi, data, temps

\* rpo has every block, and the frontiers are those of the flow.
ASSUME ProgramsAssumption ==
  /\ IsFiniteSet(Block) /\ IsFiniteSet(Local)
  /\ \A p \in Programs : p.rpo \in Seq(Block) /\ Range(p.rpo) = Block
  /\ \A shape \in {<<p.flow, p.fro>> : p \in Programs} :
       LET answer == Answer(ForwardEdges(shape[1]), Entry)
       IN  /\ shape[1] \in [Block -> FlowStmt] /\ WellFormed(shape[1])
           /\ shape[2] = [b \in Block |-> answer[b].fro]

\* The name a new phi statement defines.
NewPhi(b, x) == <<"phi", b, x>>

AllNewPhis == {NewPhi(b, x) : b \in Block, x \in Local}

\* The null pointer is no operand and no name.
ASSUME NullAssumption ==
  /\ Undefined # Null /\ Null \notin AllNewPhis
  /\ \A name \in AllNewPhis \cup UNION {p.temps : p \in Programs} : Named(name) # Null

(***************************************************************************)
(* The functions are as the IR builder leaves them.  A temporary has one   *)
(* definition, which is run before each of its uses.  Only loads and       *)
(* stores have to do with locals; other memory and arguments are left out. *)
(***************************************************************************)
DefinedIn(p, t, b, i) ==
  \/ \E j \in DOMAIN p.phi[b] : p.phi[b][j].dest = t
  \/ \E j \in 1..(i - 1) : p.data[b][j].dest = t

\* A temporary is defined wherever the i-th statement of b is reached.
Available(p, t, b, i) ==
  \/ DefinedIn(p, t, b, i)
  \/ \E d \in DominatorsOf(Dominance(ForwardEdges(p.flow), Entry), b) \ {b} :
       d \in Block /\ DefinedIn(p, t, d, Len(p.data[d]) + 1)

MayUse(p, o, b, i) ==
  IF o.k = "name" THEN o = Named(o.v) /\ o.v \in p.temps /\ Available(p, o.v, b, i)
  ELSE o.k \notin {"argument", "cell"}

Memory == {"new", "write", "read", "allocate", "size"}

StatementOK(p, b, i) ==
  LET stmt == p.data[b][i]
  IN  /\ stmt = Stmt(stmt.op, stmt.dest, stmt.args)
      /\ stmt.args \in Seq(Range(stmt.args)) /\ stmt.op \notin Memory
      /\ CASE stmt.op = "store" -> stmt.dest \in Local /\ stmt.args = <<stmt.args[1]>> /\ stmt.args[1] # Null
           [] stmt.op = "load" -> stmt.dest \in p.temps /\ \E x \in Local : stmt.args = <<Named(x)>>
           [] OTHER -> stmt.dest \in p.temps \cup {Null}
      /\ stmt.op # "load" => \A j \in DOMAIN stmt.args : MayUse(p, stmt.args[j], b, i)

PhiOK(p, b, j) ==
  LET stmt == p.phi[b][j]
  IN  /\ stmt = Phi(stmt.dest, stmt.from) /\ stmt.dest \in p.temps
      /\ stmt.from = [q \in {q \in Block : b \in Range(p.flow[q].to)} |-> stmt.from[q]]
      /\ \A q \in DOMAIN stmt.from : MayUse(p, stmt.from[q], q, Len(p.data[q]) + 1)

OneDefinition(p) ==
  /\ \A b, c \in Block : \A i \in DOMAIN p.data[b], j \in DOMAIN p.data[c] :
       p.data[b][i].dest = p.data[c][j].dest /\ p.data[b][i].dest \in p.temps => b = c /\ i = j
  /\ \A b, c \in Block : \A i \in DOMAIN p.phi[b], j \in DOMAIN p.phi[c] :
       p.phi[b][i].dest = p.phi[c][j].dest => b = c /\ i = j
  /\ \A b, c \in Block : \A i \in DOMAIN p.data[b], j \in DOMAIN p.phi[c] :
       p.data[b][i].dest # p.phi[c][j].dest

ASSUME StatementsAssumption ==
  \A p \in Programs :
    /\ p.temps \cap (Local \cup AllNewPhis \cup {Null}) = {} /\ Null \notin Local
    /\ p.data = [b \in Block |-> p.data[b]] /\ p.phi = [b \in Block |-> p.phi[b]]
    /\ \A b \in Block :
         /\ p.data[b] \in Seq(Range(p.data[b])) /\ p.phi[b] \in Seq(Range(p.phi[b]))
         /\ \A i \in DOMAIN p.data[b] : StatementOK(p, b, i)
         /\ \A j \in DOMAIN p.phi[b] : PhiOK(p, b, j)
    /\ OneDefinition(p)

VARIABLES
  code,      \* the function given to the pass
  stage,     \* how far the constructor is
  phiMap,    \* per block, the locals it has a new phi statement for
  added,     \* __added: those of them not yet spread
  queue,     \* the work list of spreadPhi
  calls,     \* the active calls of rename: block, __bak and successors to take
  visited,   \* the blocks rename has visited
  varMap,    \* the latest value of each local, Null if there is none
  filled,    \* per block and local, the list of the new phi statement
  data, phi, \* the function as it is now
  run        \* the two runs: block, environments and what calls were given

placing == <<phiMap, added, queue>>
renaming == <<calls, visited, varMap, filled, data, phi>>
vars == <<code, stage, placing, renaming, run>>

Stores(b) ==
  {code.data[b][i].dest : i \in {j \in DOMAIN code.data[b] : code.data[b][j].op = "store"}}

Init ==
  /\ code \in Programs
  /\ stage = "def"
  /\ phiMap = [b \in Block |-> {}] /\ added = phiMap /\ queue = <<>>
  /\ calls = <<>> /\ visited = {}
  /\ varMap = [x \in Local |-> Null]
  /\ filled = [b \in Block |-> [x \in Local |-> <<>>]]
  /\ data = code.data /\ phi = code.phi
  /\ run = Null

Orders(S) == {s \in [1..Cardinality(S) -> S] : \A b \in S : \E i \in DOMAIN s : s[i] = b}

(***************************************************************************)
(* spreadDef on every block and the start of spreadPhi, whose work list    *)
(* begins with function::rpo.                                              *)
(***************************************************************************)
SpreadDef ==
  /\ stage = "def"
  /\ stage' = "spread"
  /\ phiMap' = [n \in Block |-> UNION {Stores(b) : b \in {c \in Block : n \in code.fro[c]}}]
  /\ added' = phiMap'
  /\ queue' = code.rpo
  /\ UNCHANGED <<code, renaming, run>>

\* if (!__phi)
NewIn(n, cur) == cur \ phiMap[n]

NeverPush(n, new, left) == FALSE   \* a slip

\* __cnt != 0 && __cnt == __vec.size()
Push(n, new, left) == new # {} /\ left = {}

SpreadPhi ==
  /\ stage = "spread" /\ queue # <<>>
  /\ LET node == Head(queue)
         left == [added EXCEPT ![node] = {}]
         new  == [n \in Block |-> IF n \in code.fro[node] THEN NewIn(n, added[node]) ELSE {}]
     IN  /\ phiMap' = [n \in Block |-> phiMap[n] \cup new[n]]
         /\ added' = [n \in Block |-> left[n] \cup new[n]]
         /\ \E pushed \in Orders({n \in Block : Push(n, new[n], left[n])}) :
              queue' = Tail(queue) \o pushed
  /\ UNCHANGED <<code, stage, renaming, run>>

(***************************************************************************)
(* updateBlock, statement by statement, on the work w: the function and    *)
(* varMap.  update replaces the destination of a load that goes away in    *)
(* the statements that used it when the walk began: those of the function, *)
(* not the new phi statements.                                             *)
(***************************************************************************)
Substituted(operand, t, value) ==
  IF operand.k = "name" /\ operand.v = t THEN value ELSE operand

AllSubstituted(operands, t, value) ==
  [j \in DOMAIN operands |-> Substituted(operands[j], t, value)]

UpdateUses(w, t, value) ==
  [w EXCEPT
     !.data = [b \in Block |-> [i \in DOMAIN w.data[b] |->
        [w.data[b][i] EXCEPT !.args = AllSubstituted(@, t, value)]]],
     !.phi = [b \in Block |-> [i \in DOMAIN w.phi[b] |->
        [w.phi[b][i] EXCEPT !.from = AllSubstituted(@, t, value)]]]]

UpdateStmt(w, b, i) ==
  LET stmt == w.data[b][i]
  IN  IF stmt.op = "store" THEN [w EXCEPT !.varMap[stmt.dest] = stmt.args[1]]
      ELSE IF stmt.op # "load" THEN w
      ELSE IF w.varMap[stmt.args[1].v] = Null THEN [w EXCEPT !.failed = TRUE]
      ELSE UpdateUses(w, stmt.dest, w.varMap[stmt.args[1].v])

\* The places of the statements that stay, in their order.
Staying(body) ==
  LET upTo[i \in 0..Len(body)] ==
        IF i = 0 THEN <<>>
        ELSE IF body[i].op \in {"store", "load"} THEN upTo[i - 1]
        ELSE Append(upTo[i - 1], i)
  IN  upTo[Len(body)]

UpdateBlock(w, b) ==
  LET at[i \in 0..Len(w.data[b])] == IF i = 0 THEN w ELSE UpdateStmt(at[i - 1], b, i)
      done == at[Len(w.data[b])]
      left == Staying(done.data[b])
  IN  [done EXCEPT !.data[b] = [k \in DOMAIN left |-> @[left[k]]]]

\* The new phi statements of a block define its locals.
WithPhis(b, given) ==
  [x \in Local |-> IF x \in phiMap[b] THEN Named(NewPhi(b, x)) ELSE given[x]]

(***************************************************************************)
(* The call of rename on a block that was not visited, down to its loop:   *)
(* given is varMap when it is called, outer the calls around it.  The      *)
(* assertion in updateBlock may fail.                                      *)
(***************************************************************************)
Rename(b, given, outer) ==
  LET w == UpdateBlock([data |-> data, phi |-> phi, varMap |-> WithPhis(b, given),
                        failed |-> FALSE], b)
  IN  /\ visited' = visited \cup {b}
      /\ stage' = IF w.failed THEN "error" ELSE "rename"
      /\ calls' = Append(outer, [block |-> b, bak |-> given, todo |-> Range(code.flow[b].to)])
      /\ data' = w.data /\ phi' = w.phi /\ varMap' = w.varMap

StartRename ==
  /\ stage = "spread" /\ queue = <<>>
  /\ Rename(Entry, varMap, <<>>)
  /\ UNCHANGED <<code, placing, filled, run>>

\* What spreadBranch puts into varMap when it meets a local without a value.
Spread(c) ==
  [x \in Local |-> IF x \in phiMap[c] /\ varMap[x] = Null THEN Undefined ELSE varMap[x]]

\* The list of a phi statement with an entry for b.
WithEntry(list, b, value) ==
  [p \in DOMAIN list \cup {b} |-> IF p \in DOMAIN list THEN list[p] ELSE value]

\* A turn of the loop over the successors: spreadBranch and the call of rename.
Descend(c) ==
  /\ stage = "rename" /\ calls # <<>>
  /\ c \in Last(calls).todo
  /\ LET b == Last(calls).block
         outer == [calls EXCEPT ![Len(calls)].todo = @ \ {c}]
         list(x) == IF x \in phiMap[c] THEN WithEntry(filled[c][x], b, Spread(c)[x]) ELSE filled[c][x]
     IN  /\ filled' = [filled EXCEPT ![c] = [x \in Local |-> list(x)]]
         /\ IF c \in visited
            THEN varMap' = Spread(c) /\ calls' = outer /\ UNCHANGED <<stage, visited, data, phi>>
            ELSE Rename(c, Spread(c), outer)
  /\ UNCHANGED <<code, placing, run>>

KeptMap == varMap   \* a slip

Restored == Last(calls).bak

Leave ==
  /\ stage = "rename" /\ calls # <<>>
  /\ Last(calls).todo = {}
  /\ varMap' = Restored
  /\ calls' = Front(calls)
  /\ UNCHANGED <<code, stage, placing, visited, filled, data, phi, run>>

(***************************************************************************)
(* insertPhi on every block; the locals are gone.  The function as it was  *)
(* and as it is now are run from the entry.                                *)
(***************************************************************************)
NewPhis(b) == {Phi(NewPhi(b, x), filled[b][x]) : x \in phiMap[b]}

InsertPhi ==
  /\ stage = "rename" /\ calls = <<>>
  /\ stage' = "done"
  /\ phi' = [b \in Block |-> phi[b] \o SetToSeq(NewPhis(b))]
  /\ run' = [at |-> Entry, from |-> Null, agree |-> TRUE,
             old |-> [x \in code.temps \cup Local |-> Null],
             new |-> [x \in code.temps \cup AllNewPhis |-> Null]]
  /\ UNCHANGED <<code, placing, calls, visited, varMap, filled, data>>

Exits(b) == IF code.flow[b] = Return THEN {Null} ELSE Range(code.flow[b].to)

Zeros == [i \in Nat |-> 0]

\* Both run one block and take the same way from it.
RunOn(c) ==
  /\ LET old == RunBlock(run.old, code.phi[run.at], code.data[run.at], run.from, Zeros)
         new == RunBlock(run.new, phi[run.at], data[run.at], run.from, Zeros)
     IN  run' = [at |-> c, from |-> run.at, old |-> old.env, new |-> new.env,
                 agree |-> Agrees(old.out, new.out)]
  /\ UNCHANGED <<code, stage, placing, renaming>>

Next ==
  \/ SpreadDef
  \/ SpreadPhi
  \/ StartRename
  \/ \E c \in Block : Descend(c)
  \/ Leave
  \/ InsertPhi
  \/ stage = "done" /\ run.at # Null /\ \E c \in Exits(run.at) : RunOn(c)

Spec == Init /\ [][Next]_vars

-----------------------------------------------------------------------------

\* What a block in the work list still has to spread is all that is missing: a
\* local that a block stores to, or has a new phi statement for, has one in its
\* frontier unless it is still to be spread by a block in the queue.
SpreadOrQueued ==
  stage # "def" =>
    \A b \in Block : \A n \in code.fro[b], x \in Stores(b) \cup phiMap[b] :
      x \in phiMap[n] \/ (x \in added[b] /\ b \in Range(queue))

\* A run of the function gives its calls what it gave them before, except for
\* what was not initialized; whatever side of a branch is taken, and although
\* the walk that renames comes to a block on one way only.
SameReads == stage = "done" => run.agree

\* The assertion "mem2reg: variable not initialized" fails only for a load that
\* no store to the local can run before.
StoredBefore(b, i) ==
  LET x == code.data[b][i].args[1].v
      again == UNION {SuccOf(ForwardEdges(code.flow), c) : c \in {d \in Block : x \in Stores(d)}}
  IN  \/ \E j \in 1..(i - 1) : code.data[b][j].dest = x
      \/ \E c \in again : b \in Reachable(ForwardEdges(code.flow), c)

FailsOnlyUnstored ==
  stage = "error" =>
    \E b \in Block : \E i \in DOMAIN code.data[b] :
      code.data[b][i].op = "load" /\ ~StoredBefore(b, i)

=============================================================================

--------------------------- MODULE ConstantReplacer ---------------------------
(***************************************************************************)
(* GlobalConstantReplacer: a global variable that is stored to only once,  *)
(* by ._Global_Init, and a constant, is that constant.  A program is the   *)
(* statements of ._Global_Init, which run first, the function, the global  *)
(* variables that other functions store to, and the initial value of each. *)
(***************************************************************************)
EXTENDS Execution

StoresTo(stmts) == SelectSeq(stmts, LAMBDA s : s.op = "write" /\ s.args[1].k = "global")

Stored(stmts) == {s.args[1].v : s \in Range(StoresTo(stmts))}

\* scanUsage, of this function and of the others.
Scanned(code) == code.elsewhere \cup UNION {Stored(code.data[b]) : b \in Block}

\* scanInit: a second store, or one of what is no constant.
Spoiled(stmts, g) ==
  \/ \E s \in Range(stmts) : s.args[1].v = g /\ s.args[2].k # "const"
  \/ \E i, j \in DOMAIN stmts : i # j /\ stmts[i].args[1].v = g /\ stmts[j].args[1].v = g

UseSet(code) ==
  Scanned(code) \cup {g \in Stored(code.start) : Spoiled(StoresTo(code.start), g)}

\* The initial values, with those that ._Global_Init gives.
InitialValues(code) ==
  [g \in DOMAIN code.init |->
     IF g \in Stored(code.start) \ UseSet(code)
     THEN (CHOOSE s \in Range(StoresTo(code.start)) : s.args[1].v = g).args[2]
     ELSE code.init[g]]

\* valMap, of the statements of one function.
ValueOfLoads(code, stmts) ==
  LET loads == {s \in stmts : s.op = "read" /\ s.args[1].k = "global" /\ s.args[1].v \notin UseSet(code)}
  IN  [t \in {s.dest : s \in loads} |-> InitialValues(code)[(CHOOSE s \in loads : s.dest = t).args[1].v]]

\* Up to the first operand that is no temporary; then all its occurrences.
Replaced(known, operands) ==
  LET first == {i \in DOMAIN operands : \A j \in 1..i : operands[j].k = "name"}
      old   == {operands[i] : i \in first}
  IN  [i \in DOMAIN operands |->
         IF operands[i] \in old /\ operands[i].v \in DOMAIN known THEN known[operands[i].v] ELSE operands[i]]

ReplacedIn(known, stmts) == [i \in DOMAIN stmts |-> [stmts[i] EXCEPT !.args = Replaced(known, @)]]

ReplacedPhi(known, phi) ==
  LET order == SetToSeq(DOMAIN phi.from)
      new   == Replaced(known, [i \in DOMAIN order |-> phi.from[order[i]]])
  IN  [phi EXCEPT !.from = [b \in DOMAIN @ |-> new[CHOOSE i \in DOMAIN order : order[i] = b]]]

\* In ._Global_Init too.
ReplaceConstants(code) ==
  LET known == ValueOfLoads(code, UNION {Range(code.data[b]) : b \in Block})
  IN  [code EXCEPT
         !.start = ReplacedIn(ValueOfLoads(code, Range(@)), @),
         !.data = [b \in Block |-> ReplacedIn(known, @[b])],
         !.phi  = [b \in Block |-> [i \in DOMAIN @[b] |-> ReplacedPhi(known, @[b][i])]],
         !.cond = [b \in Block |-> Replaced(known, <<@[b]>>)[1]],
         !.init = InitialValues(code)]

=============================================================================

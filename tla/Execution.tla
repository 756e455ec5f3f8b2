------------------------------ MODULE Execution ------------------------------
(***************************************************************************)
(* What a function's statements do when it is run.  The models of passes   *)
(* that rewrite statements run the function before and after the pass next *)
(* to each other and compare what the calls of the two are given.          *)
(*                                                                         *)
(* An operand is a constant, the name of a temporary or of a variable in   *)
(* memory, the address of a global variable, what is in a cell of memory,  *)
(* or undefined.  The environment holds the value of every name and cell;  *)
(* a store to a variable and a load from it copy a value, a write and a    *)
(* read do so at an address.  Null is the value of what is undefined or    *)
(* was not assigned yet.  Memory that is allocated comes in pieces of the  *)
(* same size, the first cell of which holds the length.                    *)
(***************************************************************************)
EXTENDS FlowGraph, SequencesExt

CONSTANT Width   \* the number of bits of an integer

INSTANCE Words

Const(n)  == [k |-> "const", v |-> n]
Named(x)  == [k |-> "name", v |-> x]
Argument(x) == [k |-> "argument", v |-> x]
Undefined == [k |-> "undefined", v |-> Null]
Global(l) == [k |-> "global", v |-> l]
Cell(l)   == [k |-> "cell", v |-> l]     \* only in what a call sees

\* A statement.  Null is the destination of one that has none.
Stmt(op, dest, args) == [op |-> op, dest |-> dest, args |-> args]
Store(x, src)  == Stmt("store", x, <<src>>)
Load(t, x)     == Stmt("load", t, <<Named(x)>>)
Call(t, args)  == Stmt("call", t, args)
UserCall(t, args) == Stmt("usercall", t, args)  \* a call that may read and write memory
Write(p, src)  == Stmt("write", Null, <<p, src>>)
Read(t, p)     == Stmt("read", t, <<p>>)

\* A phi statement has one operand for each predecessor it has an entry for.
Phi(dest, from) == [dest |-> dest, from |-> from]

ValueOf(env, operand) ==
  IF operand.k \in {"name", "argument", "cell"} THEN env[operand.v] ELSE operand.v

PieceSize  == 5
FirstPiece == 1000   \* behind all names

\* Where the elements of the next piece begin.
NextPiece(cells) == FirstPiece + PieceSize * (Cardinality({c \in cells : c >= FirstPiece}) \div PieceSize) + 1

HasRoom(len) == len \in 0..PieceSize - 1

Enlarged(env, len) ==
  LET a == NextPiece(DOMAIN env)
  IN  IF HasRoom(len) THEN [c \in a - 1..a + PieceSize - 2 |-> IF c = a - 1 THEN len ELSE Null] @@ env ELSE env

\* What a statement gives from the values of its operands; what is computed
\* from an undefined value is undefined.
Computed(env, op, args, input) ==
  CASE op \in {"call", "usercall"} -> input
    [] op \in {"store", "load", "new"} -> args[1]
    [] op = "write" -> args[2]
    [] op = "read" -> IF args[1] \in DOMAIN env THEN env[args[1]] ELSE Null
    [] op = "allocate" -> IF HasRoom(args[1]) THEN NextPiece(DOMAIN env) ELSE Null
    [] op = "size" -> IF args[1] # Null /\ args[1] - 1 \in DOMAIN env THEN env[args[1] - 1] ELSE Null
    [] op \in {"getarray", "getmember"} -> IF Null \in Range(args) THEN Null ELSE args[1] + args[2]
    [] OTHER -> IF Null \in Range(args) THEN Null ELSE Operation(op, args[1], args[2])

\* One statement: run.out is what the calls were given, input what they return
\* one after the other.
Executed(run, stmt, input) ==
  LET args == [i \in DOMAIN stmt.args |-> ValueOf(run.env, stmt.args[i])]
      dest == IF stmt.op = "write" THEN args[1] ELSE stmt.dest
      done == Computed(run.env, stmt.op, args, input[Len(run.out) + 1])
      env  == IF stmt.op = "allocate" THEN Enlarged(run.env, args[1]) ELSE run.env
  IN  [env |-> [x \in DOMAIN env |-> IF x = dest THEN done ELSE env[x]],
       out |-> IF stmt.op \in {"call", "usercall"} THEN Append(run.out, args) ELSE run.out]

\* All phi statements of a block at once, on the way in from a predecessor.
Entered(env, phis, from) ==
  LET dests == {phis[i].dest : i \in DOMAIN phis}
      of(x) == CHOOSE i \in DOMAIN phis : phis[i].dest = x
  IN  [x \in DOMAIN env |-> IF x \in dests THEN ValueOf(env, phis[of(x)].from[from]) ELSE env[x]]

\* A block, its phi statements and then the others in their order.
RunBlock(env, phis, data, from, input) ==
  LET at[i \in 0..Len(data)] ==
        IF i = 0 THEN [env |-> IF from = Null THEN env ELSE Entered(env, phis, from), out |-> <<>>]
        ELSE Executed(at[i - 1], data[i], input)
  IN  at[Len(data)]

\* Where the one program passes a defined value the other passes the same.
Agrees(out, other) ==
  /\ Len(out) = Len(other)
  /\ \A i \in DOMAIN out : /\ Len(out[i]) = Len(other[i])
                           /\ \A j \in DOMAIN out[i] : out[i][j] \in {Null, other[i][j]}

=============================================================================

--------------------------- MODULE MemorySimplifier ---------------------------
(***************************************************************************)
(* memorySimplifier: what is known of the memory within a block.  memMap   *)
(* has, of each address, the value that is there and the last store that   *)
(* nothing may have read since, or Null.  A store is named by its block    *)
(* and place.  The kind of an address is traced to the statement that      *)
(* gives it; code.type holds the type of every address.                    *)
(***************************************************************************)
EXTENDS Execution

\* addressType, in its order.
AddressTypes == <<"global", "getmember", "phi", "getarray", "local", "load", "new", "call", "argument">>

OrderOf(kind) == CHOOSE i \in DOMAIN AddressTypes : AddressTypes[i] = kind

StmtOf(code, t) == {stmt \in UNION {Range(code.data[b]) : b \in Block} : stmt.dest = t}

\* traceAddress
KindOf(code, o) ==
  LET ops == {stmt.op : stmt \in StmtOf(code, o.v)}
  IN  CASE o.k \in {"global", "argument"} -> o.k
        [] ops \subseteq {"call", "usercall"} /\ ops # {} -> "call"
        [] ops = {"read"} -> "load"
        [] \E op \in ops : op \in {"new", "getmember", "getarray"} -> CHOOSE op \in ops : TRUE
        [] OTHER -> "phi"

\* analyzeMember: one member is not the other, and of the same one the objects tell.
RECURSIVE MayAliasing(_, _, _)

MayAliasing(code, l, r) ==
  LET lkind == KindOf(code, l) rkind == KindOf(code, r)
      first == AddressTypes[Min({OrderOf(lkind), OrderOf(rkind)})]
      got(o) == (CHOOSE stmt \in StmtOf(code, o.v) : TRUE).args
  IN  CASE l = r -> TRUE
        [] {l.k, r.k} \cap {"const", "undefined"} # {} -> TRUE
        [] code.type[l.v] # code.type[r.v] -> FALSE
        [] lkind = "getmember" /\ rkind = "getmember" ->
             got(l)[2] = got(r)[2] /\ MayAliasing(code, got(l)[1], got(r)[1])
        [] first = "getarray" -> lkind = rkind
        [] OTHER -> first \in {"phi", "load", "call", "argument"}

NothingKnown == [val |-> Null, last |-> Null]

InfoOf(mem, addr) == IF addr \in DOMAIN mem THEN mem[addr] ELSE NothingKnown

\* What happens to the others when an address is used.
Influenced(code, mem, addr, info, Change(_)) ==
  [a \in DOMAIN mem \cup {addr} |->
     IF a = addr THEN info ELSE IF MayAliasing(code, addr, a) THEN Change(mem[a]) ELSE mem[a]]

KeepLast(info) == info   \* a slip

\* The last store to an address that may be the one that is read is used.
UseLast(info) == [info EXCEPT !.last = Null]

\* The value that a load gives, if it is known: Null otherwise.
AnalyzeLoad(code, mem, addr, dest) ==
  LET info == InfoOf(mem, addr)
  IN  Influenced(code, mem, addr, [info EXCEPT !.val = IF @ = Null THEN dest ELSE @], UseLast)

\* The store that has been of no use, if there is one.
DeadStore(mem, addr, src, store) ==
  LET info == InfoOf(mem, addr)
  IN  IF info.last # Null THEN {info.last} ELSE IF info.val = src THEN {store} ELSE {}

\* What may be at another address is forgotten, unless it is the same value.
AnalyzeStore(code, mem, addr, src, store) ==
  Influenced(code, mem, addr, [val |-> src, last |-> store],
             LAMBDA info : IF info.val = src THEN info ELSE NothingKnown)

=============================================================================

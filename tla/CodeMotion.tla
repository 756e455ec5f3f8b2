------------------------------ MODULE CodeMotion ------------------------------
(***************************************************************************)
(* GlobalCodeMotionPass: each statement that may move goes to the block    *)
(* with the least loop depth on the way from where all its uses are        *)
(* dominated up to where its operands are available, the lowest of these.  *)
(* Calls, memory and phi statements stay; within a block they keep their   *)
(* order, with what they need in front of them.                            *)
(*                                                                         *)
(* A statement is named by its block and its place in the function as it   *)
(* was: 0 the flow statement, i > 0 the i-th of data, -i the i-th phi.     *)
(***************************************************************************)
EXTENDS Execution

Places(code, b) == [i \in DOMAIN code.phi[b] |-> <<b, -i>>] \o [i \in DOMAIN code.data[b] |-> <<b, i>>] \o <<<<b, 0>>>>

Sites(code) == FlattenSeq([i \in DOMAIN code.rpo |-> Places(code, code.rpo[i])])

OperandsAt(code, site) ==
  LET b == site[1] i == site[2]
  IN  CASE i = 0 -> <<code.cond[b]>>
        [] i > 0 -> code.data[b][i].args
        [] OTHER -> LET from == code.phi[b][-i].from
                    IN  [j \in 1..Cardinality(DOMAIN from) |-> from[SetToSeq(DOMAIN from)[j]]]

DestAt(code, site) ==
  CASE site[2] = 0 -> Null
    [] site[2] > 0 -> code.data[site[1]][site[2]].dest
    [] OTHER -> code.phi[site[1]][-site[2]].dest

IsFixed(code, site) ==
  \/ site[2] <= 0
  \/ code.data[site[1]][site[2]].op \in {"call", "usercall", "new", "read", "write", "store", "load"}

(***************************************************************************)
(* A function with what its statements know of each other: all of them,    *)
(* where the operands of each are defined (temporary::def), who uses it    *)
(* (initUseList), and which are fixed.                                     *)
(***************************************************************************)
Linked(code) ==
  LET sites == Sites(code)
      dests == {DestAt(code, s) : s \in Range(sites)} \ {Null}
      def   == [t \in dests |-> CHOOSE s \in Range(sites) : DestAt(code, s) = t]
      temps(s) == SelectSeq(OperandsAt(code, s), LAMBDA o : o.k = "name" /\ o.v \in dests)
      defs(s)  == [i \in DOMAIN temps(s) |-> def[temps(s)[i].v]]
  IN  code @@ [sites |-> sites,
               defs  |-> [s \in Range(sites) |-> defs(s)],
               users |-> [s \in Range(sites) |-> {u \in Range(sites) : s \in Range(defs(u))}],
               fixed |-> {s \in Range(sites) : IsFixed(code, s)}]

Depth(code, b) == Cardinality(code.dom[b])

\* scheduleEarly: s.early starts as where the statements are.
RECURSIVE ScheduleEarly(_, _, _)

ScheduleEarly(code, s, site) ==
  LET visit(p, d) ==
        LET t == ScheduleEarly(code, p.s, d)
        IN  [s |-> t, b |-> IF Depth(code, t.early[d]) > Depth(code, p.b) THEN t.early[d] ELSE p.b]
      p == FoldLeft(visit, [s |-> [s EXCEPT !.visited = @ \cup {site}], b |-> Entry], code.defs[site])
  IN  CASE site \in s.visited -> s
        [] site \in code.fixed -> p.s
        [] OTHER -> [p.s EXCEPT !.early[site] = p.b]

Early(code) ==
  FoldLeft(LAMBDA s, site : ScheduleEarly(code, s, site),
           [visited |-> {}, early |-> [s \in Range(code.sites) |-> s[1]]], code.sites).early

\* __find_lca, of a set of blocks; Null of none.
LowestAncestor(code, blocks) ==
  IF blocks = {} THEN Null
  ELSE LET common == {b \in Block : \A c \in blocks : b \in code.dom[c]}
       IN  CHOOSE b \in common : common \subseteq code.dom[b]

StrictlyAbove(code, b) == code.dom[b] \ {b}

\* __get_loop_depth: the depth of the innermost loop is the number of them all.
LoopDepth(loops, b) == Cardinality(loops[b])

EarliestBlock(code, loops, first, last) == first   \* a slip

\* scheduleBlock: up from the last block to the first.
ShallowestBlock(code, loops, first, last) ==
  LET way  == code.dom[last] \ StrictlyAbove(code, first)
      best == {b \in way : \A c \in way : LoopDepth(loops, b) <= LoopDepth(loops, c)}
  IN  CHOOSE b \in best : best \subseteq code.dom[b]

UsersBlock(code, attached, site, use) == {attached[use]}   \* a slip

\* A phi uses its operand at the end of the block that it comes from.
UseBlocks(code, attached, site, use) ==
  IF use[2] < 0
  THEN LET from == code.phi[use[1]][-use[2]].from
       IN  {p \in DOMAIN from : from[p] = Named(DestAt(code, site))}
  ELSE {attached[use]}

LastUse(code, attached, site) ==
  LowestAncestor(code, UNION {UseBlocks(code, attached, site, u) : u \in code.users[site]})

\* scheduleLate: where each statement goes, those that use it first.
RECURSIVE ScheduleLate(_, _, _, _, _)

ScheduleLate(code, loops, early, s, site) ==
  LET users == SelectSeq(code.sites, LAMBDA u : u \in code.users[site] /\ u[2] >= 0)
      t     == FoldLeft(LAMBDA r, u : ScheduleLate(code, loops, early, r, u),
                        [s EXCEPT !.visited = @ \cup {site}], users)
      last  == LastUse(code, t.attached, site)
  IN  CASE site \in s.visited -> s
        [] site \in code.fixed -> [s EXCEPT !.visited = @ \cup {site}]
        [] last = Null \/ early[site] \notin code.dom[last] -> [t EXCEPT !.lost = TRUE]
        [] OTHER -> [t EXCEPT !.attached[site] = ShallowestBlock(code, loops, early[site], last)]

\* attached, and whether the way up misses the first block, or has no last one.
Late(code, loops) ==
  LET early == Early(code)
  IN  FoldLeft(LAMBDA s, site : ScheduleLate(code, loops, early, s, site),
               [visited |-> {}, attached |-> [s \in Range(code.sites) |-> s[1]], lost |-> FALSE],
               code.sites)

\* motionDfs: what a statement needs of its block comes first.
RECURSIVE MotionDfs(_, _, _, _)

MotionDfs(code, attached, s, site) ==
  LET needed == SelectSeq(code.defs[site], LAMBDA d : d[2] > 0 /\ attached[d] = attached[site])
      t == FoldLeft(LAMBDA r, d : MotionDfs(code, attached, r, d), [s EXCEPT !.visited = @ \cup {site}], needed)
  IN  IF site \in s.visited THEN s ELSE [t EXCEPT !.list = Append(@, site)]

\* arrangeMotion
Arranged(code, attached, b) ==
  LET list  == SelectSeq(code.sites, LAMBDA s : s[2] > 0 /\ attached[s] = b)
      fixed == SelectSeq(list, LAMBDA s : s \in code.fixed)
      all   == FoldLeft(LAMBDA s, site : MotionDfs(code, attached, s, site),
                        [visited |-> {}, list |-> <<>>], fixed \o list).list
  IN  [i \in DOMAIN all |-> code.data[all[i][1]][all[i][2]]]

Moved(code, late) == [code EXCEPT !.data = [b \in Block |-> Arranged(code, late.attached, b)]]

=============================================================================

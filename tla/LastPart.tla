------------------------------- MODULE LastPart -------------------------------
(***************************************************************************)
(* The last part of the optimizer, as far as it is not modelled elsewhere: *)
(* the loops of a function are detected, statements are moved, values are  *)
(* numbered, and in the end global variables that are constant are         *)
(* replaced.  After these passes the program is run next to the program as *)
(* it was.                                                                  *)
(***************************************************************************)
EXTENDS Execution

CONSTANT Programs   \* the functions, with dominators and rpo, and how they are started

VARIABLES
  given,     \* the program as it was
  code,      \* the program as it is now
  stage,     \* the pass that is next
  swap,      \* the order of hashes that try_formatize goes by
  loops,     \* the loops around each block, once they are known
  late,      \* where statements go, once it is decided
  run        \* the two runs

vars == <<given, code, stage, swap, loops, late, run>>

Motion    == INSTANCE CodeMotion
Numbering == INSTANCE ValueNumbering WITH Swap <- swap
Replacer  == INSTANCE ConstantReplacer

Init ==
  /\ given \in Programs
  /\ code = given
  /\ stage = "detect"
  /\ swap \in given.swaps
  /\ loops = Null /\ late = Null /\ run = Null

\* As LoopNestDetector promises.
DetectLoops ==
  /\ stage = "detect" /\ run = Null
  /\ stage' = "link"
  /\ loops' = [b \in Block |-> LoopsAround(code.flow, code.dom, b)]
  /\ UNCHANGED <<given, code, swap, late, run>>

InitUseList ==
  /\ stage = "link" /\ run = Null
  /\ stage' = "schedule"
  /\ code' = Motion!Linked(code)
  /\ UNCHANGED <<given, swap, loops, late, run>>

Schedule ==
  /\ stage = "schedule" /\ run = Null
  /\ stage' = "move"
  /\ late' = Motion!Late(code, loops)
  /\ UNCHANGED <<given, code, swap, loops, run>>

\* Nothing moves where the scheduling got lost; the compiler would be so as well.
MoveCode ==
  /\ stage = "move" /\ run = Null
  /\ stage' = "number"
  /\ code' = IF late.lost THEN given ELSE [given EXCEPT !.data = Motion!Moved(code, late).data]
  /\ UNCHANGED <<given, swap, loops, late, run>>

NumberValues ==
  /\ stage = "number" /\ run = Null
  /\ stage' = "replace"
  /\ code' = Numbering!NumberValues(code)
  /\ UNCHANGED <<given, swap, loops, late, run>>

ReplaceConstants ==
  /\ stage = "replace" /\ run = Null
  /\ stage' = "done"
  /\ code' = Replacer!ReplaceConstants(code)
  /\ UNCHANGED <<given, swap, loops, late, run>>

-----------------------------------------------------------------------------

\* The environment behind ._Global_Init, from some values of the arguments and of what its calls return.
Started(c, args, input) ==
  LET cells == [x \in DOMAIN c.init \cup c.heap |-> IF x \in c.heap THEN Null ELSE c.init[x].v]
      temps == [t \in c.temps |-> Null]
  IN  RunBlock(args @@ cells @@ temps, <<>>, c.start, Null, [i \in Nat |-> input]).env

Start(args, input) ==
  /\ stage = "done" /\ run = Null
  /\ run' = [at |-> Entry, from |-> Null, agree |-> TRUE,
             old |-> Started(given, args, input), new |-> Started(code, args, input)]
  /\ UNCHANGED <<given, code, stage, swap, loops, late>>

RunBlockOf(c, env, input) ==
  LET ran == RunBlock(env, c.phi[run.at], c.data[run.at], run.from, [i \in Nat |-> input])
  IN  [env |-> ran.env, out |-> Append(ran.out, <<ValueOf(ran.env, c.cond[run.at])>>)]

\* The way on; a run ends where the program as it was does not know its way.
Way(out) ==
  LET flow == given.flow[run.at]
      cond == Last(out)[1]
  IN  CASE flow.op = "jump" -> flow.to[1]
        [] flow.op = "branch" /\ cond # Null -> flow.to[cond + 1]
        [] OTHER -> Null

RunOn(input) ==
  /\ run # Null /\ run.at # Null
  /\ LET old == RunBlockOf(given, run.old, input)
         new == RunBlockOf(code, run.new, input)
     IN  run' = [at |-> Way(old.out), from |-> run.at, agree |-> Agrees(old.out, new.out),
                 old |-> old.env, new |-> new.env]
  /\ UNCHANGED <<given, code, stage, swap, loops, late>>

Next ==
  \/ DetectLoops
  \/ InitUseList
  \/ Schedule
  \/ MoveCode
  \/ NumberValues
  \/ ReplaceConstants
  \/ \E args \in given.args, input \in given.inputs : Start(args, input)
  \/ \E input \in given.inputs : RunOn(input)

Spec == Init /\ [][Next]_vars

-----------------------------------------------------------------------------

\* What is passed to calls, read by them and returned is what it was before the
\* passes.
RunsAgree == run # Null => run.agree

\* Where a statement may go is on the way up from its last use; the way never
\* ends at the root without it.
FirstMeetsLast == stage = "move" => ~late.lost

\* No statement moves to a block in more loops than the one it was in.
NeverDeeper ==
  stage = "move" =>
    \A s \in DOMAIN late.attached :
      Motion!LoopDepth(loops, late.attached[s]) <= Motion!LoopDepth(loops, s[1])

=============================================================================

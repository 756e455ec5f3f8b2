---------------------------- MODULE PipelineProofs ----------------------------
(***************************************************************************)
(* Theorems about the order in which DoOptimize calls the passes, about    *)
(* DeadCodeEliminator, the pass on its list that neither reads nor changes *)
(* what the others store in the function, and about LoopNestDetector.      *)
(*                                                                         *)
(* DeadCodeEliminator: the work queue keeps two promises at any time.      *)
(* Every marked statement that is no longer in the queue has its operands  *)
(* marked, so that what is marked when the queue is empty is sufficient.   *)
(* And a statement is only marked if every sufficient set holds it, so     *)
(* that what is marked is the least one.                                   *)
(*                                                                         *)
(* The pipeline: no pass alone keeps the flags true.  CFGsimplifier clears *)
(* none, and GlobalCodeMotionPass makes no analysis.  What makes up for it *)
(* is what the pass before has left, and the invariant says what that is.  *)
(*                                                                         *)
(* LoopNestDetector: a block may carry the loop of its dominator after it  *)
(* has left that.  But going outwards from there meets every loop around   *)
(* the block: these, but its own, are around its dominator as well.        *)
(***************************************************************************)
EXTENDS DeadCodeEliminator, PipelineSteps, FlowGraphProofs, FiniteSetTheorems, TLAPS

Progress ==
  /\ stage = "collect" => queue = {} /\ marked = {}
  /\ stage # "collect" => Roots \subseteq marked
  /\ \A s \in marked \ queue : code.uses[s] \subseteq marked
  /\ stage # "done" => kept = Statement
  /\ stage = "done" => queue = {} /\ kept = marked

Inv == TypeOK /\ Progress /\ OnlyNeededIsMarked

LEMMA CodeType ==
  ASSUME NEW c \in Code
  PROVE  /\ \A s \in Statement : c.uses[s] \in SUBSET Statement
         /\ Effects(c) \subseteq Statement
BY DEF Code, Statement, Effects

LEMMA InitInv == Init => Inv
<1> SUFFICES ASSUME Init PROVE Inv
  OBVIOUS
<1>1. code \in Code
  BY ProgramAssumption DEF Init
<1>2. TypeOK
  BY <1>1 DEF Init, TypeOK
<1>3. Progress
  BY DEF Init, Progress
<1>4. OnlyNeededIsMarked
  BY DEF Init, OnlyNeededIsMarked
<1> QED
  BY <1>2, <1>3, <1>4 DEF Inv

LEMMA CollectInv == Inv /\ Collect => Inv'
<1> SUFFICES ASSUME Inv, Collect PROVE Inv'
  OBVIOUS
<1> USE DEF Inv
<1>1. code \in Code /\ code' = code /\ marked' = Roots /\ queue' = Roots
  BY DEF Collect, TypeOK
<1>2. Roots \in SUBSET Statement
  BY <1>1, CodeType DEF Roots, Statement
<1>3. TypeOK'
  BY <1>1, <1>2 DEF TypeOK, Collect
<1>4. Progress'
  BY <1>1 DEF Progress, Collect, Roots, Effects
<1>5. OnlyNeededIsMarked'
  BY <1>1 DEF OnlyNeededIsMarked, Sufficient, Roots, Effects
<1> QED
  BY <1>3, <1>4, <1>5

LEMMA SpreadInv == ASSUME Inv, NEW s \in Statement, Spread(s) PROVE Inv'
<1> USE DEF Inv
<1>1. /\ code \in Code /\ code' = code /\ stage = "spread" /\ stage' = stage /\ kept' = kept
      /\ s \in queue /\ queue \subseteq marked /\ marked \in SUBSET Statement
      /\ marked' = marked \cup code.uses[s]
      /\ queue' = (queue \ {s}) \cup (code.uses[s] \ marked)
  BY DEF Spread, TypeOK, Pushed, Inserted
<1>2. code.uses[s] \in SUBSET Statement
  BY <1>1, CodeType
<1>3. TypeOK'
  BY <1>1, <1>2 DEF TypeOK
<1>4. \A t \in marked' \ queue' : code'.uses[t] \subseteq marked'
  <2> TAKE t \in marked' \ queue'
  <2>1. t = s \/ t \in marked \ queue
    BY <1>1
  <2> QED
    BY <2>1, <1>1 DEF Progress
<1>5. Progress'
  BY <1>1, <1>4 DEF Progress, Roots, Effects
<1>6. OnlyNeededIsMarked'
  <2> SUFFICES ASSUME NEW S \in SUBSET Statement, Sufficient(S)' PROVE marked' \subseteq S
    BY DEF OnlyNeededIsMarked
  <2>1. Sufficient(S)
    BY <1>1 DEF Sufficient, Effects
  <2>2. marked \subseteq S
    BY <2>1 DEF OnlyNeededIsMarked
  <2> QED
    BY <1>1, <2>1, <2>2 DEF Sufficient
<1> QED
  BY <1>3, <1>5, <1>6

LEMMA RemoveInv == Inv /\ Remove => Inv'
<1> SUFFICES ASSUME Inv, Remove PROVE Inv'
  OBVIOUS
<1> USE DEF Inv
<1>1. /\ code' = code /\ marked' = marked /\ queue = {} /\ queue' = {}
      /\ stage = "spread" /\ stage' = "done" /\ kept' = Remaining
  BY DEF Remove
<1>2. kept' = marked
  <2>1. Block \subseteq marked /\ marked \subseteq Statement /\ kept = Statement
    BY <1>1 DEF Progress, Roots, TypeOK
  <2> QED
    BY <1>1, <2>1 DEF Remaining, Statement
<1>3. TypeOK'
  BY <1>1, <1>2 DEF TypeOK
<1>4. Progress'
  BY <1>1, <1>2 DEF Progress, Roots, Effects
<1>5. OnlyNeededIsMarked'
  BY <1>1 DEF OnlyNeededIsMarked, Sufficient, Effects
<1> QED
  BY <1>3, <1>4, <1>5

LEMMA StutterInv == Inv /\ UNCHANGED vars => Inv'
BY DEF vars, Inv, TypeOK, Progress, OnlyNeededIsMarked, Sufficient, Roots, Effects

THEOREM Invariance == Spec => []Inv
<1>1. Init => Inv
  BY InitInv
<1>2. Inv /\ [Next]_vars => Inv'
  BY CollectInv, SpreadInv, RemoveInv, StutterInv DEF Next
<1> QED
  BY <1>1, <1>2, PTL DEF Spec

\* Every variable keeps its type, and what is queued has been marked.
THEOREM TypeCorrect == Spec => []TypeOK
<1>1. Inv => TypeOK
  BY DEF Inv
<1> QED
  BY <1>1, Invariance, PTL

\* When DeadCodeEliminator has filtered the blocks, every effect and every flow
\* statement is left, and no operand of what is left has lost its definition.
THEOREM NothingLost == Spec => []NothingDangles
<1>1. Inv => NothingDangles
  <2> SUFFICES ASSUME Inv, stage = "done" PROVE Sufficient(kept)
    BY DEF NothingDangles
  <2>1. kept = marked /\ queue = {} /\ Roots \subseteq marked
    BY DEF Inv, Progress
  <2> QED
    BY <2>1 DEF Inv, Progress, Sufficient, Roots
<1> QED
  BY <1>1, Invariance, PTL

\* The work queue never marks a statement that some sufficient set is without:
\* in whatever order it is taken, what is marked in the end is the least one.
THEOREM NothingSpared == Spec => []OnlyNeededIsMarked
<1>1. Inv => OnlyNeededIsMarked
  BY DEF Inv
<1> QED
  BY <1>1, Invariance, PTL

-----------------------------------------------------------------------------

\* The last pass to have run.
Ran(pass) == at >= 1 /\ Passes(level)[at] = pass

Kept ==
  /\ level \in 0..2 /\ at \in 0..Len(Passes(level))
  /\ facts \in SUBSET Fact /\ flags \in SUBSET Flag

\* unreachableRemover comes first.
Linked == at >= 1 => "cfg" \in flags /\ "pruned" \in facts

\* What the next pass finds of the one before it.
AsLeft ==
  /\ Ran("AggressiveElimination") => flags = {"cfg"}
  /\ Ran("mem2regPass") \/ Ran("dominantMaker") \/ Ran("GlobalValueNumberPass") => hasDomTree
  /\ Ran("LoopNestDetector") \/ Ran("GlobalCodeMotionPass") =>
       {"dom", "rpo"} \subseteq flags /\ ~is_post /\ "loop" \in facts

PipeInv == Kept /\ FlagsTellTheTruth /\ (~empty => Linked /\ AsLeft)

\* The order of the passes, read off a list of 19.
LEMMA BeforeIn ==
  ASSUME NEW P, NEW n \in 1..19,
         P[1] = "unreachableRemover",
         P[2] = "mem2regPass",
         P[3] = "ConstantPropagatior",
         P[4] = "dominantMaker",
         P[5] = "unreachableRemover",
         P[6] = "AggressiveElimination",
         P[7] = "CFGsimplifier",
         P[8] = "unreachableRemover",
         P[9] = "unreachableRemover",
         P[10] = "dominantMaker",
         P[11] = "ConstantPropagatior",
         P[12] = "unreachableRemover",
         P[13] = "AggressiveElimination",
         P[14] = "CFGsimplifier",
         P[15] = "LoopNestDetector",
         P[16] = "GlobalCodeMotionPass",
         P[17] = "GlobalValueNumberPass",
         P[18] = "ConstantPropagatior",
         P[19] = "unreachableRemover"
  PROVE  /\ n = 1 => P[n] = "unreachableRemover"
         /\ P[n] = "ConstantPropagatior" =>
              n > 1 /\ P[n - 1] \in {"mem2regPass", "dominantMaker", "GlobalValueNumberPass"}
         /\ P[n] = "CFGsimplifier" => n > 1 /\ P[n - 1] = "AggressiveElimination"
         /\ P[n] = "GlobalCodeMotionPass" => n > 1 /\ P[n - 1] = "LoopNestDetector"
         /\ P[n] = "GlobalValueNumberPass" => n > 1 /\ P[n - 1] = "GlobalCodeMotionPass"
<1>1. P[n] = "ConstantPropagatior" => n \in {3, 11, 18}
  OBVIOUS
<1>2. P[n] = "CFGsimplifier" => n \in {7, 14}
  OBVIOUS
<1>3. P[n] = "GlobalCodeMotionPass" => n = 16
  OBVIOUS
<1>4. P[n] = "GlobalValueNumberPass" => n = 17
  OBVIOUS
<1>5. n \in {3, 11, 18} => n - 1 \in {2, 10, 17}
  OBVIOUS
<1>6. n \in {7, 14} => n - 1 \in {6, 13}
  OBVIOUS
<1> QED
  BY <1>1, <1>2, <1>3, <1>4, <1>5, <1>6

LEMMA PassesAre ==
  ASSUME NEW l \in 1..2
  PROVE  /\ Len(Passes(l)) = 19
         /\ Passes(l)[1] = "unreachableRemover"
         /\ Passes(l)[2] = "mem2regPass"
         /\ Passes(l)[3] = "ConstantPropagatior"
         /\ Passes(l)[4] = "dominantMaker"
         /\ Passes(l)[5] = "unreachableRemover"
         /\ Passes(l)[6] = "AggressiveElimination"
         /\ Passes(l)[7] = "CFGsimplifier"
         /\ Passes(l)[8] = "unreachableRemover"
         /\ Passes(l)[9] = "unreachableRemover"
         /\ Passes(l)[10] = "dominantMaker"
         /\ Passes(l)[11] = "ConstantPropagatior"
         /\ Passes(l)[12] = "unreachableRemover"
         /\ Passes(l)[13] = "AggressiveElimination"
         /\ Passes(l)[14] = "CFGsimplifier"
         /\ Passes(l)[15] = "LoopNestDetector"
         /\ Passes(l)[16] = "GlobalCodeMotionPass"
         /\ Passes(l)[17] = "GlobalValueNumberPass"
         /\ Passes(l)[18] = "ConstantPropagatior"
         /\ Passes(l)[19] = "unreachableRemover"
BY DEF Passes, DoNotOptimize, FirstHalf, SecondHalf, LastPart

LEMMA PassesAtZero == Len(Passes(0)) = 1 /\ Passes(0)[1] = "unreachableRemover"
BY DEF Passes, DoNotOptimize

\* Which pass has run when another is next.
LEMMA Before ==
  ASSUME level \in 0..2, at \in Nat, NEW pass, Upcoming(pass)
  PROVE  /\ at = 0 => pass = "unreachableRemover"
         /\ pass = "ConstantPropagatior" =>
              Ran("mem2regPass") \/ Ran("dominantMaker") \/ Ran("GlobalValueNumberPass")
         /\ pass = "CFGsimplifier" => Ran("AggressiveElimination")
         /\ pass = "GlobalCodeMotionPass" => Ran("LoopNestDetector")
         /\ pass = "GlobalValueNumberPass" => Ran("GlobalCodeMotionPass")
<1> DEFINE P == Passes(level)
           n == at + 1
<1>1. n \in 1..Len(P) /\ P[n] = pass /\ n - 1 = at
  <2>1. Len(P) \in Nat
    BY PassesAre, PassesAtZero
  <2> QED
    BY <2>1 DEF Upcoming
<1>2. CASE level = 0
  <2>1. n = 1 /\ pass = "unreachableRemover"
    BY <1>1, <1>2, PassesAtZero
  <2> QED
    BY <2>1
<1>3. CASE level \in 1..2
  <2>1. n \in 1..19
    BY <1>1, <1>3, PassesAre
  <2> HIDE DEF n, P
  <2>2. /\ n = 1 => P[n] = "unreachableRemover"
        /\ P[n] = "ConstantPropagatior" =>
             n > 1 /\ P[n - 1] \in {"mem2regPass", "dominantMaker", "GlobalValueNumberPass"}
        /\ P[n] = "CFGsimplifier" => n > 1 /\ P[n - 1] = "AggressiveElimination"
        /\ P[n] = "GlobalCodeMotionPass" => n > 1 /\ P[n - 1] = "LoopNestDetector"
        /\ P[n] = "GlobalValueNumberPass" => n > 1 /\ P[n - 1] = "GlobalCodeMotionPass"
    BY <1>3, <2>1, PassesAre, BeforeIn DEF P
  <2>3. n > 1 => at >= 1
    BY DEF n
  <2>4. at = 0 => n = 1
    BY DEF n
  <2> QED
    BY <1>1, <2>2, <2>3, <2>4 DEF Ran, P
<1> QED
  BY <1>2, <1>3

\* A pass that runs is the last one to have run, and Before says which was the last.
LEMMA RunMoves ==
  ASSUME PipeInv, NEW pass, Run(pass)
  PROVE  /\ ~empty /\ Linked /\ AsLeft /\ Upcoming(pass)
         /\ level \in 0..2 /\ level' = level /\ at \in Nat /\ at' \in 0..Len(Passes(level'))
         /\ at' >= 1
         /\ \A q : Ran(q)' => q = pass
<1>1. /\ level \in 0..2 /\ at \in 0..Len(Passes(level)) /\ level' = level /\ at' = at + 1
      /\ at < Len(Passes(level)) /\ Passes(level)[at + 1] = pass
  BY DEF PipeInv, Kept, Run, Upcoming
<1>2. Len(Passes(level)) \in Nat
  BY <1>1, PassesAre, PassesAtZero
<1>3. at \in Nat /\ at' >= 1 /\ at' \in 0..Len(Passes(level))
  BY <1>1, <1>2
<1>4. Passes(level)' = Passes(level)
  BY <1>1 DEF Passes, DoNotOptimize, FirstHalf, SecondHalf, LastPart
<1>5. \A q : Ran(q)' => q = pass
  BY <1>1, <1>4 DEF Ran
<1> QED
  BY <1>1, <1>3, <1>5 DEF PipeInv, Run

LEMMA PipeStarts == PipeInit => PipeInv
<1> SUFFICES ASSUME PipeInit PROVE PipeInv
  OBVIOUS
<1>1. at = 0 /\ level \in 0..2 /\ facts = {} /\ flags = {}
  BY DEF PipeInit
<1>2. Kept
  BY <1>1, PassesAre, PassesAtZero DEF Kept
<1> QED
  BY <1>1, <1>2 DEF PipeInv, FlagsTellTheTruth, Linked, AsLeft, Ran

LEMMA SkipKeeps == PipeInv /\ Skip => PipeInv'
<1> SUFFICES ASSUME PipeInv, Skip PROVE PipeInv'
  OBVIOUS
<1>1. /\ level' = level /\ at' = at + 1 /\ at < Len(Passes(level)) /\ empty'
      /\ facts' = facts /\ flags' = flags
  BY DEF Skip
<1>2. Passes(level)' = Passes(level)
  BY <1>1 DEF Passes, DoNotOptimize, FirstHalf, SecondHalf, LastPart
<1>3. Len(Passes(level)) \in Nat
  BY PassesAre, PassesAtZero DEF PipeInv, Kept
<1>4. Kept'
  BY <1>1, <1>2, <1>3 DEF PipeInv, Kept
<1> QED
  BY <1>1, <1>4 DEF PipeInv, FlagsTellTheTruth

LEMMA RemoverKeeps == PipeInv /\ UnreachableRemover => PipeInv'
<1> SUFFICES ASSUME PipeInv, UnreachableRemover PROVE PipeInv'
  OBVIOUS
<1>1. Run("unreachableRemover")
  BY DEF UnreachableRemover
<1>2. /\ {"cfg", "pruned"} \subseteq facts' /\ facts' \subseteq facts \cup {"cfg", "pruned"}
      /\ flags' \subseteq flags \cup {"cfg"} /\ "cfg" \in flags' /\ "dom" \notin flags'
      /\ flags' \subseteq {"cfg"}
  BY DEF UnreachableRemover, Cleared, PipeInv, Kept, Flag
<1>3. Kept'
  BY <1>1, <1>2, RunMoves DEF PipeInv, Kept, Fact, Flag
<1>4. Linked' /\ AsLeft'
  BY <1>1, <1>2, RunMoves DEF Linked, AsLeft
<1> QED
  BY <1>2, <1>3, <1>4 DEF PipeInv, FlagsTellTheTruth

\* An analysis makes every flag and every fact it stands for true, and is a
\* forward one.
LEMMA AnalysisKeeps ==
  ASSUME PipeInv, NEW pass \in {"dominantMaker", "mem2regPass"}, Run(pass), Analyse,
         UNCHANGED empty
  PROVE  PipeInv'
<1>1. /\ facts' = facts \cup Flag /\ flags' = Flag /\ post' = FALSE /\ is_post' = FALSE
  BY DEF Analyse, Analysed
<1>2. at \in Nat /\ at # 0
  BY RunMoves, Before
<1>3. "pruned" \in facts
  BY <1>2, RunMoves DEF Linked
<1>4. Kept'
  BY <1>1, RunMoves DEF PipeInv, Kept, Fact, Flag
<1>5. Linked' /\ AsLeft'
  BY <1>1, <1>3, RunMoves DEF Linked, AsLeft, Flag, hasDomTree
<1> QED
  BY <1>1, <1>4, <1>5 DEF PipeInv, FlagsTellTheTruth

LEMMA PropagationKeeps == PipeInv /\ ConstantPropagatior => PipeInv'
<1> SUFFICES ASSUME PipeInv, ConstantPropagatior PROVE PipeInv'
  OBVIOUS
<1>1. /\ Run("ConstantPropagatior") /\ flags' = flags \ {"dom"} /\ facts' = facts
  BY DEF ConstantPropagatior
<1>2. at \in Nat /\ at # 0
  BY <1>1, RunMoves, Before
<1>3. Kept'
  BY <1>1, RunMoves DEF PipeInv, Kept
<1>4. Linked' /\ AsLeft'
  BY <1>1, <1>2, RunMoves DEF Linked, AsLeft
<1> QED
  BY <1>1, <1>3, <1>4, RunMoves DEF PipeInv, FlagsTellTheTruth

LEMMA AggressiveKeeps == PipeInv /\ AggressiveElimination => PipeInv'
<1> SUFFICES ASSUME PipeInv, AggressiveElimination PROVE PipeInv'
  OBVIOUS
<1>1. /\ Run("AggressiveElimination") /\ facts' = {"cfg", "pruned"} /\ flags' = {"cfg"}
      /\ post' = is_post'
  BY DEF AggressiveElimination, Flag, Cleared
<1>2. Kept'
  BY <1>1, RunMoves DEF PipeInv, Kept, Fact, Flag
<1>3. Linked' /\ AsLeft'
  BY <1>1, RunMoves DEF Linked, AsLeft
<1> QED
  BY <1>1, <1>2, <1>3 DEF PipeInv, FlagsTellTheTruth

\* CFGsimplifier clears no flag.  It need not: it comes right after
\* AggressiveElimination, which has left only one, and that one stays true.
LEMMA SimplifierKeeps == PipeInv /\ CFGsimplifier => PipeInv'
<1> SUFFICES ASSUME PipeInv, CFGsimplifier PROVE PipeInv'
  OBVIOUS
<1>1. /\ Run("CFGsimplifier") /\ facts' \in {facts, {"cfg", "pruned"}} /\ flags' = flags
  BY DEF CFGsimplifier
<1>2. at \in Nat /\ at # 0 /\ flags = {"cfg"}
  BY <1>1, RunMoves, Before DEF AsLeft
<1>3. {"cfg", "pruned"} \subseteq facts'
  BY <1>1, <1>2, RunMoves DEF Linked, PipeInv, FlagsTellTheTruth
<1>4. Kept'
  BY <1>1, RunMoves DEF PipeInv, Kept, Fact, Flag
<1>5. Linked' /\ AsLeft'
  BY <1>1, <1>2, <1>3, RunMoves DEF Linked, AsLeft
<1> QED
  BY <1>1, <1>2, <1>3, <1>4, <1>5 DEF PipeInv, FlagsTellTheTruth

\* Trusted or new, the analysis that loops and values are numbered with is a
\* forward one and true.
LEMMA TrustIsEarned ==
  ASSUME PipeInv, ~empty
  PROVE  LET stored == IF Trusted THEN facts ELSE Analysed
             known  == IF Trusted THEN flags ELSE Flag
         IN  /\ known \subseteq stored /\ {"dom", "rpo"} \subseteq known
             /\ ~(post /\ Trusted)
             /\ facts \subseteq stored /\ flags \subseteq known
             /\ stored \in SUBSET Fact /\ known \in SUBSET Flag
<1>1. flags \subseteq facts /\ facts \in SUBSET Fact /\ flags \in SUBSET Flag
  BY DEF PipeInv, Kept, FlagsTellTheTruth
<1>2. CASE Trusted
  <2>1. {"dom", "rpo"} \subseteq flags /\ ~is_post
    BY <1>2 DEF Trusted
  <2>2. ~post
    BY <2>1 DEF PipeInv, FlagsTellTheTruth
  <2> QED
    BY <1>1, <1>2, <2>1, <2>2
<1>3. CASE ~Trusted
  BY <1>1, <1>3 DEF Analysed, Flag, Fact
<1> QED
  BY <1>2, <1>3

LEMMA DetectorKeeps == PipeInv /\ LoopNestDetector => PipeInv'
<1> SUFFICES ASSUME PipeInv, LoopNestDetector PROVE PipeInv'
  OBVIOUS
<1> DEFINE stored == IF Trusted THEN facts ELSE Analysed
           known  == IF Trusted THEN flags ELSE Flag
<1>1. /\ Run("LoopNestDetector") /\ facts' = stored \cup {"loop"} /\ flags' = known
      /\ post' = (post /\ Trusted) /\ is_post' = FALSE
  BY DEF LoopNestDetector
<1>2. /\ known \subseteq stored /\ {"dom", "rpo"} \subseteq known /\ ~(post /\ Trusted)
      /\ facts \subseteq stored /\ flags \subseteq known
      /\ stored \in SUBSET Fact /\ known \in SUBSET Flag
  BY <1>1, RunMoves, TrustIsEarned
<1> HIDE DEF stored, known
<1>3. at \in Nat /\ at # 0
  BY <1>1, RunMoves, Before
<1>4. Kept'
  BY <1>1, <1>2, RunMoves DEF PipeInv, Kept, Fact
<1>5. Linked' /\ AsLeft'
  BY <1>1, <1>2, <1>3, RunMoves DEF Linked, AsLeft
<1> QED
  BY <1>1, <1>2, <1>4, <1>5 DEF PipeInv, FlagsTellTheTruth

LEMMA MotionKeeps == PipeInv /\ GlobalCodeMotionPass => PipeInv'
<1> SUFFICES ASSUME PipeInv, GlobalCodeMotionPass PROVE PipeInv'
  OBVIOUS
<1>1. /\ Run("GlobalCodeMotionPass") /\ facts' = facts /\ flags' = flags
      /\ empty' = empty /\ post' = post /\ is_post' = is_post
  BY DEF GlobalCodeMotionPass, analysis
<1>2. at \in Nat /\ at # 0 /\ {"dom", "rpo"} \subseteq flags /\ ~is_post /\ "loop" \in facts
  BY <1>1, RunMoves, Before DEF AsLeft
<1>3. Kept'
  BY <1>1, RunMoves DEF PipeInv, Kept
<1>4. Linked' /\ AsLeft'
  BY <1>1, <1>2, RunMoves DEF Linked, AsLeft
<1> QED
  BY <1>1, <1>3, <1>4, RunMoves DEF PipeInv, FlagsTellTheTruth

LEMMA NumberingKeeps == PipeInv /\ GlobalValueNumberPass => PipeInv'
<1> SUFFICES ASSUME PipeInv, GlobalValueNumberPass PROVE PipeInv'
  OBVIOUS
<1> DEFINE stored == IF Trusted THEN facts ELSE Analysed
           known  == IF Trusted THEN flags ELSE Flag
<1>1. /\ Run("GlobalValueNumberPass") /\ facts' = stored \ {"fro"} /\ flags' = known \ {"fro"}
      /\ post' = (post /\ Trusted) /\ is_post' = FALSE
  BY DEF GlobalValueNumberPass
<1>2. /\ known \subseteq stored /\ {"dom", "rpo"} \subseteq known /\ ~(post /\ Trusted)
      /\ facts \subseteq stored /\ flags \subseteq known
      /\ stored \in SUBSET Fact /\ known \in SUBSET Flag
  BY <1>1, RunMoves, TrustIsEarned
<1> HIDE DEF stored, known
<1>3. at \in Nat /\ at # 0
  BY <1>1, RunMoves, Before
<1>4. Kept'
  BY <1>1, <1>2, RunMoves DEF PipeInv, Kept
<1>5. Linked' /\ AsLeft'
  BY <1>1, <1>2, <1>3, RunMoves DEF Linked, AsLeft, hasDomTree
<1> QED
  BY <1>1, <1>2, <1>4, <1>5 DEF PipeInv, FlagsTellTheTruth

LEMMA StutterKeeps == PipeInv /\ UNCHANGED pipeVars => PipeInv'
BY DEF pipeVars, PipeInv, Kept, Linked, AsLeft, Ran, FlagsTellTheTruth, hasDomTree,
       Passes, DoNotOptimize, FirstHalf, SecondHalf, LastPart

LEMMA PipeKeeps == PipeInv /\ [PipeNext]_pipeVars => PipeInv'
<1> SUFFICES ASSUME PipeInv, [PipeNext]_pipeVars PROVE PipeInv'
  OBVIOUS
<1>1. CASE DominantMaker
  BY <1>1, AnalysisKeeps DEF DominantMaker
<1>2. CASE Mem2reg
  BY <1>2, AnalysisKeeps DEF Mem2reg
<1> QED
  BY <1>1, <1>2, SkipKeeps, RemoverKeeps, PropagationKeeps, AggressiveKeeps, SimplifierKeeps,
     DetectorKeeps, MotionKeeps, NumberingKeeps, StutterKeeps DEF PipeNext

\* Whatever each pass finds to change, the next one is left what it builds on.
THEOREM PipeInvariance == PipeSpec => []PipeInv
BY PipeStarts, PipeKeeps, PTL DEF PipeSpec

\* Whatever the passes find to change, at all times a flag that is set tells the
\* truth: what it stands for is stored, and of the direction that is_post says.
THEOREM FlagsAreTrue == PipeSpec => []FlagsTellTheTruth
<1>1. PipeInv => FlagsTellTheTruth
  BY DEF PipeInv
<1> QED
  BY <1>1, PipeInvariance, PTL

\* No pass reads an edge, an order, a dominator or a loop that a pass before it
\* has made untrue, and none takes post-dominators for dominators.
THEOREM ReadersAreServed == PipeSpec => []ReadersFindTheTruth
<1>1. PipeInv => ReadersFindTheTruth
  <2> SUFFICES ASSUME PipeInv, NEW i \in 1..Len(Passes(level)), ~empty, at = i - 1
               PROVE  LET pass == Passes(level)[i]
                      IN  /\ Reads(pass) \subseteq facts
                          /\ "dom" \in Reads(pass) => ~post
    BY DEF ReadersFindTheTruth
  <2> DEFINE pass == Passes(level)[i]
  <2>1. at \in Nat /\ level \in 0..2
    BY PassesAre, PassesAtZero DEF PipeInv, Kept
  <2>2. Upcoming(pass)
    <3>1. Len(Passes(level)) \in Nat
      BY <2>1, PassesAre, PassesAtZero
    <3> QED
      BY <3>1 DEF Upcoming
  <2> HIDE DEF pass
  <2>3. /\ flags \subseteq facts /\ ("dom" \in flags => post = is_post) /\ Linked /\ AsLeft
    BY DEF PipeInv, FlagsTellTheTruth
  <2>4. pass # "unreachableRemover" => {"cfg", "pruned"} \subseteq facts
    BY <2>1, <2>2, <2>3, Before DEF Linked
  <2>5. pass = "GlobalCodeMotionPass" => {"dom", "rpo", "loop"} \subseteq facts /\ ~post
    BY <2>1, <2>2, <2>3, Before DEF AsLeft
  <2>6. pass \in {"dominantMaker", "mem2regPass", "AggressiveElimination", "CFGsimplifier"} =>
          Reads(pass) \subseteq facts /\ "dom" \notin Reads(pass)
    BY <2>4 DEF Reads
  <2>7. pass = "ConstantPropagatior" =>
          Reads(pass) \subseteq facts /\ ("dom" \in Reads(pass) => ~post)
    BY <2>3, <2>4 DEF Reads, hasDomTree
  <2>8. pass \in {"LoopNestDetector", "GlobalValueNumberPass"} =>
          Reads(pass) \subseteq facts /\ ("dom" \in Reads(pass) => ~post)
    BY <2>3, <2>4 DEF Reads, Trusted
  <2>9. pass = "GlobalCodeMotionPass" => Reads(pass) \subseteq facts
    BY <2>5 DEF Reads
  <2>10. pass \notin {"dominantMaker", "mem2regPass", "AggressiveElimination", "CFGsimplifier",
                      "ConstantPropagatior", "LoopNestDetector", "GlobalValueNumberPass",
                      "GlobalCodeMotionPass"} => Reads(pass) = {}
    BY DEF Reads
  <2> QED
    BY <2>5, <2>6, <2>7, <2>8, <2>9, <2>10 DEF pass
<1> QED
  BY <1>1, PipeInvariance, PTL

\* What LoopNestDetector, GlobalValueNumberPass and GlobalCodeMotionPass assert
\* of the flags is so whenever one of them is about to run.
THEOREM AssertionsNeverFail == PipeSpec => []AssertionsHold
<1>1. PipeInv => AssertionsHold
  <2> SUFFICES ASSUME PipeInv, ~empty
               PROVE  /\ Upcoming("LoopNestDetector") => "cfg" \in flags
                      /\ Upcoming("GlobalValueNumberPass") => "cfg" \in flags
                      /\ Upcoming("GlobalCodeMotionPass") => "dom" \in flags
    BY DEF AssertionsHold
  <2>1. at \in Nat /\ level \in 0..2 /\ Linked /\ AsLeft
    BY PassesAre, PassesAtZero DEF PipeInv, Kept
  <2>2. Upcoming("LoopNestDetector") \/ Upcoming("GlobalValueNumberPass") => at # 0
    BY <2>1, Before
  <2>3. Upcoming("GlobalCodeMotionPass") => "dom" \in flags
    BY <2>1, Before DEF AsLeft
  <2> QED
    BY <2>1, <2>2, <2>3 DEF Linked
<1> QED
  BY <1>1, PipeInvariance, PTL

\* Every time ConstantPropagatior runs there is a forward analysis to guard
\* copies with.
THEOREM CopiesAreAllowed == PipeSpec => []CopiesArePropagated
<1>1. PipeInv => CopiesArePropagated
  <2>1. PipeInv => at \in Nat /\ level \in 0..2
    BY PassesAre, PassesAtZero DEF PipeInv, Kept
  <2> QED
    BY <2>1, Before DEF PipeInv, AsLeft, CopiesArePropagated
<1> QED
  BY <1>1, PipeInvariance, PTL

(***************************************************************************)
(* LoopNestDetector.  Of each of the four loops over the blocks, what is   *)
(* known behind the blocks that it has come to.                            *)
(***************************************************************************)

LatchesOf(h) == Latches(flow, dom, h)

Headers == {h \in Block : LatchesOf(h) # {}}

BodyOf(h) == LoopOf(flow, dom, h)

LoopTypes ==
  /\ flow \in LoopPrograms /\ IsAnalysed(flow, dom)
  /\ idom = [b \in Block |-> ImmediateDominator(Dominance(ForwardEdges(flow), Entry), Entry, b)]
  /\ phase \in {"edges", "bodies", "nest", "tree", "done"}
  /\ todo \in SUBSET Block
  /\ \A b \in Block \ todo : dom[b] \cap todo = {}
  /\ loop \in [Block -> Block \cup {Null}] /\ parent \in [Block -> Block \cup {Null}]
  /\ body \in [Block -> SUBSET Block] /\ depth \in [Block -> Nat]
  /\ worklist \in SUBSET Block /\ pushed \in SUBSET Block
  /\ current \in Block \cup {Null} /\ outer \in Block \cup {Null}

EdgesKnown ==
  /\ current = Null /\ worklist = {}
  /\ \A h \in Block : /\ body[h] = LatchesOf(h) \ todo
                      /\ loop[h] = IF body[h] = {} THEN Null ELSE h

\* A body under way: with what is queued it holds what leads to it.
Growing ==
  /\ current \in Headers \ todo
  /\ body[current] \cup worklist \subseteq BodyOf(current)
  /\ LatchesOf(current) \cup pushed \subseteq body[current] \cup worklist
  /\ \A x \in body[current] \ {current} : Prev(x) \subseteq body[current] \cup worklist

OnlyHeaders(b) == loop[b] = IF b \in Headers THEN b ELSE Null

BodiesKnown ==
  /\ \A h \in Block : /\ OnlyHeaders(h)
                      /\ h \in todo => body[h] = LatchesOf(h)
                      /\ h \notin todo \cup {current} => body[h] = BodyOf(h)
  /\ IF current = Null THEN worklist = {} ELSE Growing

\* From h outwards all of these loops are met, and b is dominated by h.
Leads(h, loops, b) ==
  IF h = Null THEN loops = {} ELSE h \in Headers /\ h \in dom[b] /\ loops \subseteq Around(h)

ParentKnown(h) == Innermost(parent[h], Around(h) \ {h})

NestKnown ==
  /\ \A b \in Block : body[b] = BodyOf(b)
  /\ \A b \in Headers : loop[b] = b
  /\ \A b \in todo : OnlyHeaders(b)
  /\ \A b \in Block \ todo : Leads(loop[b], Around(b), b)
  /\ \A h \in Headers \ (todo \cup {current}) : ParentKnown(h)
  /\ Headers \ todo \subseteq sorted
  /\ current # Null => /\ current \in Headers \ todo /\ idom[current] # Null
                       /\ Leads(outer, Around(current) \ {current}, idom[current])

TreeKnown ==
  /\ \A b \in Block : body[b] = BodyOf(b)
  /\ \A b \in Headers : loop[b] = b /\ ParentKnown(b)
  /\ \A b \in todo : Leads(loop[b], Around(b), b)
  /\ \A b \in Block \ (todo \cup {current}) : Innermost(loop[b], Around(b))
  /\ \A h \in Headers \ todo : depth[h] = Cardinality(Around(h))
  /\ Headers \subseteq sorted
  /\ current # Null => /\ current \notin Headers \cup todo
                       /\ Leads(outer, Around(current), current)

LoopInv ==
  /\ LoopTypes
  /\ ~blind
  /\ phase = "edges" => EdgesKnown
  /\ phase = "bodies" => BodiesKnown
  /\ phase = "nest" => NestKnown
  /\ phase = "tree" => TreeKnown
  /\ phase = "done" => LoopsNest /\ current = Null

\* What the types say of the function.
LEMMA LoopGiven ==
  ASSUME LoopTypes
  PROVE  /\ flow \in [Block -> FlowStmt] /\ Entry \in Block /\ Null \notin Block /\ IsFiniteSet(Block)
         /\ \A b \in Block : Entry \notin Range(flow[b].to)
         /\ \A b \in Block : Range(flow[b].to) \subseteq Block
BY LoopProgramAssumption, BlockAssumption, TargetFacts DEF LoopTypes

\* The order of the dominators.
LEMMA DominatorOrder ==
  ASSUME LoopTypes
  PROVE  /\ \A b \in Block : dom[b] \subseteq Block /\ b \in dom[b]
         /\ \A b \in Block : \A d \in dom[b] : dom[d] \subseteq dom[b] /\ (b \in dom[d] => b = d)
<1> DEFINE W == ForwardEdges(flow)
           domi == Dominance(W, Entry)
<1>1. /\ W \in SUBSET (Node \X Node) /\ Connected(W, Entry) /\ Entry \in Node /\ Block \subseteq Node
      /\ \A b \in Block : dom[b] \subseteq Block /\ \A d \in Block : d \in dom[b] <=> <<d, b>> \in domi
  BY AnalysedFacts DEF LoopTypes
<1> HIDE DEF W
<1>2. \A b \in Block : b \in dom[b]
  BY <1>1, DominatesItself
<1>3. \A b \in Block : \A d \in dom[b] : dom[d] \subseteq dom[b]
  BY <1>1, DominanceIsTransitive
<1>4. \A b \in Block : \A d \in dom[b] : b \in dom[d] => b = d
  BY <1>1, DominanceIsAntisymmetric
<1> QED
  BY <1>1, <1>2, <1>3, <1>4

\* The loops around a block.
LEMMA AroundFacts ==
  ASSUME LoopTypes
  PROVE  /\ \A b \in Block : Around(b) \subseteq Headers \cap dom[b] /\ IsFiniteSet(Around(b))
         /\ \A b \in Block : \A k \in Around(b) : Around(k) \subseteq Around(b)
         /\ \A b \in Block : b \in Headers <=> b \in Around(b)
         /\ \A h, b \in Block : h \in Around(b) <=> b \in BodyOf(h)
         /\ Headers \subseteq Block
<1>1. IsAnalysed(flow, dom) /\ IsFiniteSet(Block)
  BY LoopGiven DEF LoopTypes
<1>2. \A h, b \in Block : h \in Around(b) <=> b \in BodyOf(h)
  BY DEF Around, LoopsAround, BodyOf
<1>3. ASSUME NEW b \in Block PROVE Around(b) \subseteq Headers \cap dom[b] /\ IsFiniteSet(Around(b))
  <2>1. Around(b) \subseteq Block
    BY DEF Around, LoopsAround
  <2>2. ASSUME NEW h \in Around(b) PROVE h \in Headers \cap dom[b]
    BY <1>1, <1>2, <2>1, HeaderDominates, HeaderInside DEF Headers, LatchesOf, BodyOf
  <2> QED
    BY <1>1, <2>1, <2>2, FS_Subset
<1>4. ASSUME NEW b \in Block, NEW k \in Around(b) PROVE Around(k) \subseteq Around(b)
  <2>1. k \in Block /\ b \in BodyOf(k)
    BY <1>2 DEF Around, LoopsAround
  <2>2. ASSUME NEW h \in Around(k) PROVE h \in Around(b)
    <3>1. h \in Block /\ k \in BodyOf(h)
      BY <1>2, <2>1 DEF Around, LoopsAround
    <3> QED
      BY <1>1, <1>2, <2>1, <3>1, LoopsAreNested DEF BodyOf
  <2> QED
    BY <2>2
<1>5. \A b \in Block : b \in Headers <=> b \in Around(b)
  BY <1>2, HeaderInside DEF Headers, LatchesOf, BodyOf
<1> QED
  BY <1>2, <1>3, <1>4, <1>5 DEF Headers

\* The immediate dominator, and the entry, which has none.
LEMMA DominatorFacts ==
  ASSUME LoopTypes, NEW b \in Block
  PROVE  /\ idom[b] = Null => b \notin Headers /\ Around(b) = {}
         /\ idom[b] # Null => /\ idom[b] \in Block /\ idom[b] \in dom[b] /\ dom[idom[b]] \subseteq dom[b]
                              /\ b \notin dom[idom[b]]
                              /\ Around(b) \ {b} \subseteq Around(idom[b])
<1>1. IsAnalysed(flow, dom)
      /\ idom[b] = ImmediateDominator(Dominance(ForwardEdges(flow), Entry), Entry, b)
  BY DEF LoopTypes
<1>2. CASE b = Entry
  <2>1. idom[b] = Null
    BY <1>1, <1>2 DEF ImmediateDominator
  <2>2. b \notin Headers
    BY <1>2, LoopGiven DEF Headers, LatchesOf, Latches
  <2>3. ASSUME NEW h \in Around(b) PROVE FALSE
    <3>1. h \in Headers /\ h \in dom[b] /\ h \in Block
      BY AroundFacts
    <3>2. h = b
      BY <1>1, <1>2, <3>1, RootHasOneDominator, AnalysedFacts
    <3> QED
      BY <2>2, <3>1, <3>2
  <2> QED
    BY <2>1, <2>2, <2>3
<1>3. CASE b # Entry
  <2>1. /\ idom[b] \in Block /\ idom[b] \in dom[b] /\ b \notin dom[idom[b]]
        /\ dom[idom[b]] \subseteq dom[b]
        /\ LoopsAround(flow, dom, b) \ {b} \subseteq LoopsAround(flow, dom, idom[b])
    BY <1>1, <1>3, DominatorInside
  <2> QED
    BY <2>1, LoopGiven DEF Around
<1> QED
  BY <1>2, <1>3

\* A step of the search outwards: a loop that does not hold what is looked for
\* is not among those that are to be met.
LEMMA OutwardFacts ==
  ASSUME LoopTypes, NEW b \in Block, NEW h \in Headers, NEW loops, h \notin loops,
         Leads(h, loops, b), ParentKnown(h)
  PROVE  Leads(parent[h], loops, b)
<1>1. loops \subseteq Around(h) \ {h} /\ h \in dom[b] /\ h \in Block
  BY LoopGiven, AroundFacts DEF Leads
<1>2. CASE Around(h) \ {h} = {}
  BY <1>1, <1>2 DEF ParentKnown, Innermost, Leads
<1>3. CASE Around(h) \ {h} # {}
  <2>1. parent[h] \in Around(h) \ {h} /\ Around(parent[h]) = Around(h) \ {h}
    BY <1>3 DEF ParentKnown, Innermost
  <2>2. parent[h] \in Headers /\ parent[h] \in dom[h] /\ parent[h] \in Block
    BY <1>1, <2>1, AroundFacts
  <2>3. parent[h] \in dom[b]
    BY <1>1, <2>2, DominatorOrder
  <2> QED
    BY <1>1, <2>1, <2>2, <2>3, LoopGiven DEF Leads
<1> QED
  BY <1>2, <1>3

LEMMA SameLoops ==
  ASSUME UNCHANGED given
  PROVE  /\ flow' = flow /\ dom' = dom /\ idom' = idom
         /\ Headers' = Headers
         /\ \A b : Around(b)' = Around(b) /\ LatchesOf(b)' = LatchesOf(b) /\ BodyOf(b)' = BodyOf(b)
         /\ \A b : Prev(b)' = Prev(b)
BY DEF given, Headers, Around, LatchesOf, BodyOf, Prev

LEMMA LoopStart == LoopInit => LoopInv
<1> SUFFICES ASSUME LoopInit PROVE LoopInv
  OBVIOUS
<1>1. flow \in [Block -> FlowStmt] /\ WellFormed(flow)
  BY LoopProgramAssumption DEF LoopInit
<1>2. IsAnalysed(flow, dom)
  BY <1>1 DEF LoopInit, Answer, IsAnalysed
<1>3. idom = [b \in Block |-> ImmediateDominator(Dominance(ForwardEdges(flow), Entry), Entry, b)]
  BY DEF LoopInit, Answer
<1>4. LoopTypes
  BY <1>2, <1>3 DEF LoopInit, LoopTypes
<1>5. EdgesKnown
  BY DEF LoopInit, EdgesKnown, LatchesOf, Latches
<1> QED
  BY <1>4, <1>5 DEF LoopInit, LoopInv

\* A turn leaves the dominators of what it has come to behind it.
LEMMA TurnFacts ==
  ASSUME LoopTypes, NEW pass, NEW b \in Block, Turn(pass, b)
  PROVE  /\ UNCHANGED given /\ phase = pass /\ phase' = phase /\ current = Null
         /\ b \in todo /\ todo' = todo \ {b} /\ todo' \in SUBSET Block
         /\ \A d \in dom[b] \ {b} : d \notin todo
         /\ \A c \in Block \ todo' : dom[c] \cap todo' = {}
<1>1. /\ UNCHANGED given /\ phase = pass /\ phase' = phase /\ current = Null
      /\ b \in todo /\ todo' = todo \ {b} /\ dom[b] \cap todo = {b} /\ todo \in SUBSET Block
      /\ \A c \in Block \ todo : dom[c] \cap todo = {}
  BY DEF Turn, LoopTypes
<1>2. \A c \in Block \ todo' : dom[c] \cap todo' = {}
  BY <1>1
<1> QED
  BY <1>1, <1>2

LEMMA PassStep == LoopInv /\ NextPass => LoopInv'
<1> SUFFICES ASSUME LoopInv, NextPass PROVE LoopInv'
  OBVIOUS
<1>1. /\ current = Null /\ todo = {} /\ phase # "done" /\ phase' = After[phase] /\ todo' = Block
      /\ UNCHANGED <<given, loop, body, parent, depth, worklist, pushed, current, outer, sorted, blind>>
  BY DEF NextPass, nest, search
<1>2. UNCHANGED given
  BY <1>1
<1>3. /\ flow' = flow /\ dom' = dom /\ idom' = idom /\ Headers' = Headers
      /\ \A b : Around(b)' = Around(b) /\ LatchesOf(b)' = LatchesOf(b) /\ BodyOf(b)' = BodyOf(b)
  BY <1>2, SameLoops
<1>4. LoopTypes
  BY DEF LoopInv
<1>5. phase' \in {"edges", "bodies", "nest", "tree", "done"}
  BY <1>1, <1>4 DEF LoopTypes, After
<1>6. LoopTypes'
  BY <1>1, <1>3, <1>4, <1>5 DEF LoopTypes
<1>7. CASE phase = "edges"
  <2>1. phase' = "bodies" /\ EdgesKnown
    BY <1>1, <1>7 DEF After, LoopInv
  <2>2. BodiesKnown'
    BY <1>1, <1>3, <2>1 DEF EdgesKnown, BodiesKnown, OnlyHeaders, Headers
  <2> QED
    BY <1>1, <1>6, <2>1, <2>2 DEF LoopInv
<1>8. CASE phase = "bodies"
  <2>1. phase' = "nest" /\ BodiesKnown
    BY <1>1, <1>8 DEF After, LoopInv
  <2>2. NestKnown'
    BY <1>1, <1>3, <2>1, BlockAssumption, AroundFacts, <1>4 DEF NestKnown, BodiesKnown, OnlyHeaders
  <2> QED
    BY <1>1, <1>6, <2>1, <2>2 DEF LoopInv
<1>9. CASE phase = "nest"
  <2>1. phase' = "tree" /\ NestKnown
    BY <1>1, <1>9 DEF After, LoopInv
  <2>2. Headers \subseteq Block /\ Null \notin Block
    BY <1>4, AroundFacts, LoopGiven
  <2>3. \A b \in Headers : ParentKnown(b)'
    BY <1>1, <1>3, <2>1, <2>2 DEF NestKnown, ParentKnown, Innermost
  <2>4. \A b \in Block : Leads(loop[b], Around(b), b)'
    BY <1>1, <1>3, <2>1 DEF NestKnown, Leads
  <2>5. TreeKnown'
    BY <1>1, <1>3, <2>1, <2>2, <2>3, <2>4 DEF NestKnown, TreeKnown
  <2> QED
    BY <1>1, <1>6, <2>1, <2>5 DEF LoopInv
<1>10. CASE phase = "tree"
  <2>1. phase' = "done" /\ TreeKnown
    BY <1>1, <1>10 DEF After, LoopInv
  <2>2. \A b \in Block : b \in Headers <=> b \in Around(b)
    BY <1>4, AroundFacts
  <2>3. LoopsNest'
    BY <1>1, <1>3, <2>1, <2>2, LoopGiven, <1>4 DEF TreeKnown, ParentKnown, Innermost, LoopsNest
  <2> QED
    BY <1>1, <1>6, <2>1, <2>3 DEF LoopInv
<1> QED
  BY <1>1, <1>4, <1>7, <1>8, <1>9, <1>10 DEF LoopTypes

LEMMA BackEdgeStep == ASSUME LoopInv, NEW b \in Block, DetectBackEdge(b) PROVE LoopInv'
<1> DEFINE headers == Range(flow[b].to) \cap dom[b]
<1>1. LoopTypes /\ Turn("edges", b)
  BY DEF LoopInv, DetectBackEdge
<1>2. /\ phase = "edges" /\ phase' = "edges" /\ current' = Null /\ todo' = todo \ {b} /\ b \in todo
      /\ todo' \in SUBSET Block /\ \A c \in Block \ todo' : dom[c] \cap todo' = {}
      /\ loop' = [h \in Block |-> IF h \in headers THEN h ELSE loop[h]]
      /\ body' = [h \in Block |-> IF h \in headers THEN body[h] \cup {b} ELSE body[h]]
      /\ UNCHANGED <<given, parent, depth, worklist, pushed, current, outer, sorted, blind>>
  BY <1>1, TurnFacts DEF DetectBackEdge, search
<1>3. /\ flow' = flow /\ dom' = dom /\ idom' = idom
      /\ \A h : LatchesOf(h)' = LatchesOf(h)
  BY <1>2, SameLoops
<1>4. EdgesKnown
  BY <1>2 DEF LoopInv
<1>5. LoopTypes'
  BY <1>1, <1>2, <1>3 DEF LoopTypes
<1>6. ASSUME NEW h \in Block
      PROVE  /\ body'[h] = LatchesOf(h) \ todo'
             /\ loop'[h] = IF body'[h] = {} THEN Null ELSE h
  <2>1. /\ body[h] = LatchesOf(h) \ todo
        /\ loop[h] = IF body[h] = {} THEN Null ELSE h
    BY <1>4 DEF EdgesKnown
  <2>2. b \in LatchesOf(h) <=> h \in headers
    BY DEF LatchesOf, Latches
  <2>3. /\ loop'[h] = IF h \in headers THEN h ELSE loop[h]
        /\ body'[h] = IF h \in headers THEN body[h] \cup {b} ELSE body[h]
    BY <1>2
  <2> HIDE DEF headers
  <2> QED
    BY <1>2, <2>1, <2>2, <2>3
<1>7. EdgesKnown'
  BY <1>2, <1>3, <1>4, <1>6 DEF EdgesKnown
<1> QED
  BY <1>2, <1>5, <1>7 DEF LoopInv

LEMMA StartBodyStep == ASSUME LoopInv, NEW b \in Block, DetectLoopBody(b) PROVE LoopInv'
<1>1. LoopTypes /\ Turn("bodies", b)
  BY DEF LoopInv, DetectLoopBody
<1>2. /\ phase = "bodies" /\ phase' = "bodies" /\ current = Null /\ todo' = todo \ {b} /\ b \in todo
      /\ todo' \in SUBSET Block /\ \A c \in Block \ todo' : dom[c] \cap todo' = {}
      /\ UNCHANGED <<given, loop, parent, depth, outer, sorted, blind>>
  BY <1>1, TurnFacts DEF DetectLoopBody
<1>3. /\ flow' = flow /\ dom' = dom /\ idom' = idom /\ Headers' = Headers
      /\ \A h : LatchesOf(h)' = LatchesOf(h) /\ BodyOf(h)' = BodyOf(h)
      /\ \A h : Prev(h)' = Prev(h)
  BY <1>2, SameLoops
<1>4. BodiesKnown /\ worklist = {} /\ OnlyHeaders(b) /\ body[b] = LatchesOf(b)
  BY <1>2 DEF LoopInv, BodiesKnown
<1>5. Null \notin Block /\ body[b] \in SUBSET Block
  BY <1>1, LoopGiven DEF LoopTypes
<1>6. CASE loop[b] = Null
  <2>1. UNCHANGED <<body, worklist, pushed, current>>
    BY <1>6 DEF DetectLoopBody
  <2>2. LoopTypes'
    BY <1>1, <1>2, <1>3, <2>1 DEF LoopTypes
  <2>3. LatchesOf(b) = {} /\ BodyOf(b) = {}
    BY <1>4, <1>5, <1>6, HeaderInside DEF OnlyHeaders, Headers, LatchesOf, BodyOf
  <2>4. BodiesKnown'
    BY <1>2, <1>3, <1>4, <2>1, <2>3 DEF BodiesKnown, OnlyHeaders
  <2> QED
    BY <1>2, <2>2, <2>4 DEF LoopInv
<1>7. CASE loop[b] # Null
  <2>1. current' = b /\ worklist' = body[b] /\ pushed' = {} /\ body' = [body EXCEPT ![b] = {}]
    BY <1>7 DEF DetectLoopBody
  <2>2. LoopTypes'
    BY <1>1, <1>2, <1>3, <1>5, <2>1 DEF LoopTypes
  <2>3. b \in Headers
    BY <1>4, <1>7 DEF OnlyHeaders
  <2>4. body'[b] = {} /\ \A h \in Block \ {b} : body'[h] = body[h]
    BY <1>1, <2>1 DEF LoopTypes
  <2>5. LatchesOf(b) \subseteq BodyOf(b)
    <3>1. ASSUME NEW l \in LatchesOf(b), l # b PROVE l \in BodyOf(b)
      <4>1. l \in Node /\ l \in Block
        BY DEF LatchesOf, Latches, Node
      <4>2. ForwardEdges(flow) \in SUBSET (Node \X Node)
        BY <1>1, AnalysedFacts DEF LoopTypes
      <4>3. l \in Reachable(WithoutNode(ForwardEdges(flow), b), l)
        BY <4>1, <4>2, EdgesWithout, ReachableIsClosed
      <4> QED
        BY <4>1, <4>3 DEF LatchesOf, BodyOf, LoopOf
    <3> QED
      BY <3>1, HeaderInside DEF LatchesOf, BodyOf
  <2>6. Growing'
    BY <1>2, <1>3, <1>4, <2>1, <2>3, <2>4, <2>5 DEF Growing
  <2>7. BodiesKnown'
    BY <1>2, <1>3, <1>4, <1>5, <2>1, <2>4, <2>6 DEF BodiesKnown, OnlyHeaders
  <2> QED
    BY <1>2, <2>2, <2>7 DEF LoopInv
<1> QED
  BY <1>6, <1>7

LEMMA PopStep == ASSUME LoopInv, NEW x \in Block, Pop(x) PROVE LoopInv'
<1> DEFINE prev == IF x = current THEN {} ELSE Prev(x)
<1>1. /\ phase = "bodies" /\ phase' = "bodies" /\ x \in worklist
      /\ body' = [body EXCEPT ![current] = @ \cup {x}]
      /\ worklist' = (worklist \ {x}) \cup (prev \ pushed) /\ pushed' = pushed \cup prev
      /\ UNCHANGED <<given, todo, loop, parent, depth, current, outer, sorted, blind>>
  BY DEF Pop, search
<1>2. /\ flow' = flow /\ dom' = dom /\ idom' = idom /\ Headers' = Headers
      /\ \A h : LatchesOf(h)' = LatchesOf(h) /\ BodyOf(h)' = BodyOf(h)
      /\ \A h : Prev(h)' = Prev(h)
  BY <1>1, SameLoops
<1>3. LoopTypes /\ BodiesKnown /\ current # Null /\ Growing
  BY <1>1 DEF LoopInv, BodiesKnown
<1>4. current \in Block /\ prev \in SUBSET Block
  BY <1>3 DEF LoopTypes, Prev
<1>5. body'[current] = body[current] \cup {x} /\ \A h \in Block \ {current} : body'[h] = body[h]
  BY <1>1, <1>3, <1>4 DEF LoopTypes
<1>6. prev \subseteq BodyOf(current)
  <2>1. x \in BodyOf(current)
    BY <1>1, <1>3 DEF Growing
  <2> QED
    BY <1>3, <1>4, <2>1, PredecessorInside DEF BodyOf, LoopTypes, Prev
<1>7. x # current => Prev(x) \subseteq prev
  OBVIOUS
<1> HIDE DEF prev
<1>8. LoopTypes'
  <2>1. body' \in [Block -> SUBSET Block]
    BY <1>1, <1>3, <1>4 DEF LoopTypes
  <2>2. worklist' \in SUBSET Block /\ pushed' \in SUBSET Block
    BY <1>1, <1>3, <1>4 DEF LoopTypes
  <2> QED
    BY <1>1, <1>2, <1>3, <2>1, <2>2 DEF LoopTypes
<1>9. Growing'
  <2>1. current' \in Headers' \ todo'
    BY <1>1, <1>2, <1>3 DEF Growing
  <2>2. body'[current'] \cup worklist' \subseteq BodyOf(current)
    BY <1>1, <1>3, <1>5, <1>6 DEF Growing
  <2>3. (LatchesOf(current) \cup pushed)' \subseteq body'[current'] \cup worklist'
    BY <1>1, <1>2, <1>3, <1>5 DEF Growing
  <2>4. ASSUME NEW y \in body'[current'] \ {current'} PROVE Prev(y)' \subseteq body'[current'] \cup worklist'
    <3>1. y \in body[current] \/ y = x
      BY <1>1, <1>5
    <3>2. body[current] \cup worklist \cup prev \subseteq body'[current'] \cup worklist'
      BY <1>1, <1>3, <1>5 DEF Growing
    <3> QED
      BY <1>1, <1>2, <1>3, <1>7, <2>4, <3>1, <3>2 DEF Growing
  <2> QED
    BY <1>1, <1>2, <2>1, <2>2, <2>3, <2>4 DEF Growing
<1>10. BodiesKnown'
  <2>1. \A h \in Block : OnlyHeaders(h)'
    BY <1>1, <1>2, <1>3 DEF BodiesKnown, OnlyHeaders
  <2>2. \A h \in Block : /\ h \in todo => body'[h] = LatchesOf(h)
                         /\ h \notin todo \cup {current} => body'[h] = BodyOf(h)
    <3>1. current \notin todo
      BY <1>3 DEF Growing
    <3> QED
      BY <1>3, <1>5, <3>1 DEF BodiesKnown
  <2> QED
    BY <1>1, <1>2, <1>3, <1>9, <2>1, <2>2 DEF BodiesKnown
<1> QED
  BY <1>1, <1>8, <1>10 DEF LoopInv

LEMMA BodyFoundStep == LoopInv /\ BodyFound => LoopInv'
<1> SUFFICES ASSUME LoopInv, BodyFound PROVE LoopInv'
  OBVIOUS
<1>1. /\ phase = "bodies" /\ phase' = "bodies" /\ current # Null /\ worklist = {} /\ current' = Null
      /\ UNCHANGED <<given, todo, loop, body, parent, depth, worklist, pushed, outer, sorted, blind>>
  BY DEF BodyFound, nest
<1>2. /\ flow' = flow /\ dom' = dom /\ idom' = idom /\ Headers' = Headers
      /\ \A h : LatchesOf(h)' = LatchesOf(h) /\ BodyOf(h)' = BodyOf(h)
  BY <1>1, SameLoops
<1>3. LoopTypes /\ BodiesKnown /\ Growing
  BY <1>1 DEF LoopInv, BodiesKnown
<1>4. body[current] = BodyOf(current)
  <2>1. current \in Block /\ LatchesOf(current) # {}
    BY <1>3 DEF Growing, Headers
  <2>2. body[current] \subseteq BodyOf(current) /\ LatchesOf(current) \subseteq body[current]
    BY <1>1, <1>3 DEF Growing
  <2>3. \A x \in body[current] \ {current}, p \in Block : x \in Range(flow[p].to) => p \in body[current]
    BY <1>1, <1>3 DEF Growing, Prev
  <2> QED
    BY <1>3, <2>1, <2>2, <2>3, ClosedIsWhole DEF LatchesOf, BodyOf, LoopTypes
<1>5. LoopTypes'
  BY <1>1, <1>2, <1>3 DEF LoopTypes
<1>6. BodiesKnown'
  BY <1>1, <1>2, <1>3, <1>4 DEF BodiesKnown, OnlyHeaders
<1> QED
  BY <1>1, <1>5, <1>6 DEF LoopInv

LEMMA NestStep == ASSUME LoopInv, NEW b \in Block, DetectLoopNest(b) PROVE LoopInv'
<1>1. LoopTypes /\ Turn("nest", b)
  BY DEF LoopInv, DetectLoopNest
<1>2. /\ phase = "nest" /\ phase' = "nest" /\ current = Null /\ todo' = todo \ {b} /\ b \in todo
      /\ todo' \in SUBSET Block /\ \A c \in Block \ todo' : dom[c] \cap todo' = {}
      /\ \A d \in dom[b] \ {b} : d \notin todo
      /\ UNCHANGED <<given, body, parent, depth, worklist, pushed, blind>>
  BY <1>1, TurnFacts DEF DetectLoopNest
<1>3. /\ flow' = flow /\ dom' = dom /\ idom' = idom /\ Headers' = Headers
      /\ \A h : Around(h)' = Around(h) /\ BodyOf(h)' = BodyOf(h)
  BY <1>2, SameLoops
<1>4. NestKnown
  BY <1>2 DEF LoopInv
<1>5. /\ Null \notin Block /\ Headers \subseteq Block
      /\ b \in Headers <=> b \in Around(b)
      /\ loop[b] = IF b \in Headers THEN b ELSE Null
  BY <1>1, <1>2, <1>4, LoopGiven, AroundFacts DEF NestKnown, OnlyHeaders
<1>6. ASSUME UNCHANGED <<current, outer, sorted>>, b \notin Headers,
             loop' \in [Block -> Block \cup {Null}], \A c \in Block \ {b} : loop'[c] = loop[c],
             Leads(loop'[b], Around(b), b)
      PROVE  LoopInv'
  <2>1. LoopTypes'
    BY <1>1, <1>2, <1>3, <1>6 DEF LoopTypes
  <2>2. /\ \A c \in Block : body'[c] = BodyOf(c)
        /\ \A c \in Headers : loop'[c] = c
        /\ Headers \ todo' \subseteq sorted'
    BY <1>2, <1>4, <1>5, <1>6 DEF NestKnown
  <2>3. \A c \in todo' : OnlyHeaders(c)'
    BY <1>1, <1>2, <1>3, <1>4, <1>6 DEF NestKnown, OnlyHeaders, LoopTypes
  <2>4. ASSUME NEW c \in Block \ todo' PROVE Leads(loop[c], Around(c), c)'
    <3>1. c = b \/ (c \in Block \ todo /\ loop'[c] = loop[c])
      BY <1>2, <1>6
    <3> QED
      BY <1>3, <1>4, <1>6, <3>1 DEF NestKnown, Leads
  <2>5. \A h \in Headers \ (todo' \cup {current'}) : ParentKnown(h)'
    BY <1>2, <1>3, <1>4, <1>6 DEF NestKnown, ParentKnown, Innermost
  <2>6. NestKnown'
    BY <1>2, <1>3, <1>6, <2>2, <2>3, <2>4, <2>5 DEF NestKnown
  <2> QED
    BY <1>2, <2>1, <2>6 DEF LoopInv
<1>7. CASE idom[b] = Null
  <2>1. b \notin Headers /\ Around(b) = {}
    BY <1>1, <1>7, DominatorFacts
  <2>2. UNCHANGED <<loop, current, outer, sorted>>
    BY <1>7 DEF DetectLoopNest
  <2>3. Leads(loop'[b], Around(b), b)
    BY <1>5, <2>1, <2>2 DEF Leads
  <2> QED
    BY <1>1, <1>6, <2>1, <2>2, <2>3 DEF LoopTypes
<1>8. CASE idom[b] # Null
  <2> DEFINE d == idom[b]
             k == loop[d]
  <2>1. /\ d \in Block /\ d \in dom[b] /\ b \notin dom[d] /\ dom[d] \subseteq dom[b]
        /\ Around(b) \ {b} \subseteq Around(d)
    BY <1>1, <1>8, DominatorFacts
  <2>2. d # b /\ d \notin todo
    BY <1>1, <1>2, <2>1, DominatorOrder
  <2>3. Leads(k, Around(d), d)
    BY <1>4, <2>1, <2>2 DEF NestKnown
  <2>4. Leads(k, Around(b) \ {b}, d)
    BY <2>1, <2>3 DEF Leads
  <2>5. k \in Block \cup {Null}
    BY <1>1, <2>1 DEF LoopTypes
  <2>6. CASE b \notin Headers
    <3>1. loop[b] = Null
      BY <1>5, <2>6
    <3>2. UNCHANGED <<current, outer, sorted>> /\ loop' = [loop EXCEPT ![b] = k]
      BY <1>8, <3>1 DEF DetectLoopNest
    <3>3. Leads(k, Around(b), b)
      BY <1>5, <2>1, <2>4, <2>6 DEF Leads
    <3> HIDE DEF k
    <3>4. /\ loop' \in [Block -> Block \cup {Null}] /\ \A c \in Block \ {b} : loop'[c] = loop[c]
          /\ loop'[b] = k
      BY <1>1, <2>5, <3>2 DEF LoopTypes
    <3> QED
      BY <1>6, <2>6, <3>2, <3>3, <3>4
  <2>7. CASE b \in Headers
    <3>1. loop[b] = b
      BY <1>5, <2>7
    <3>2. current' = b /\ outer' = k /\ sorted' = sorted \cup {b} /\ loop' = loop
      BY <1>5, <1>8, <3>1 DEF DetectLoopNest, SortedWith
    <3> HIDE DEF k
    <3>3. LoopTypes'
      BY <1>1, <1>2, <1>3, <2>5, <3>2 DEF LoopTypes
    <3>4. \A c \in todo' : OnlyHeaders(c)'
      BY <1>2, <1>3, <1>4, <3>2 DEF NestKnown, OnlyHeaders
    <3>5. b \in dom[b]
      BY <1>1, DominatorOrder
    <3>6. ASSUME NEW c \in Block \ todo' PROVE Leads(loop[c], Around(c), c)'
      <4>1. CASE c = b
        BY <1>3, <1>5, <2>7, <3>1, <3>2, <3>5, <4>1 DEF Leads
      <4>2. CASE c \in Block \ todo
        BY <1>3, <1>4, <3>2, <4>2 DEF NestKnown, Leads
      <4> QED
        BY <1>2, <4>1, <4>2
    <3>7. ASSUME NEW h \in Headers \ (todo' \cup {current'}) PROVE ParentKnown(h)'
      <4>1. ParentKnown(h)
        BY <1>2, <1>4, <1>5, <3>2, <3>7 DEF NestKnown
      <4> QED
        BY <1>2, <1>3, <4>1 DEF ParentKnown, Innermost
    <3>8. (Leads(outer, Around(current) \ {current}, idom[current]))'
      BY <1>3, <2>4, <3>2 DEF Leads
    <3>9. NestKnown'
      BY <1>2, <1>3, <1>4, <1>8, <2>7, <3>2, <3>4, <3>6, <3>7, <3>8 DEF NestKnown
    <3> QED
      BY <1>2, <3>3, <3>9 DEF LoopInv
  <2> QED
    BY <2>6, <2>7
<1> QED
  BY <1>7, <1>8

\* The loop under search is one that the search may go through.
LEMMA SearchFacts ==
  ASSUME LoopInv, current # Null, phase \in {"nest", "tree"}, outer # Null
  PROVE  /\ current \in Block /\ outer \in Headers /\ outer \in Block /\ outer \in sorted
         /\ Holds(outer, current) <=> outer \in Around(current)
         /\ ParentKnown(outer)
         /\ phase = "nest" => /\ outer # current /\ outer \in dom[idom[current]]
                              /\ current \notin dom[outer]
<1>1. LoopTypes /\ current \in Block /\ outer \in Block
  BY DEF LoopInv, LoopTypes
<1>2. ASSUME \A b \in Block : body[b] = BodyOf(b)
      PROVE  Holds(outer, current) <=> outer \in Around(current)
  BY <1>1, <1>2, AroundFacts DEF Holds
<1>3. CASE phase = "nest"
  <2>1. /\ NestKnown /\ current \in Headers \ todo /\ idom[current] # Null
        /\ Leads(outer, Around(current) \ {current}, idom[current])
    BY <1>3 DEF LoopInv, NestKnown
  <2>2. /\ idom[current] \in Block /\ current \notin dom[idom[current]]
        /\ dom[idom[current]] \subseteq dom[current]
    BY <1>1, <2>1, DominatorFacts
  <2>3. outer \in Headers /\ outer \in dom[idom[current]]
    BY <2>1 DEF Leads
  <2>4. outer # current /\ current \notin dom[outer]
    BY <1>1, <2>2, <2>3, DominatorOrder
  <2>5. outer \notin todo
    BY <1>1, <2>1, <2>2, <2>3 DEF LoopTypes
  <2> QED
    BY <1>1, <1>2, <2>1, <2>3, <2>4, <2>5 DEF NestKnown
<1>4. CASE phase = "tree"
  <2>1. TreeKnown /\ Leads(outer, Around(current), current)
    BY <1>4 DEF LoopInv, TreeKnown
  <2>2. outer \in Headers
    BY <2>1 DEF Leads
  <2> QED
    BY <1>1, <1>2, <1>4, <2>1, <2>2 DEF TreeKnown
<1> QED
  BY <1>3, <1>4

LEMMA ClimbStep == LoopInv /\ Climb => LoopInv'
<1> SUFFICES ASSUME LoopInv, Climb PROVE LoopInv'
  OBVIOUS
<1>1. /\ phase \in {"nest", "tree"} /\ current # Null /\ outer # Null /\ ~Holds(outer, current)
      /\ outer' = parent[outer] /\ blind' = (blind \/ outer \notin sorted)
      /\ UNCHANGED <<given, phase, todo, loop, body, parent, depth, worklist, pushed, current, sorted>>
  BY DEF Climb, nest
<1>2. /\ flow' = flow /\ dom' = dom /\ idom' = idom /\ Headers' = Headers
      /\ \A h : Around(h)' = Around(h) /\ BodyOf(h)' = BodyOf(h)
  BY <1>1, SameLoops
<1>3. LoopTypes /\ ~blind
  BY DEF LoopInv
<1>4. /\ current \in Block /\ outer \in Headers /\ outer \in Block /\ outer \in sorted
      /\ outer \notin Around(current) /\ ParentKnown(outer)
      /\ phase = "nest" => outer # current
  BY <1>1, SearchFacts
<1>5. LoopTypes' /\ ~blind'
  BY <1>1, <1>2, <1>3, <1>4 DEF LoopTypes
<1>6. \A h : ParentKnown(h) <=> ParentKnown(h)'
  BY <1>1, <1>2 DEF ParentKnown, Innermost
<1>7. CASE phase = "nest"
  <2>1. NestKnown
    BY <1>7 DEF LoopInv
  <2>2. idom[current] \in Block
    BY <1>1, <1>3, <1>4, <2>1, DominatorFacts DEF NestKnown
  <2>3. Leads(parent[outer], Around(current) \ {current}, idom[current])
    BY <1>1, <1>3, <1>4, <2>1, <2>2, OutwardFacts DEF NestKnown
  <2>4. (Leads(outer, Around(current) \ {current}, idom[current]))'
    BY <1>1, <1>2, <2>3 DEF Leads
  <2>5. /\ \A b \in todo : OnlyHeaders(b)'
        /\ \A b \in Block \ todo : Leads(loop[b], Around(b), b)'
    BY <1>1, <1>2, <2>1 DEF NestKnown, OnlyHeaders, Leads
  <2>6. NestKnown'
    BY <1>1, <1>2, <1>6, <2>1, <2>4, <2>5 DEF NestKnown
  <2> QED
    BY <1>1, <1>5, <1>7, <2>6 DEF LoopInv
<1>8. CASE phase = "tree"
  <2>1. TreeKnown
    BY <1>8 DEF LoopInv
  <2>2. Leads(parent[outer], Around(current), current)
    BY <1>1, <1>3, <1>4, <2>1, OutwardFacts DEF TreeKnown
  <2>3. (Leads(outer, Around(current), current))'
    BY <1>1, <1>2, <2>2 DEF Leads
  <2>4. /\ \A b \in todo : Leads(loop[b], Around(b), b)'
        /\ \A b \in Block \ (todo \cup {current}) : Innermost(loop[b], Around(b))'
    BY <1>1, <1>2, <2>1 DEF TreeKnown, Leads, Innermost
  <2>5. TreeKnown'
    BY <1>1, <1>2, <1>6, <2>1, <2>3, <2>4 DEF TreeKnown
  <2> QED
    BY <1>1, <1>5, <1>8, <2>5 DEF LoopInv
<1> QED
  BY <1>1, <1>7, <1>8

LEMMA SetParentStep == LoopInv /\ SetParent => LoopInv'
<1> SUFFICES ASSUME LoopInv, SetParent PROVE LoopInv'
  OBVIOUS
<1>1. /\ phase = "nest" /\ phase' = "nest" /\ current # Null /\ current' = Null
      /\ outer # Null => Holds(outer, current)
      /\ parent' = [parent EXCEPT ![current] = outer]
      /\ blind' = (blind \/ outer \notin sorted \cup {Null})
      /\ UNCHANGED <<given, todo, loop, body, depth, worklist, pushed, outer, sorted>>
  BY DEF SetParent, Arrive
<1>2. /\ flow' = flow /\ dom' = dom /\ idom' = idom /\ Headers' = Headers
      /\ \A h : Around(h)' = Around(h) /\ BodyOf(h)' = BodyOf(h)
  BY <1>1, SameLoops
<1>3. /\ LoopTypes /\ ~blind /\ NestKnown /\ current \in Headers \ todo /\ current \in Block
      /\ Leads(outer, Around(current) \ {current}, idom[current])
  BY <1>1 DEF LoopInv, NestKnown, LoopTypes
<1>4. ~blind'
  BY <1>1, <1>3, SearchFacts
<1>5. /\ parent' \in [Block -> Block \cup {Null}] /\ parent'[current] = outer
      /\ \A h \in Block \ {current} : parent'[h] = parent[h]
  BY <1>1, <1>3 DEF LoopTypes
<1>6. LoopTypes'
  BY <1>1, <1>2, <1>3, <1>5 DEF LoopTypes
<1>7. Innermost(outer, Around(current) \ {current})
  <2>1. CASE outer = Null
    BY <1>3, <2>1 DEF Leads, Innermost
  <2>2. CASE outer # Null
    <3>1. /\ outer \in Block /\ outer \in Around(current) /\ outer # current
          /\ current \notin dom[outer]
      BY <1>1, <2>2, SearchFacts
    <3>2. Around(outer) \subseteq Around(current) /\ current \notin Around(outer)
      BY <1>3, <3>1, AroundFacts
    <3>3. Around(current) \ {current} \subseteq Around(outer)
      BY <1>3, <2>2 DEF Leads
    <3> QED
      BY <3>1, <3>2, <3>3 DEF Innermost
  <2> QED
    BY <2>1, <2>2
<1>8. ASSUME NEW h \in Headers \ todo PROVE ParentKnown(h)'
  <2>1. CASE h = current
    BY <1>2, <1>5, <1>7, <2>1 DEF ParentKnown, Innermost
  <2>2. CASE h # current
    <3>1. ParentKnown(h) /\ h \in Block
      BY <1>3, <2>2, AroundFacts DEF NestKnown
    <3> QED
      BY <1>2, <1>5, <2>2, <3>1 DEF ParentKnown, Innermost
  <2> QED
    BY <2>1, <2>2
<1>9. /\ \A b \in todo : OnlyHeaders(b)'
      /\ \A b \in Block \ todo : Leads(loop[b], Around(b), b)'
  BY <1>1, <1>2, <1>3 DEF NestKnown, OnlyHeaders, Leads
<1>10. NestKnown'
  BY <1>1, <1>2, <1>3, <1>8, <1>9 DEF NestKnown
<1> QED
  BY <1>1, <1>4, <1>6, <1>10 DEF LoopInv

LEMMA SetLoopStep == LoopInv /\ SetLoop => LoopInv'
<1> SUFFICES ASSUME LoopInv, SetLoop PROVE LoopInv'
  OBVIOUS
<1>1. /\ phase = "tree" /\ phase' = "tree" /\ current # Null /\ current' = Null
      /\ outer # Null => Holds(outer, current)
      /\ loop' = [loop EXCEPT ![current] = outer]
      /\ blind' = (blind \/ outer \notin sorted \cup {Null})
      /\ UNCHANGED <<given, todo, parent, body, depth, worklist, pushed, outer, sorted>>
  BY DEF SetLoop, Arrive
<1>2. /\ flow' = flow /\ dom' = dom /\ idom' = idom /\ Headers' = Headers
      /\ \A h : Around(h)' = Around(h) /\ BodyOf(h)' = BodyOf(h)
  BY <1>1, SameLoops
<1>3. /\ LoopTypes /\ ~blind /\ TreeKnown /\ current \notin Headers \cup todo /\ current \in Block
      /\ Leads(outer, Around(current), current)
  BY <1>1 DEF LoopInv, TreeKnown, LoopTypes
<1>4. ~blind'
  BY <1>1, <1>3, SearchFacts
<1>5. /\ loop' \in [Block -> Block \cup {Null}] /\ loop'[current] = outer
      /\ \A b \in Block \ {current} : loop'[b] = loop[b]
  BY <1>1, <1>3 DEF LoopTypes
<1>6. LoopTypes'
  BY <1>1, <1>2, <1>3, <1>5 DEF LoopTypes
<1>7. Innermost(outer, Around(current))
  <2>1. CASE outer = Null
    BY <1>3, <2>1 DEF Leads, Innermost
  <2>2. CASE outer # Null
    <3>1. outer \in Around(current)
      BY <1>1, <2>2, SearchFacts
    <3>2. Around(outer) \subseteq Around(current)
      BY <1>3, <3>1, AroundFacts
    <3>3. Around(current) \subseteq Around(outer)
      BY <1>3, <2>2 DEF Leads
    <3> QED
      BY <3>1, <3>2, <3>3 DEF Innermost
  <2> QED
    BY <2>1, <2>2
<1>8. ASSUME NEW b \in Block \ todo PROVE Innermost(loop[b], Around(b))'
  <2>1. CASE b = current
    BY <1>2, <1>5, <1>7, <2>1 DEF Innermost
  <2>2. CASE b # current
    <3>1. Innermost(loop[b], Around(b))
      BY <1>3, <2>2 DEF TreeKnown
    <3> QED
      BY <1>2, <1>5, <2>2, <3>1 DEF Innermost
  <2> QED
    BY <2>1, <2>2
<1>9. \A b \in todo : Leads(loop[b], Around(b), b)'
  BY <1>1, <1>2, <1>3, <1>5 DEF TreeKnown, Leads, LoopTypes
<1>10. \A b \in Headers : loop'[b] = b /\ ParentKnown(b)'
  BY <1>1, <1>2, <1>3, <1>5, AroundFacts DEF TreeKnown, ParentKnown, Innermost
<1>11. TreeKnown'
  BY <1>1, <1>2, <1>3, <1>8, <1>9, <1>10 DEF TreeKnown
<1> QED
  BY <1>1, <1>4, <1>6, <1>11 DEF LoopInv

LEMMA TreeStep == ASSUME LoopInv, NEW b \in Block, BuildTree(b) PROVE LoopInv'
<1>1. LoopTypes /\ Turn("tree", b)
  BY DEF LoopInv, BuildTree
<1>2. /\ phase = "tree" /\ phase' = "tree" /\ current = Null /\ todo' = todo \ {b} /\ b \in todo
      /\ todo' \in SUBSET Block /\ \A c \in Block \ todo' : dom[c] \cap todo' = {}
      /\ \A d \in dom[b] \ {b} : d \notin todo
      /\ UNCHANGED <<given, loop, body, parent, worklist, pushed, sorted, blind>>
  BY <1>1, TurnFacts DEF BuildTree
<1>3. /\ flow' = flow /\ dom' = dom /\ idom' = idom /\ Headers' = Headers
      /\ \A h : Around(h)' = Around(h) /\ BodyOf(h)' = BodyOf(h)
  BY <1>2, SameLoops
<1>4. TreeKnown /\ Leads(loop[b], Around(b), b)
  BY <1>2 DEF LoopInv, TreeKnown
<1>5. /\ Null \notin Block /\ Headers \subseteq Block
      /\ b \in Headers <=> b \in Around(b)
  BY <1>1, LoopGiven, AroundFacts
<1>6. /\ \A c \in Block : body'[c] = BodyOf(c)
      /\ \A c \in Headers : loop'[c] = c /\ ParentKnown(c)'
      /\ \A c \in todo' : Leads(loop[c], Around(c), c)'
      /\ Headers \subseteq sorted'
  BY <1>2, <1>3, <1>4 DEF TreeKnown, ParentKnown, Innermost, Leads
<1>7. ASSUME NEW c \in Block \ (todo' \cup {b}) PROVE Innermost(loop[c], Around(c))'
  <2>1. Innermost(loop[c], Around(c))
    BY <1>2, <1>4, <1>5, <1>7 DEF TreeKnown
  <2> QED
    BY <1>2, <1>3, <2>1 DEF Innermost
<1>8. CASE loop[b] = Null
  <2>1. UNCHANGED <<depth, current, outer>>
    BY <1>5, <1>8 DEF BuildTree
  <2>2. LoopTypes'
    BY <1>1, <1>2, <1>3, <2>1 DEF LoopTypes
  <2>3. b \notin Headers
    BY <1>4, <1>5, <1>8 DEF TreeKnown
  <2>4. Innermost(loop[b], Around(b))'
    BY <1>2, <1>3, <1>4, <1>8 DEF Leads, Innermost
  <2>5. \A h \in Headers \ todo' : depth'[h] = Cardinality(Around(h))
    BY <1>2, <1>4, <2>1, <2>3 DEF TreeKnown
  <2>6. TreeKnown'
    BY <1>2, <1>3, <1>6, <1>7, <2>1, <2>4, <2>5 DEF TreeKnown
  <2> QED
    BY <1>2, <2>2, <2>6 DEF LoopInv
<1>9. CASE loop[b] = b
  <2> DEFINE p == parent[b]
             deep == IF p = Null THEN 1 ELSE depth[p] + 1
  <2>1. UNCHANGED <<current, outer>> /\ depth' = [depth EXCEPT ![b] = deep]
    BY <1>5, <1>9 DEF BuildTree
  <2>2. b \in Headers /\ b \in Around(b)
    BY <1>4, <1>5, <1>9 DEF Leads
  <2>3. ParentKnown(b)
    BY <1>4, <2>2 DEF TreeKnown
  <2>4. IsFiniteSet(Around(b)) /\ Around(b) \subseteq Headers \cap dom[b]
    BY <1>1, AroundFacts
  <2>5. /\ IsFiniteSet(Around(b) \ {b})
        /\ Cardinality(Around(b) \ {b}) = Cardinality(Around(b)) - 1
        /\ Cardinality(Around(b)) \in Nat
    BY <2>2, <2>4, FS_RemoveElement, FS_CardinalityType
  <2>6. deep = Cardinality(Around(b))
    <3>1. CASE p = Null
      <4>1. Around(b) \ {b} = {}
        <5>1. Null \notin Around(b)
          BY <1>5, <2>4
        <5> QED
          BY <2>3, <3>1, <5>1 DEF ParentKnown, Innermost
      <4>2. Cardinality(Around(b) \ {b}) = 0
        BY <4>1, FS_EmptySet
      <4> QED
        BY <2>5, <3>1, <4>2
    <3>2. CASE p # Null
      <4>1. p \in Around(b) \ {b} /\ Around(p) = Around(b) \ {b}
        BY <2>3, <3>2 DEF ParentKnown, Innermost
      <4>2. p \in Headers \ todo
        BY <1>2, <2>4, <4>1
      <4>3. depth[p] = Cardinality(Around(b) \ {b})
        BY <1>4, <4>1, <4>2 DEF TreeKnown
      <4> QED
        BY <2>5, <3>2, <4>3
    <3> QED
      BY <3>1, <3>2
  <2> HIDE DEF deep
  <2>7. depth' \in [Block -> Nat] /\ depth'[b] = deep /\ \A h \in Block \ {b} : depth'[h] = depth[h]
    BY <1>1, <2>1, <2>5, <2>6 DEF LoopTypes
  <2>8. LoopTypes'
    BY <1>1, <1>2, <1>3, <2>1, <2>7 DEF LoopTypes
  <2>9. Innermost(loop[b], Around(b))'
    BY <1>2, <1>3, <1>9, <2>2 DEF Innermost
  <2>10. \A h \in Headers \ todo' : depth'[h] = Cardinality(Around(h))
    BY <1>2, <1>4, <1>5, <2>6, <2>7 DEF TreeKnown
  <2>11. TreeKnown'
    BY <1>2, <1>3, <1>6, <1>7, <2>1, <2>9, <2>10 DEF TreeKnown
  <2> QED
    BY <1>2, <2>8, <2>11 DEF LoopInv
<1>10. CASE loop[b] \notin {b, Null}
  <2>1. current' = b /\ outer' = loop[b] /\ depth' = depth
    BY <1>10 DEF BuildTree
  <2>2. LoopTypes'
    BY <1>1, <1>2, <1>3, <2>1 DEF LoopTypes
  <2>3. b \notin Headers
    BY <1>4, <1>10 DEF TreeKnown
  <2>4. \A h \in Headers \ todo' : depth'[h] = Cardinality(Around(h))
    BY <1>2, <1>4, <2>1, <2>3 DEF TreeKnown
  <2>5. (Leads(outer, Around(current), current))'
    BY <1>3, <1>4, <2>1 DEF Leads
  <2>6. TreeKnown'
    BY <1>2, <1>3, <1>6, <1>7, <2>1, <2>3, <2>4, <2>5 DEF TreeKnown
  <2> QED
    BY <1>2, <2>2, <2>6 DEF LoopInv
<1> QED
  BY <1>8, <1>9, <1>10

LEMMA LoopStutter == LoopInv /\ UNCHANGED loopVars => LoopInv'
<1> SUFFICES ASSUME LoopInv, UNCHANGED loopVars PROVE LoopInv'
  OBVIOUS
<1>1. UNCHANGED <<given, flow, dom, idom, phase, todo, loop, body, parent, depth, worklist, pushed,
                  current, outer, sorted, blind>>
  BY DEF loopVars, given, nest, search
<1>2. /\ Headers' = Headers
      /\ \A h : Around(h)' = Around(h) /\ LatchesOf(h)' = LatchesOf(h) /\ BodyOf(h)' = BodyOf(h)
      /\ \A h : Prev(h)' = Prev(h)
  BY <1>1, SameLoops
<1>3. LoopTypes'
  BY <1>1 DEF LoopInv, LoopTypes
<1>4. /\ phase = "edges" => EdgesKnown'
      /\ phase = "bodies" => BodiesKnown'
  BY <1>1, <1>2 DEF LoopInv, EdgesKnown, BodiesKnown, OnlyHeaders, Growing
<1>5. \A h : ParentKnown(h)' <=> ParentKnown(h)
  BY <1>1, <1>2 DEF ParentKnown, Innermost
<1>6. phase = "nest" => NestKnown'
  BY <1>1, <1>2, <1>5 DEF LoopInv, NestKnown, OnlyHeaders, Leads
<1>7. phase = "tree" => TreeKnown'
  BY <1>1, <1>2, <1>5 DEF LoopInv, TreeKnown, Leads, Innermost
<1>8. phase = "done" => LoopsNest'
  BY <1>1, <1>2 DEF LoopInv, LoopsNest, Innermost
<1> QED
  BY <1>1, <1>3, <1>4, <1>6, <1>7, <1>8 DEF LoopInv

THEOREM LoopInvariance == LoopSpec => []LoopInv
<1>1. LoopInv /\ [LoopNext]_loopVars => LoopInv'
  BY PassStep, BackEdgeStep, StartBodyStep, PopStep, BodyFoundStep, NestStep, ClimbStep,
     SetParentStep, SetLoopStep, TreeStep, LoopStutter DEF LoopNext
<1> QED
  BY <1>1, LoopStart, PTL DEF LoopSpec

\* When LoopNestDetector is done, each block knows the innermost loop around it,
\* each loop the one that it lies in, and its depth is the number of loops it
\* lies in, itself among them: on every flow graph, with loops that have two
\* entries as well.
THEOREM LoopsAreFound == LoopSpec => []LoopsNest
<1>1. LoopInv => LoopsNest
  BY DEF LoopInv, LoopsNest
<1> QED
  BY <1>1, LoopInvariance, PTL

\* LoopNestDetector sorts a body before any search by bisection looks into it.
THEOREM SortedBeforeSearch == LoopSpec => []SearchedWhenSorted
<1>1. LoopInv => SearchedWhenSorted
  BY DEF LoopInv, SearchedWhenSorted
<1> QED
  BY <1>1, LoopInvariance, PTL

\* With the steps of LoopNestDetector in the place of its pass, DoOptimize is
\* what Pipeline says and finds loops as LoopNestDetector says; so all of the
\* theorems above hold of it.
THEOREM StepsAreBoth == StepsSpec => PipeSpec /\ LoopSpec
<1>1. StepsInit => PipeInit /\ LoopInit
  BY DEF StepsInit
<1>2. [StepsNext]_<<pipeVars, loopVars>> => [PipeNext]_pipeVars /\ [LoopNext]_loopVars
  BY DEF StepsNext, DetectLoops, PassRuns
<1> QED
  BY <1>1, <1>2, PTL DEF StepsSpec, PipeSpec, LoopSpec

=============================================================================

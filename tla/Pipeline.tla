------------------------------- MODULE Pipeline -------------------------------
(***************************************************************************)
(* DoOptimize on one function: the order of the passes, what each of them  *)
(* does to the analyses stored in the function and its blocks, and the     *)
(* flags has_cfg, has_dom, has_fro, has_rpo and is_post by which they tell *)
(* each other what is stored.                                              *)
(*                                                                         *)
(* Of the function the model keeps whether it is empty and which stored    *)
(* facts are true of its flow statements now:                              *)
(*   "cfg"     next and prev are its edges                                 *)
(*   "dom"     dom and idom are its dominators, or post-dominators         *)
(*   "fro"     fro is the frontiers that belong to them                    *)
(*   "rpo"     rpo is the reverse post-order that belongs to them          *)
(*   "loop"    loop is its innermost loops                                 *)
(*   "pruned"  every block lies between the entry and a return             *)
(* Whether a pass finds something to change is left open.                  *)
(***************************************************************************)
EXTENDS Naturals, Sequences, FiniteSets

Flag == {"cfg", "dom", "fro", "rpo"}

Fact == Flag \cup {"loop", "pruned"}

(***************************************************************************)
(* The passes of DoOptimize on a function.  GlobalConstantReplacer and     *)
(* DeadCodeEliminator are left out: they read and change nothing of this.  *)
(***************************************************************************)
DoNotOptimize == <<"unreachableRemover">>

FirstHalf ==
  <<"mem2regPass", "ConstantPropagatior", "dominantMaker", "unreachableRemover",
    "AggressiveElimination", "CFGsimplifier">>

AnalysisDropped ==   \* a slip
  <<"unreachableRemover", "unreachableRemover", "ConstantPropagatior",
    "unreachableRemover", "AggressiveElimination", "CFGsimplifier">>

SecondHalf ==
  <<"unreachableRemover", "unreachableRemover", "dominantMaker", "ConstantPropagatior",
    "unreachableRemover", "AggressiveElimination", "CFGsimplifier">>

MotionFirst ==   \* a slip
  <<"GlobalCodeMotionPass", "LoopNestDetector", "GlobalValueNumberPass",
    "ConstantPropagatior", "unreachableRemover">>

LastPart ==
  <<"LoopNestDetector", "GlobalCodeMotionPass", "GlobalValueNumberPass",
    "ConstantPropagatior", "unreachableRemover">>

Passes(level) ==
  IF level = 0 THEN DoNotOptimize
  ELSE DoNotOptimize \o FirstHalf \o SecondHalf \o LastPart

VARIABLES
  level,    \* optimize_info.level
  at,       \* the number of passes that have run
  empty,    \* function::data is empty
  facts,    \* the stored facts that are true
  post,     \* whether the last analysis was a post analysis
  flags,    \* has_cfg, has_dom, has_fro, has_rpo
  is_post   \* function::is_post

pipeVars == <<level, at, empty, facts, post, flags, is_post>>

analysis == <<post, is_post>>

PipeInit ==
  /\ level \in 0..2
  /\ at = 0
  /\ empty = FALSE
  /\ facts = {} /\ flags = {}
  /\ post = FALSE /\ is_post = FALSE

Upcoming(pass) == at < Len(Passes(level)) /\ Passes(level)[at + 1] = pass

Run(pass) == ~empty /\ Upcoming(pass) /\ at' = at + 1 /\ UNCHANGED level

\* Every pass returns at once from an empty function.
Skip ==
  /\ empty
  /\ at < Len(Passes(level))
  /\ at' = at + 1
  /\ UNCHANGED <<level, empty, facts, analysis, flags>>

OrderKept == {"dom", "fro"}   \* a slip

\* The flags unreachableRemover clears.
Cleared == {"dom", "fro", "rpo"}

\* unreachableRemover changes nothing, or some flow, or drops all blocks.
UnreachableRemover ==
  /\ Run("unreachableRemover")
  /\ empty' \in BOOLEAN
  /\ \E left \in {facts, {}} : facts' = (left \ {"rpo"}) \cup {"cfg", "pruned"}
  /\ flags' = (flags \ Cleared) \cup {"cfg"}
  /\ UNCHANGED analysis

\* What a dominator analysis leaves; it links the blocks itself.
Analysed == facts \cup Flag

Analyse == facts' = Analysed /\ flags' = Flag /\ post' = FALSE /\ is_post' = FALSE

DominantMaker == Run("dominantMaker") /\ Analyse /\ UNCHANGED empty

\* mem2regPass analyses first and then moves no block.
Mem2reg == Run("mem2regPass") /\ Analyse /\ UNCHANGED empty

hasDomTree == "dom" \in flags /\ ~is_post

\* Conditions may become constants; the flow statements wait for
\* unreachableRemover.
ConstantPropagatior ==
  /\ Run("ConstantPropagatior")
  /\ flags' = flags \ {"dom"}
  /\ UNCHANGED <<empty, facts, analysis>>

\* A post analysis, jumps redirected, dom and fro cleared, unreachableRemover:
\* the entry stays and reaches a return.
AggressiveElimination ==
  /\ Run("AggressiveElimination")
  /\ facts' = {"cfg", "pruned"} /\ flags' = (Flag \ Cleared) \cup {"cfg"}
  /\ post' = TRUE /\ is_post' = TRUE
  /\ UNCHANGED empty

\* CFGsimplifier may merge blocks; it keeps next and prev by hand and says
\* nothing of the rest.
CFGsimplifier ==
  /\ Run("CFGsimplifier")
  /\ facts' \in {facts, {"cfg", "pruned"}}
  /\ UNCHANGED <<empty, analysis, flags>>

EdgesAreEnough == "cfg" \in flags   \* a slip

\* The analysis LoopNestDetector and GlobalValueNumberPass take as it is; else
\* they make one.
Trusted == {"dom", "rpo"} \subseteq flags /\ ~is_post

LoopNestDetector ==
  /\ Run("LoopNestDetector")
  /\ facts' = (IF Trusted THEN facts ELSE Analysed) \cup {"loop"}
  /\ flags' = IF Trusted THEN flags ELSE Flag
  /\ post' = (post /\ Trusted) /\ is_post' = FALSE
  /\ UNCHANGED empty

\* It moves statements between blocks only.
GlobalCodeMotionPass ==
  /\ Run("GlobalCodeMotionPass")
  /\ UNCHANGED <<empty, facts, analysis, flags>>

\* makeDomTree lays the children of the dominator tree over the frontiers.
GlobalValueNumberPass ==
  /\ Run("GlobalValueNumberPass")
  /\ facts' = (IF Trusted THEN facts ELSE Analysed) \ {"fro"}
  /\ flags' = (IF Trusted THEN flags ELSE Flag) \ {"fro"}
  /\ post' = (post /\ Trusted) /\ is_post' = FALSE
  /\ UNCHANGED empty

PipeNext ==
  \/ Skip
  \/ UnreachableRemover
  \/ DominantMaker
  \/ Mem2reg
  \/ ConstantPropagatior
  \/ AggressiveElimination
  \/ CFGsimplifier
  \/ LoopNestDetector
  \/ GlobalCodeMotionPass
  \/ GlobalValueNumberPass

PipeSpec == PipeInit /\ [][PipeNext]_pipeVars

-----------------------------------------------------------------------------

\* What is flagged is stored and true, and has the direction it is said to have.
FlagsTellTheTruth ==
  ~empty => flags \subseteq facts /\ ("dom" \in flags => post = is_post)

\* What a pass reads without making it first.
Reads(pass) ==
  CASE pass \in {"dominantMaker", "mem2regPass", "AggressiveElimination"} -> {"pruned"}
    [] pass = "ConstantPropagatior" -> {"cfg"} \cup IF hasDomTree THEN {"dom"} ELSE {}
    [] pass = "CFGsimplifier" -> {"cfg", "pruned"}
    [] pass \in {"LoopNestDetector", "GlobalValueNumberPass"} ->
         IF Trusted THEN {"cfg", "dom", "rpo"} ELSE {"pruned"}
    [] pass = "GlobalCodeMotionPass" -> {"dom", "rpo", "loop"}
    [] OTHER -> {}

\* Whatever the passes before it have changed, each pass reads what is true
\* now, and no forward analysis is taken from a post analysis.
ReadersFindTheTruth ==
  \A i \in 1..Len(Passes(level)) : ~empty /\ at = i - 1 =>
    /\ Reads(Passes(level)[i]) \subseteq facts
    /\ "dom" \in Reads(Passes(level)[i]) => ~post

\* The assertions "No CFG!" and "GCM requires dominator tree to be built" hold.
AssertionsHold ==
  ~empty =>
    /\ Upcoming("LoopNestDetector") \/ Upcoming("GlobalValueNumberPass") => "cfg" \in flags
    /\ Upcoming("GlobalCodeMotionPass") => "dom" \in flags

\* ConstantPropagatior has a dominator tree whenever it runs, and may so replace
\* a variable by a variable.
CopiesArePropagated == ~empty /\ Upcoming("ConstantPropagatior") => hasDomTree

=============================================================================

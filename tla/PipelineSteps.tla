----------------------------- MODULE PipelineSteps -----------------------------
(***************************************************************************)
(* DoOptimize with one of its passes taken apart: when LoopNestDetector is *)
(* next on a function with blocks, the steps of its constructor come one   *)
(* by one, and the next pass waits for their end.  It runs once, on the    *)
(* flow statements the passes before have left; these are any of           *)
(* LoopPrograms.                                                           *)
(***************************************************************************)
EXTENDS Pipeline, LoopNestDetector

StepsInit == PipeInit /\ LoopInit

Detecting == Upcoming("LoopNestDetector") /\ ~empty

DetectLoops == Detecting /\ LoopNext /\ UNCHANGED pipeVars

PassRuns ==
  /\ Detecting => phase = "done"
  /\ PipeNext
  /\ UNCHANGED loopVars

StepsNext == DetectLoops \/ PassRuns

StepsSpec == StepsInit /\ [][StepsNext]_<<pipeVars, loopVars>>

=============================================================================

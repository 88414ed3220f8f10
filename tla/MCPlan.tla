------------------------------- MODULE MCPlan -------------------------------
(* The planner on the files of the instances of the dispatcher.             *)
EXTENDS Planner

CONSTANTS s1, a, b, s2

(* Two files over the threshold, one of them smaller, and two empty ones:   *)
(* the calibration stream, a batch of two, the other stream.                *)
Files == <<s2, a, b, s1>>
FileSize == [e \in {s1, a, b, s2} |-> CASE e = s1 -> 1 [] e = s2 -> 2 [] OTHER -> 0]
PlannedUnits ==
  UnitsOf(Files, FileSize, 0, [maxBytes |-> 8, maxFiles |-> {}, order |-> "Descending"])
=============================================================================

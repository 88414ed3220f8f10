------------------------------ MODULE Outcomes ------------------------------
(***************************************************************************)
(* The vocabulary every operation shares: error strategies, the reasons an  *)
(* operation stops early, and what dispatch() promises its callers about    *)
(* the outcome it returns.                                                  *)
(***************************************************************************)
EXTENDS Integers, Sequences, FiniteSets

Strategies == {"ContinueAndCollect", "AbortOnError", "Undo"}
Reasons    == {"Fatal", "AbortOnError", "Cancelled", "Undo"}
None       == "None"

(* The stop reason a failure gives under a strategy: the same match in the  *)
(* dispatcher, the validation step, the deletion sweeps and move_many.      *)
StrategyReason(s) == IF s = "ContinueAndCollect" THEN None ELSE s
FailureReason(s, fatal) == IF fatal THEN "Fatal" ELSE StrategyReason(s)

(* A copy outcome as the sets the callers look at.                          *)
EmptyOutcome ==
  [succeeded |-> {}, skipped |-> {}, failed |-> {}, stoppedEarly |-> None]

(* Everything dispatch() can answer for the entries in W under strategy s.  *)
IsDispatchOutcome(o, W, s) ==
  LET handled == o.succeeded \cup o.skipped \cup o.failed IN
  /\ handled \subseteq W
  /\ o.succeeded \cap o.skipped = {} /\ o.succeeded \cap o.failed = {}
  /\ o.skipped \cap o.failed = {}
  /\ o.stoppedEarly = None => handled = W /\ (s = "ContinueAndCollect" \/ o.failed = {})
  /\ o.stoppedEarly \in {"AbortOnError", "Undo"} => s = o.stoppedEarly /\ o.failed # {}
  /\ o.stoppedEarly = "Fatal" => o.failed # {}
  /\ o.stoppedEarly = "Cancelled" => s = "ContinueAndCollect" \/ o.failed = {}
  /\ s = "Undo" /\ o.stoppedEarly # None => o.succeeded = {}

DispatchOutcomes(W, s) ==
  LET Of(v, kind) == {e \in W : v[e] = kind}
      Candidates ==
        {[succeeded |-> Of(v, "ok"), skipped |-> Of(v, "skip"), failed |-> Of(v, "fail"),
          stoppedEarly |-> r] : v \in [W -> {"ok", "skip", "fail", "none"}], r \in Reasons \cup {None}}
  IN {o \in Candidates : IsDispatchOutcome(o, W, s)}

(* What a copy pipeline answers: dispatch's outcome with rejected entries   *)
(* among the failed, or a stop before any work because only directories     *)
(* were rejected.                                                           *)
IsCopyOutcome(o, W, s) ==
  \/ IsDispatchOutcome(o, W, s)
  \/ StrategyReason(s) # None /\ o = [EmptyOutcome EXCEPT !.stoppedEarly = s]

CopyOutcomes(W, s) ==
  DispatchOutcomes(W, s)
    \cup {[EmptyOutcome EXCEPT !.stoppedEarly = r] : r \in {StrategyReason(s)} \ {None}}
=============================================================================

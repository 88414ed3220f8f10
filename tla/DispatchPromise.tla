--------------------------- MODULE DispatchPromise ---------------------------
(***************************************************************************)
(* What a caller may rely on from dispatch(), with no units, permits, tasks *)
(* or flags in sight: effects appear while it works, a rollback takes them  *)
(* back, and when it returns the outcome tells the effects that remain and  *)
(* nothing appears any more.  Dispatcher is shown to implement it; Pipeline *)
(* and the operations above it are built on it.                             *)
(***************************************************************************)
EXTENDS Outcomes

CONSTANT W          (* The entries of the plan.                              *)

VARIABLES
  strategy,         (* ErrorStrategy of the call.                            *)
  phase,            (* "working", "undoing" or "returned".                   *)
  applied,          (* Entries whose effect is in place.                     *)
  result            (* The outcome; empty until returned.                    *)

promiseVars == <<strategy, phase, applied, result>>

Init ==
  /\ strategy \in Strategies
  /\ phase = "working"
  /\ applied = {}
  /\ result = EmptyOutcome

Apply(e) ==
  /\ phase = "working" /\ e \notin applied
  /\ applied' = applied \cup {e}
  /\ UNCHANGED <<strategy, phase, result>>

BeginUndo ==
  /\ phase = "working" /\ strategy = "Undo"
  /\ phase' = "undoing"
  /\ UNCHANGED <<strategy, applied, result>>

TakeBack(e) ==
  /\ phase = "undoing" /\ e \in applied
  /\ applied' = applied \ {e}
  /\ UNCHANGED <<strategy, phase, result>>

(* Only a rollback may leave effects the outcome does not name: an undo     *)
(* that itself failed.                                                      *)
Return ==
  /\ phase # "returned"
  /\ phase' = "returned"
  /\ \E o \in DispatchOutcomes(W, strategy) :
       /\ (phase = "undoing") <=> (strategy = "Undo" /\ o.stoppedEarly # None)
       /\ phase = "working" => o.succeeded = applied
       /\ result' = o
  /\ UNCHANGED <<strategy, applied>>

Next == (\E e \in W : Apply(e) \/ TakeBack(e)) \/ BeginUndo \/ Return

Spec == Init /\ [][Next]_promiseVars
=============================================================================

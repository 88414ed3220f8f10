-------------------------------- MODULE Plans --------------------------------
(***************************************************************************)
(* The engine next to the planner that makes its units: what a plan has to  *)
(* be, asked of every workload up to a bound when the dispatch loop begins. *)
(***************************************************************************)
EXTENDS Dispatcher, Planner

CONSTANTS
  MaxEntries,   (* Bound: entries of a workload.                            *)
  MaxSize,      (* Bound: size of an entry, and threshold.                  *)
  Configs       (* BatchConfigs to plan with.                               *)

(* The builders take any budget, a count of files or none, either order.    *)
Config ==
  {c \in [maxBytes : Nat, maxFiles : SUBSET Nat, order : {"Ascending", "Descending"}] :
     \A m, n \in c.maxFiles : m = n}

ASSUME PlansAssumption == MaxEntries \in Nat /\ MaxSize \in Nat /\ Configs \subseteq Config

(* A workload as the sizes of its entries, which are named by their places. *)
Workloads == UNION {[1 .. n -> 0 .. MaxSize] : n \in 0 .. MaxEntries}

EveryPlanIsRight ==
  \A size \in Workloads, threshold \in 0 .. MaxSize, config \in Configs :
    LET entries == [i \in DOMAIN size |-> i] IN
    RightUnits(UnitsOf(entries, size, threshold, config), entries, size, threshold, config)

(* plan() and the unit queue of dispatch() place every entry exactly once,  *)
(* within both budgets, closing no batch early, with the smallest stream    *)
(* first, also when one entry alone is over the budget or a budget is zero. *)
(* A plan is made before the loop begins, so it is judged there.            *)
PlanIsRight == mpc = "check" /\ next = 1 => EveryPlanIsRight
=============================================================================

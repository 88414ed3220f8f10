------------------------------- MODULE MCWatch -------------------------------
(* Changes in the watched directory, and one below it, of different kinds.  *)
EXTENDS Watch

MCChanges == {[what |-> w, nested |-> FALSE] : w \in {"create", "modify", "any"}}
               \cup {[what |-> "remove", nested |-> TRUE]}
=============================================================================

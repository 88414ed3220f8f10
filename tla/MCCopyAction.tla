---------------------------- MODULE MCCopyAction ----------------------------
(* CopyAction on a stream and a one-file batch running side by side.       *)
EXTENDS CopyAction

CONSTANTS s1, a

MCUnits == <<[kind |-> "stream", entries |-> <<s1>>],
             [kind |-> "batch", entries |-> <<a>>]>>
MCSize == [e \in Entry |-> 1]
=============================================================================

-------------------------------- MODULE MCEta --------------------------------
(* The estimator over the units of MCPlan, one directory and one orphan.    *)
EXTENDS Eta

CONSTANTS s1, a, b, s2

Plan == INSTANCE MCPlan
MCSize == Plan!FileSize
MCUnits == Plan!PlannedUnits
=============================================================================

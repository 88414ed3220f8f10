---------------------------- MODULE MCDispatcher ----------------------------
(* Dispatcher on the units the planner makes of the files of MCPlan, and    *)
(* the planner on every list of up to four entries with sizes up to three.  *)
EXTENDS Plans

CONSTANTS s1, a, b, s2

Plan == INSTANCE MCPlan
MCSize == Plan!FileSize
MCUnits == Plan!PlannedUnits
MCConfigs == [maxBytes : {1, 4}, maxFiles : {{}, {0}, {1}, {2}}, order : {"Ascending", "Descending"}]
=============================================================================

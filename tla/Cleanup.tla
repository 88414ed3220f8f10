------------------------------- MODULE Cleanup -------------------------------
(***************************************************************************)
(* A session on one tree with one set of criteria: analyze it, preview a    *)
(* removal, remove, in any order and number up to Calls, while another      *)
(* process changes files and the caller may cancel.                         *)
(***************************************************************************)
EXTENDS Remove, Analysis

CONSTANTS
  RemoveOptions,    (* Options of remove() to try.                           *)
  AnalysisOptions   (* Options of analyze() to try.                          *)

ASSUME CleanupAssumption ==
  /\ RemoveOptions \subseteq
       [dry : BOOLEAN, hard : BOOLEAN, strategy : Strategies, allow : BOOLEAN]
  /\ AnalysisOptions \subseteq
       [topN : Nat, estimate : BOOLEAN, duplicates : BOOLEAN, abort : BOOLEAN, maxErrors : Nat,
        maxGroups : Nat, workers : Nat]

VARIABLES
  kind,             (* What the running or last call is.                     *)
  calm,             (* Has the disk been left alone since that call began?   *)
  counted, previewed  (* What the last analysis without an error counted and *)
                    (* the last dry run listed, on the disk as it is: Options. *)

history == <<kind, calm, counted, previewed>>
allVars == <<world, callVars, removeVars, analysisVars, history>>

Init ==
  /\ disk \in Disks /\ edits = 0
  /\ query \in Queries
  /\ calls = 0 /\ pc = "idle" /\ at = 1 /\ cancelled = FALSE /\ answer = "ok"
  /\ RemoveInit /\ AnalysisInit
  /\ kind = "none" /\ calm = TRUE /\ counted = {} /\ previewed = {}

(* The caller is done with the last answer when the next call starts.       *)
StartCall ==
  \/ \E o \in RemoveOptions : StartRemove(o) /\ kind' = "remove" /\ ForgetReport
  \/ \E p \in AnalysisOptions : StartAnalysis(p) /\ kind' = "analyze" /\ ForgetRemoval

CallStep ==
  \/ kind = "remove" /\ RemoveStep /\ UNCHANGED analysisVars
  \/ kind = "analyze" /\ AnalysisStep /\ UNCHANGED removeVars

Others ==
  \/ Cancel /\ UNCHANGED <<removeVars, analysisVars>>
  \/ \E o \in Objects, c \in Content \cup {Gone} :
       Edit(o, c) /\ UNCHANGED <<removeVars, analysisVars>>

(* A finished call leaves its answer behind, unless the disk changed.       *)
Resolved == pc # "idle" /\ pc' = "idle" /\ answer' = "ok" /\ calm
Remember ==
  /\ calm' = (calm /\ disk' = disk)
  /\ counted' = IF disk' # disk THEN {}
                ELSE IF Resolved /\ kind = "analyze" /\ acc'.errorsTotal = 0 /\ unread' = {}
                     THEN {ItemsOf(acc'.seen)} ELSE counted
  /\ previewed' = IF disk' # disk THEN {}
                  ELSE IF Resolved /\ kind = "remove" /\ opts.dry THEN {outcome'.previewed} ELSE previewed

(* The caller polls a handle that is pending, or is done.                   *)
Waits == (pc # "idle" \/ calls = Calls) /\ UNCHANGED allVars

Next ==
  \/ StartCall /\ calm' = TRUE /\ UNCHANGED <<counted, previewed>>
  \/ (CallStep \/ Others) /\ UNCHANGED kind /\ Remember
  \/ Waits

(* Threads of the pools and tasks run on; the caller need not do anything.  *)
Spec == Init /\ [][Next]_allVars /\ WF_allVars(CallStep /\ UNCHANGED kind /\ Remember)

-----------------------------------------------------------------------------
(* Dry run and real call agree: on an unchanged disk a removal takes up     *)
(* exactly what the last preview listed, and the preview lists all that     *)
(* analyze() counted.  It lists no more, unless a pattern names a           *)
(* directory or a link to one: analyze() leaves out what is inside then.    *)
PreviewForetells ==
  /\ pc = "delete" => \A p \in previewed : todo \cup outcome.failed = p
  /\ \A c \in counted, p \in previewed :
       ~Single => /\ c \subseteq p
                  /\ (\A d \in Item : Kind[d] \in {"dir", "dirlink"} => ~IsExcluded(d)) => c = p

(* What remove() says it removed, failed or only listed is what happened to *)
(* the disk (see RemovalIsTold), and nothing else is said.                  *)
RemovalTold == kind = "remove" => RemovalIsTold

(* The report of analyze() counts what was there, each thing once, and is   *)
(* complete but for what an error or an unreadable directory hid; the code  *)
(* does not count the latter as an error (README, section 6.20).            *)
Exact == kind = "analyze" => ReportIsExact /\ ReportIsWhole

(* Groups of duplicates hold files with equal contents, and only those.     *)
Duplicates == kind = "analyze" => DuplicatesAreTrue

(* Every call resolves: no walk, pool of workers or stop holds it for ever. *)
CallsEnd == pc # "idle" ~> pc = "idle"
=============================================================================

------------------------------- MODULE Remove -------------------------------
(***************************************************************************)
(* operations/remove.rs: scan, filter, and either preview the matches or    *)
(* remove them, through the dispatcher, with an action whose undo does      *)
(* nothing.  Deletions run concurrently with each other and with whatever   *)
(* else happens to the disk; which of them the dispatcher still starts      *)
(* after a stop is left open.                                               *)
(***************************************************************************)
EXTENDS Selection

VARIABLES
  opts,       (* dry, hard, strategy, allow of the running or last call.     *)
  found,      (* Entries the scan collected.                                 *)
  todo,       (* Matched entries the dispatcher has not run.                 *)
  outcome,    (* RemoveOutcome.                                              *)
  unlinked    (* Entries this call really removed.                           *)

removeVars == <<opts, found, todo, outcome, unlinked>>

NoOutcome == [succeeded |-> {}, previewed |-> {}, failed |-> {}, stoppedEarly |-> None]

DefaultOptions ==
  [dry |-> TRUE, hard |-> FALSE, strategy |-> "ContinueAndCollect", allow |-> FALSE]

RemoveInit ==
  /\ opts = DefaultOptions
  /\ found = {} /\ todo = {} /\ outcome = NoOutcome /\ unlinked = {}

(* The caller drops the outcome.                                            *)
ForgetRemoval ==
  /\ opts' = DefaultOptions
  /\ found' = {} /\ todo' = {} /\ outcome' = NoOutcome /\ unlinked' = {}

(* start(): an unconfigured filter matching everything is refused.          *)
CriteriaMissing_Never(o) == FALSE
CriteriaMissing(o) == IsEmpty(query.filter) /\ ~o.allow

StartRemove(o) ==
  /\ pc = "idle" /\ calls < Calls
  /\ calls' = calls + 1 /\ at' = 1 /\ cancelled' = FALSE
  /\ opts' = o /\ found' = {} /\ todo' = {} /\ outcome' = NoOutcome /\ unlinked' = {}
  /\ IF CriteriaMissing(o) THEN Resolve("RemoveCriteriaRequired")
     ELSE pc' = "scan" /\ UNCHANGED answer
  /\ UNCHANGED <<world, query>>

(* One item of scan_blocking; any error of the walk ends the call.          *)
ScanItem(broken) ==
  /\ pc = "scan" /\ ~Walked
  /\ at' = at + 1
  /\ broken => Here \in Flaky /\ (TypeOf(Here) = "dir" => Opened(Here))
  /\ IF Met(Here) /\ (broken \/ TypeOf(Here) = "error")
     THEN Resolve("io") /\ UNCHANGED found
     ELSE /\ found' = IF Met(Here) /\ TypeOf(Here) = "file"
                      THEN found \cup {EntryAt(Here)} ELSE found
          /\ UNCHANGED <<pc, answer>>
  /\ UNCHANGED <<world, query, calls, cancelled, opts, todo, outcome, unlinked>>

Matched_All == found
Matched == {e \in found : Passes(e) /\ ~IsExcluded(e.item)}

Previews_Never == FALSE
Previews == opts.dry

(* The scan is over: filter, and preview or hand the matches to dispatch.   *)
MatchEntries ==
  /\ pc = "scan" /\ Walked
  /\ IF ~Compiles THEN Resolve("InvalidGlobPattern") /\ UNCHANGED <<todo, outcome>>
     ELSE IF Previews
     THEN /\ outcome' = [outcome EXCEPT !.previewed = ItemsOf(Matched)]
          /\ Resolve("ok") /\ UNCHANGED todo
     ELSE todo' = ItemsOf(Matched) /\ pc' = "delete" /\ UNCHANGED <<outcome, answer>>
  /\ UNCHANGED <<world, query, calls, at, cancelled, opts, found, unlinked>>

(* RemoveAction.execute.  A file that is not there any more is a failure,   *)
(* and a failure of the trash is never fatal.                               *)
CanResult_MissingOk(i, r) == r = "Fatal" => opts.hard
CanResult(i, r) ==
  (r = "Written" => disk[Object[i]] # Gone) /\ (r = "Fatal" => opts.hard)

RemoveEntry(i, r) ==
  /\ pc = "delete" /\ i \in todo /\ CanResult(i, r)
  /\ todo' = todo \ {i}
  /\ IF r = "Written"
     THEN /\ disk' = [disk EXCEPT ![Object[i]] = Gone]
          /\ unlinked' = IF disk[Object[i]] # Gone THEN unlinked \cup {i} ELSE unlinked
          /\ outcome' = [outcome EXCEPT !.succeeded = @ \cup {i}]
     ELSE /\ outcome' = [outcome EXCEPT !.failed = @ \cup {i},
                           !.stoppedEarly = IF @ = None THEN FailureReason(opts.strategy, r = "Fatal") ELSE @]
          /\ UNCHANGED <<disk, unlinked>>
  /\ UNCHANGED <<edits, callVars, opts, found>>

(* dispatch() returns; it clears succeeded after a rollback that, here,     *)
(* takes nothing back.                                                      *)
EndRemove ==
  LET reason == IF outcome.stoppedEarly = None /\ todo # {} THEN "Cancelled" ELSE outcome.stoppedEarly
  IN /\ pc = "delete" /\ (todo = {} \/ outcome.stoppedEarly # None \/ cancelled)
     /\ outcome' = [outcome EXCEPT !.stoppedEarly = reason,
                      !.succeeded = IF opts.strategy = "Undo" /\ reason # None THEN {} ELSE @]
     /\ Resolve("ok")
     /\ UNCHANGED <<world, query, calls, at, cancelled, opts, found, todo, unlinked>>

RemoveStep ==
  \/ \E broken \in BOOLEAN : ScanItem(broken)
  \/ MatchEntries
  \/ \E i \in todo, r \in {"Written", "Error", "Fatal"} : RemoveEntry(i, r)
  \/ EndRemove

-----------------------------------------------------------------------------
(* What the criteria rule out, one by one (docs/guide/operations.md and the *)
(* comments of RemoveBuilder): the entry is as the scan found it.           *)
RulesOut(f, e) ==
  \/ \E S \in f.extensions : Ext[e.item] \notin S \ {""}
  \/ \E min \in f.min : e.size < min
  \/ \E max \in f.max : e.size > max
  \/ \E t \in f.after \cup f.before : Modified[e.item] = {}
  \/ \E time \in Modified[e.item] : \/ \E t \in f.after : time < t
                                    \/ \E t \in f.before : time > t
  \/ \E p \in f.patterns : e.item \in Excluded[p]

(* Only what was asked for is removed, at any moment of any call: never in  *)
(* a dry run or without criteria, never past the depth, and never a link,   *)
(* or a file behind one, unless links are followed; nothing that the scan   *)
(* found and any criterion rules out, whatever became of the file since.    *)
OnlyAskedGo ==
  \A i \in unlinked :
    /\ ~opts.dry /\ (query.filter = NoFilter => opts.allow)
    /\ Single \/ (Within(i) /\ (Follow \/ (Kind[i] = "file" /\ ~Behind(i))))
    /\ \E e \in found : e.item = i /\ ~RulesOut(query.filter, e)

(* The outcome tells what is gone: the successes are exactly the entries    *)
(* this call removed, whoever else removes files, and without an early stop *)
(* every match has its verdict.  A stop under Undo withdraws the successes  *)
(* although the files stay gone.                                            *)
RemovalIsTold ==
  pc = "idle" /\ answer = "ok" /\ ~opts.dry =>
    /\ outcome.succeeded = IF opts.strategy = "Undo" /\ outcome.stoppedEarly # None
                           THEN {} ELSE unlinked
    /\ outcome.failed \cap unlinked = {}
    /\ outcome.stoppedEarly = None => todo = {}
=============================================================================

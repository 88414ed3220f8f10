-------------------------------- MODULE Sweep --------------------------------
(***************************************************************************)
(* The second half of every move that could not be a rename: copy the       *)
(* entries through the pipeline, then delete the original of each one that  *)
(* arrived, and under Undo put everything back when a deletion fails        *)
(* (sweep, rollback, remove_source and restore_source of move_path.rs).     *)
(* MovePath and MoveMany extend it with how they get there.                 *)
(*                                                                          *)
(* The outcome lists are sets: they are in completion order, which is any   *)
(* order, so the sweep and the rollback pick the next entry freely.         *)
(***************************************************************************)
EXTENDS Outcomes

CONSTANT File        (* Every file of every source.                          *)

VARIABLES
  strategy, overwrite, skipIdentical,   (* Options of the call.              *)
  phase,
  src,               (* Does each original exist?                            *)
  dest,              (* What its destination holds.                          *)
  dest0,             (* What it held when the call started.                  *)
  out,               (* The copy outcome, then the move's own.               *)
  identical,         (* Entries the copy left alone as identical.            *)
  cleanupFailed,     (* outcome.cleanup_failed.                              *)
  sweepLeft,         (* Succeeded entries the sweep has not reached.         *)
  swept,             (* The sweep's snapshot of succeeded.                   *)
  deleted,           (* deleted_paths of the sweep.                          *)
  rollLeft,          (* Entries the rollback has not reached.                *)
  undoErrors         (* Did any undo or restore fail (errors are ignored)?   *)

moveOptions == <<strategy, overwrite, skipIdentical, dest0>>
sweepVars == <<cleanupFailed, sweepLeft, swept, deleted, rollLeft>>
moveVars == <<moveOptions, phase, src, dest, out, identical, sweepVars, undoErrors>>

Contents == {"absent", "other", "same", "copy", "partial"}
Whole == {"same", "copy"}            (* These hold the original's bytes.     *)
HasBytes(e) == dest[e] \in Whole

MoveInit ==
  /\ strategy \in Strategies /\ overwrite \in BOOLEAN /\ skipIdentical \in BOOLEAN
  /\ src = [e \in File |-> TRUE]
  /\ dest \in [File -> {"absent", "other", "same"}] /\ dest0 = dest
  /\ out = EmptyOutcome /\ identical = {} /\ cleanupFailed = {}
  /\ sweepLeft = {} /\ swept = {} /\ deleted = {} /\ rollLeft = {}
  /\ undoErrors = FALSE

(* resolve_existing_dest_conflict: only a single file can conflict with     *)
(* what its destination holds, and an identical destination settles the     *)
(* move by removing the source.                                             *)
Conflicts_Never(single, held) == FALSE
Conflicts(single, held) == single /\ held # "absent"
SettlesAsMoved_AnyContent(held) == skipIdentical /\ held # "dir"
SettlesAsMoved(held) == skipIdentical /\ held \in Whole

Writable(e) == overwrite \/ dest0[e] = "absent"

(* What entry e's destination may hold after a copy phase that answered o:  *)
(* an entry in no list was never started, or was written and rolled back.   *)
AfterCopy(e, o) ==
  CASE e \in o.succeeded -> {"copy"}
    [] e \in o.skipped -> {dest0[e]}
    [] e \in o.failed -> {dest0[e]} \cup (IF Writable(e) THEN {"partial"} ELSE {})
    [] OTHER -> {dest0[e]} \cup
                (IF strategy = "Undo" /\ o.stoppedEarly # None /\ Writable(e)
                 THEN {"absent", "copy"} ELSE {})

Possible(e, o) ==
  /\ e \in o.succeeded => Writable(e)
  /\ e \in o.skipped => ~overwrite /\ skipIdentical /\ dest0[e] = "same"

(* run_copy_pipeline, or the error of its scan or validation.               *)
Copy(W) ==
  /\ phase = "copy"
  /\ \/ \E o \in CopyOutcomes(W, strategy) :
          /\ \A e \in W : Possible(e, o)
          /\ out' = [o EXCEPT !.skipped = {}]
          /\ identical' = o.skipped
          /\ dest' \in {d \in [File -> Contents] :
                          \A e \in File : d[e] \in IF e \in W THEN AfterCopy(e, o) ELSE {dest[e]}}
          /\ undoErrors' = \E e \in W \ (o.succeeded \cup o.skipped \cup o.failed) : dest'[e] = "copy"
          /\ sweepLeft' = o.succeeded /\ swept' = o.succeeded
          /\ phase' = IF o.succeeded = {} THEN "returned" ELSE "sweep"
     \/ phase' = "error" /\ UNCHANGED <<out, identical, dest, undoErrors, sweepLeft, swept>>
  /\ UNCHANGED <<moveOptions, src, cleanupFailed, deleted, rollLeft>>

(* remove_source, an original already gone counts as removed.               *)
SweepRemove(e) ==
  /\ phase = "sweep" /\ e \in sweepLeft
  /\ src' = [src EXCEPT ![e] = FALSE]
  /\ deleted' = deleted \cup {e}
  /\ sweepLeft' = sweepLeft \ {e}
  /\ phase' = IF sweepLeft' = {} THEN "returned" ELSE "sweep"
  /\ UNCHANGED <<moveOptions, dest, out, identical, cleanupFailed, swept, rollLeft, undoErrors>>

RollsBackSweep_OnUndoOnly(reason) == reason = "Undo"
RollsBackSweep(reason) == strategy = "Undo" /\ reason # None

RollbackSet_Untouched == swept \ deleted
RollbackSet == swept

SweepFail(e, fatal) ==
  LET reason == FailureReason(strategy, fatal) IN
  /\ phase = "sweep" /\ e \in sweepLeft
  /\ cleanupFailed' = cleanupFailed \cup {e}
  /\ out' = [out EXCEPT !.stoppedEarly = IF out.stoppedEarly = None
                                            THEN reason ELSE out.stoppedEarly]
  /\ sweepLeft' = sweepLeft \ {e}
  /\ phase' = CASE RollsBackSweep(reason) -> "rollback"
                [] reason = None /\ sweepLeft' # {} -> "sweep"
                [] OTHER -> "returned"
  /\ rollLeft' = IF RollsBackSweep(reason) THEN RollbackSet ELSE {}
  /\ UNCHANGED <<moveOptions, src, dest, identical, swept, deleted, undoErrors>>

NeedsRestore_Never(e) == FALSE
NeedsRestore(e) == e \in deleted

(* restore_source: copy back, and only then remove the copy.                *)
RollbackRestore(e) ==
  /\ phase = "rollback" /\ e \in rollLeft /\ NeedsRestore(e)
  /\ rollLeft' = rollLeft \ {e}
  /\ \/ UNCHANGED <<src, dest>> /\ undoErrors' = TRUE             \* the copy back failed
     \/ src' = [src EXCEPT ![e] = TRUE] /\ UNCHANGED dest /\ undoErrors' = TRUE
     \/ src' = [src EXCEPT ![e] = TRUE] /\ dest' = [dest EXCEPT ![e] = "absent"]
          /\ UNCHANGED undoErrors
  /\ UNCHANGED <<moveOptions, phase, out, identical, cleanupFailed, sweepLeft, swept, deleted>>

(* CopyAction::undo, for an original the sweep did not delete.              *)
RollbackUndo(e) ==
  /\ phase = "rollback" /\ e \in rollLeft /\ ~NeedsRestore(e)
  /\ rollLeft' = rollLeft \ {e}
  /\ \/ UNCHANGED dest /\ undoErrors' = TRUE
     \/ dest' = [dest EXCEPT ![e] = "absent"] /\ UNCHANGED undoErrors
  /\ UNCHANGED <<moveOptions, phase, src, out, identical, cleanupFailed, sweepLeft, swept, deleted>>

RollbackDone ==
  /\ phase = "rollback" /\ rollLeft = {}
  /\ out' = [out EXCEPT !.succeeded = {}]
  /\ cleanupFailed' = {}
  /\ phase' = "returned"
  /\ UNCHANGED <<moveOptions, src, dest, identical, sweepLeft, swept, deleted, rollLeft, undoErrors>>

SweepAndRollback ==
  \/ \E e \in File : SweepRemove(e) \/ (\E fatal \in BOOLEAN : SweepFail(e, fatal))
                     \/ RollbackRestore(e) \/ RollbackUndo(e)
  \/ RollbackDone

-----------------------------------------------------------------------------
(* The bytes of e exist in full at its source or where the copy put them.   *)
Safe(e) == src[e] \/ HasBytes(e)

(* An original is gone only if the outcome says it moved, or says nothing   *)
(* because a rollback could not restore it.                                 *)
GoneIsReported ==
  phase = "returned" => \A e \in swept : ~src[e] => e \in out.succeeded \/ undoErrors

(* After a rollback under Undo with overwrite off, and no undo failing,     *)
(* every swept entry is back at its source and gone from its destination.   *)
UndoPutsBack ==
  phase = "returned" /\ strategy = "Undo" /\ out.stoppedEarly # None /\ ~undoErrors /\ ~overwrite =>
    \A e \in swept : src[e] /\ dest[e] = dest0[e]
=============================================================================

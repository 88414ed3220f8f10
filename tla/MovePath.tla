------------------------------ MODULE MovePath ------------------------------
(***************************************************************************)
(* operations/move_path.rs: move one file or directory.  A conflict at the  *)
(* destination of a single file is settled first, then one rename is tried, *)
(* and only a cross-device rename falls back to copy, sweep and rollback.   *)
(*                                                                          *)
(* A single file has two destinations.  The conflict check and the rename   *)
(* act on the path dest itself ("target").  The fallback takes dest for a   *)
(* directory and copies to dest/<name of the source>, which is dest[Single] *)
(* here.  The files of a directory only have the second one.                *)
(***************************************************************************)
EXTENDS Sweep

CONSTANTS
  Single,        (* The file that is moved when the source is a file.       *)
  MayAlias,      (* May source and target name the same file?               *)
  Intrusions     (* Bound on the files another process creates meanwhile.   *)

ASSUME MovePathAssumption ==
  Single \in File /\ MayAlias \in BOOLEAN /\ Intrusions \in Nat

VARIABLES
  isFile,            (* Is the source a single file?                        *)
  aliased,           (* Do source and target name the same file?            *)
  target, target0,   (* What the target of a single file holds, and what it *)
                     (* held when the call started.                         *)
  intruded,          (* How many files another process created, and was one *)
  late               (* created at the target after the conflict check?     *)

pathVars == <<isFile, aliased, target, target0, intruded, late>>
vars == <<moveVars, pathVars>>

Moving == IF isFile THEN {Single} ELSE File
Targets == {"absent", "other", "same", "copy", "dir"}

(* Below a target that is no directory there is nothing.  A same-name       *)
(* source and target hold the same bytes.                                   *)
Init ==
  /\ MoveInit /\ phase = "parent" /\ isFile \in BOOLEAN /\ intruded = 0 /\ late = FALSE
  /\ target \in (IF isFile THEN {"absent", "other", "same", "dir"} ELSE {"absent"})
  /\ target0 = target
  /\ aliased \in (IF MayAlias THEN BOOLEAN ELSE {FALSE})
  /\ aliased => isFile /\ target = "same"
  /\ isFile => \A e \in File : (e = Single => target # "dir") => dest[e] = "absent"

Untouched == UNCHANGED <<moveOptions, out, identical, sweepVars, undoErrors, isFile, aliased,
                         target0, intruded, late>>

MakeParent ==
  /\ phase = "parent"
  /\ phase' \in {IF overwrite THEN "rename" ELSE "conflict", "error"}
  /\ UNCHANGED <<src, dest, target>> /\ Untouched

(* resolve_existing_dest_conflict; io errors also end the call.             *)
ResolveConflict ==
  /\ phase = "conflict"
  /\ \/ /\ ~Conflicts(isFile, target)
        /\ phase' = "rename" /\ UNCHANGED <<src, target>>
     \/ /\ Conflicts(isFile, target) /\ SettlesAsMoved(target)
        /\ phase' = "returned"
        /\ src' = [src EXCEPT ![Single] = FALSE]
        /\ target' = IF aliased THEN "absent" ELSE target
     \/ phase' = "error" /\ UNCHANGED <<src, target>>
  /\ UNCHANGED dest /\ Untouched

(* rename(2): a file replaces a file and never a directory; a directory     *)
(* only replaces an empty one.                                              *)
RenameFile ==
  /\ isFile /\ target # "dir"
  /\ src' = [src EXCEPT ![Single] = aliased] /\ target' = "copy" /\ UNCHANGED dest

RenameTree ==
  /\ ~isFile /\ \A e \in File : dest[e] = "absent"
  /\ src' = [e \in File |-> FALSE] /\ dest' = [e \in File |-> "copy"] /\ UNCHANGED target

Rename ==
  /\ phase = "rename"
  /\ \/ phase' = "returned" /\ (RenameFile \/ RenameTree)
     \/ ~aliased /\ phase' = "copy" /\ UNCHANGED <<src, dest, target>>     \* EXDEV
     \/ phase' = "error" /\ UNCHANGED <<src, dest, target>>
  /\ Untouched

(* The fallback makes the target of a single file a directory, as soon as   *)
(* it starts on the file; if it is a file already, the copy fails.          *)
CopyBelow ==
  /\ Copy(Moving)
  /\ target' \in IF isFile /\ target = "absent" /\ phase' # "error"
                 THEN {"absent", "dir"} ELSE {target}
  /\ isFile /\ dest'[Single] # "absent" => target' = "dir"
  /\ UNCHANGED <<isFile, aliased, target0, intruded, late>>

(* Another process creates a file at the target, or where one is going.     *)
Intrude ==
  /\ phase \in {"parent", "conflict", "rename", "copy"} /\ intruded < Intrusions
  /\ intruded' = intruded + 1
  /\ UNCHANGED <<strategy, overwrite, skipIdentical, phase, src, out, identical, sweepVars,
                 undoErrors, isFile, aliased>>

IntrudeTarget ==
  /\ Intrude /\ isFile /\ target = "absent"
  /\ target' = "other" /\ target0' = "other" /\ late' = (late \/ phase = "rename")
  /\ UNCHANGED <<dest, dest0>>

IntrudeBelow(e) ==
  /\ Intrude /\ e \in Moving /\ dest[e] = "absent" /\ (isFile => target = "dir")
  /\ dest' = [dest EXCEPT ![e] = "other"] /\ dest0' = [dest0 EXCEPT ![e] = "other"]
  /\ UNCHANGED <<target, target0, late>>

Finished == phase \in {"returned", "error"} /\ UNCHANGED vars

Next ==
  \/ MakeParent \/ ResolveConflict \/ Rename \/ CopyBelow \/ IntrudeTarget \/ Finished
  \/ \E e \in File : IntrudeBelow(e)
  \/ SweepAndRollback /\ UNCHANGED pathVars

Spec == Init /\ [][Next]_vars

-----------------------------------------------------------------------------
AtTarget(e) == isFile /\ e = Single /\ target \in Whole

(* At every moment of a move, whatever fails and whenever it stops, each    *)
(* file's bytes exist in full at its source or at a destination.            *)
NoFileLost == \A e \in File : Safe(e) \/ AtTarget(e)

(* Without overwrite no file at a destination changes, whether it was there *)
(* at first or another process created it meanwhile: not on the rename path *)
(* (rename(2) would replace it silently), not in the fallback or its        *)
(* rollback, and never below a directory.  The one exception is a file      *)
(* created at the target of a single file between the conflict check and    *)
(* the rename.                                                              *)
ExistingKept ==
  ~overwrite =>
    /\ \A e \in File : dest0[e] # "absent" => dest[e] = dest0[e]
    /\ target0 # "absent" => target = target0 \/ late

Landed(e) == IF isFile /\ target # "dir" THEN AtTarget(e) ELSE HasBytes(e)
Clean == phase = "returned" /\ out.stoppedEarly = None /\ out.failed = {} /\ cleanupFailed = {}

(* A move that reports nothing wrong brought every file's bytes to its      *)
(* destination: for a single file to the target, or below it when it is, or *)
(* the fallback made it, a directory.  And each original is gone, except    *)
(* those the fallback found identical, which the code leaves at the source  *)
(* (README, section 6.3).                                                   *)
CleanMoveMovesAll ==
  Clean => \A e \in Moving : Landed(e) /\ (~src[e] \/ aliased \/ e \in identical)

(* skip_if_identical leaves the already identical destination alone.        *)
IdenticalDestLeftAlone ==
  skipIdentical /\ ~overwrite =>
    /\ target0 = "same" => target \in Whole
    /\ \A e \in Moving : dest0[e] = "same" => HasBytes(e)
=============================================================================

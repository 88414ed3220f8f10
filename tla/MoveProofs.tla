------------------------------ MODULE MoveProofs ------------------------------
(***************************************************************************)
(* What the two moves keep true for any files, options and failures: first  *)
(* the lemmas they share about the copy phase, the deletion sweep and the   *)
(* rollback; then one file or directory, with any intrusions, when source   *)
(* and destination are not two names of one file (MovePathAlias shows what  *)
(* happens when they are); then a batch of any sources.                     *)
(***************************************************************************)
EXTENDS MovePath, MoveMany, TLAPS

CopyOutcome(W) ==
  [succeeded : SUBSET W, skipped : SUBSET W, failed : SUBSET W, stoppedEarly : Reasons \cup {None}]

MoveTypes ==
  /\ strategy \in Strategies /\ overwrite \in BOOLEAN /\ skipIdentical \in BOOLEAN
  /\ src \in [File -> BOOLEAN] /\ dest \in [File -> Contents]
  /\ dest0 \in [File -> {"absent", "other", "same"}]
  /\ out \in CopyOutcome(File) /\ undoErrors \in BOOLEAN
  /\ swept \subseteq File

(* The copy phase reached these entries and the sweep none of the others.   *)
Early(p) == p \notin {"sweep", "rollback", "returned", "error"}

(* An entry the sweep has not reached has its bytes at the destination, and *)
(* one it did not delete has its original: so either side may go first.     *)
BytesInv ==
  /\ phase = "sweep" => sweepLeft \subseteq swept /\ \A e \in sweepLeft : HasBytes(e)
  /\ phase = "rollback" => rollLeft \subseteq swept
  /\ phase \in {"sweep", "rollback"} => \A e \in swept \ deleted : src[e]

(* What was swept is what the outcome lists, until a rollback clears it.    *)
ReportInv ==
  /\ Early(phase) => swept = {}
  /\ phase = "sweep" => swept = out.succeeded
  /\ phase = "rollback" => \A e \in swept \ rollLeft : src[e] \/ undoErrors
  /\ GoneIsReported

(* A sweep under Undo starts only after a copy that was not stopped, and    *)
(* without overwrite it copied to places where there was nothing.           *)
UndoInv ==
  /\ phase = "sweep" /\ strategy = "Undo" => out.stoppedEarly = None
  /\ phase \in {"sweep", "rollback"} /\ ~overwrite => \A e \in swept : dest0[e] = "absent"
  /\ phase = "rollback" =>
       \A e \in swept \ rollLeft : undoErrors \/ (src[e] /\ dest[e] = "absent")
  /\ UndoPutsBack

SweepInv == MoveTypes /\ BytesInv /\ ReportInv /\ UndoInv

-----------------------------------------------------------------------------
(* What the pipeline answers is about the files it was given; under Undo a  *)
(* stopped copy lists nothing as copied, one not stopped lists every file.  *)
LEMMA CopyOutcomeFacts ==
  ASSUME NEW W, NEW s \in Strategies, NEW o \in CopyOutcomes(W, s)
  PROVE  /\ o \in CopyOutcome(W)
         /\ o.succeeded \cap o.skipped = {} /\ o.succeeded \cap o.failed = {}
         /\ o.skipped \cap o.failed = {}
         /\ s = "Undo" /\ o.stoppedEarly # None => o.succeeded = {}
         /\ o.stoppedEarly = None => o.succeeded \cup o.skipped \cup o.failed = W
<1>1. CASE o \in DispatchOutcomes(W, s)
  <2>1. IsDispatchOutcome(o, W, s)
    BY <1>1 DEF DispatchOutcomes
  <2>2. o \in CopyOutcome(W)
    BY <1>1 DEF DispatchOutcomes, CopyOutcome
  <2> QED
    BY <2>1, <2>2 DEF IsDispatchOutcome
<1>2. CASE \E r \in {StrategyReason(s)} \ {None} : o = [EmptyOutcome EXCEPT !.stoppedEarly = r]
  <2>1. PICK r \in {StrategyReason(s)} \ {None} : o = [EmptyOutcome EXCEPT !.stoppedEarly = r]
    BY <1>2
  <2>2. r \in Reasons /\ r # None
    BY <2>1 DEF StrategyReason, Strategies, Reasons, None
  <2>3. o = [succeeded |-> {}, skipped |-> {}, failed |-> {}, stoppedEarly |-> r]
    BY <2>1 DEF EmptyOutcome
  <2> QED
    BY <2>2, <2>3 DEF CopyOutcome
<1> QED
  BY <1>1, <1>2 DEF CopyOutcomes

(* A move starts with every original in place.                              *)
LEMMA MoveInitInv ==
  ASSUME MoveInit, Early(phase)
  PROVE  SweepInv
<1>1. MoveTypes
  BY DEF MoveInit, MoveTypes, Contents, EmptyOutcome, CopyOutcome, None, Reasons
<1>2. BytesInv
  BY DEF BytesInv, Early
<1>3. ReportInv
  BY DEF MoveInit, ReportInv, Early, GoneIsReported
<1>4. UndoInv
  BY DEF MoveInit, UndoInv, Early, UndoPutsBack
<1> QED
  BY <1>1, <1>2, <1>3, <1>4 DEF SweepInv

(* A step that ends in an early phase, or ends the call before any sweep,   *)
(* keeps the invariant.                                                     *)
LEMMA EarlyStep ==
  ASSUME SweepInv, Early(phase), MoveTypes', swept' = swept,
         phase' \notin {"sweep", "rollback"}
  PROVE  SweepInv'
<1>1. swept = {} /\ swept' = {}
  BY DEF SweepInv, ReportInv
<1>2. BytesInv'
  BY DEF BytesInv
<1>3. ReportInv'
  BY <1>1 DEF ReportInv, GoneIsReported
<1>4. UndoInv'
  BY <1>1 DEF UndoInv, UndoPutsBack
<1> QED
  BY <1>2, <1>3, <1>4 DEF SweepInv

(* The copy of files whose originals are all there.                         *)
LEMMA CopyStep ==
  ASSUME NEW W \in SUBSET File, SweepInv, Copy(W), \A e \in W : src[e]
  PROVE  SweepInv'
<1> USE DEF SweepInv
<1>0. UNCHANGED <<moveOptions, src, cleanupFailed, deleted, rollLeft>> /\ phase = "copy" /\ Early(phase)
  BY DEF Copy, Early
<1>1. CASE phase' = "error" /\ UNCHANGED <<out, identical, dest, undoErrors, sweepLeft, swept>>
  <2>1. MoveTypes'
    BY <1>0, <1>1 DEF moveOptions, MoveTypes
  <2> QED
    BY <1>0, <1>1, <2>1, EarlyStep
<1>2. CASE phase' # "error"
  <2>1. PICK o \in CopyOutcomes(W, strategy) :
          /\ \A e \in W : Possible(e, o)
          /\ out' = [o EXCEPT !.skipped = {}]
          /\ dest' \in {d \in [File -> Contents] :
                          \A e \in File : d[e] \in IF e \in W THEN AfterCopy(e, o) ELSE {dest[e]}}
          /\ undoErrors' = \E e \in W \ (o.succeeded \cup o.skipped \cup o.failed) : dest'[e] = "copy"
          /\ sweepLeft' = o.succeeded /\ swept' = o.succeeded
          /\ phase' = IF o.succeeded = {} THEN "returned" ELSE "sweep"
    BY <1>2 DEF Copy
  <2>2. /\ o \in CopyOutcome(W) /\ o.succeeded \subseteq W
        /\ o.succeeded \cap o.skipped = {} /\ o.succeeded \cap o.failed = {}
        /\ strategy = "Undo" /\ o.stoppedEarly # None => o.succeeded = {}
    BY CopyOutcomeFacts DEF MoveTypes, CopyOutcome
  <2>3. out' = [succeeded |-> o.succeeded, skipped |-> {}, failed |-> o.failed,
                stoppedEarly |-> o.stoppedEarly]
    BY <2>1, <2>2 DEF CopyOutcome
  <2>4. MoveTypes'
    BY <1>0, <2>1, <2>2, <2>3 DEF MoveTypes, moveOptions, CopyOutcome
  <2>5. \A e \in o.succeeded : e \in W /\ dest'[e] = "copy"
    <3>1. ASSUME NEW e \in o.succeeded PROVE e \in W /\ dest'[e] = "copy"
      <4>1. e \in W /\ e \in File /\ AfterCopy(e, o) = {"copy"}
        BY <2>2 DEF AfterCopy
      <4>2. dest'[e] \in IF e \in W THEN AfterCopy(e, o) ELSE {dest[e]}
        BY <2>1, <4>1
      <4> QED
        BY <4>1, <4>2
    <3> QED
      BY <3>1
  <2>7. BytesInv'
    BY <1>0, <2>1, <2>5 DEF BytesInv, HasBytes, Whole
  <2>8. ReportInv'
    BY <1>0, <2>1, <2>3 DEF ReportInv, GoneIsReported, Early
  <2>9. ~overwrite => \A e \in o.succeeded : dest0[e] = "absent"
    BY <2>1, <2>5 DEF Possible, Writable
  <2>10. UNCHANGED <<strategy, overwrite, dest0>> /\ out'.stoppedEarly = o.stoppedEarly
    BY <1>0, <2>3 DEF moveOptions
  <2>11. phase' = "returned" => swept' = {}
    BY <2>1
  <2>12. phase' = "sweep" => o.succeeded # {}
    BY <2>1
  <2>13. phase' # "rollback" /\ swept' = o.succeeded
    BY <2>1
  <2>14. UndoInv'
    BY <2>2, <2>9, <2>10, <2>11, <2>12, <2>13 DEF UndoInv, UndoPutsBack
  <2> QED
    BY <2>4, <2>7, <2>8, <2>14
<1> QED
  BY <1>1, <1>2 DEF Copy

(* The copy loses nothing: it reads the originals it was given and leaves   *)
(* every other place alone.                                                 *)
LEMMA CopyKeeps ==
  ASSUME NEW W \in SUBSET File, Copy(W), \A e \in W : src[e], NEW e \in File, Safe(e)
  PROVE  Safe(e)'
<1>1. UNCHANGED src /\ (e \notin W => dest'[e] = dest[e])
  BY DEF Copy
<1> QED
  BY <1>1 DEF Safe, HasBytes

-----------------------------------------------------------------------------
LEMMA RemoveStep ==
  ASSUME SweepInv, NEW e \in File, SweepRemove(e)
  PROVE  SweepInv'
<1> USE DEF SweepInv, SweepRemove
<1>1. MoveTypes'
  BY DEF MoveTypes, moveOptions
<1>2. BytesInv'
  BY DEF MoveTypes, BytesInv, HasBytes
<1>3. ReportInv'
  BY DEF ReportInv, GoneIsReported, Early
<1>4. UndoInv'
  BY DEF UndoInv, UndoPutsBack, moveOptions
<1> QED
  BY <1>1, <1>2, <1>3, <1>4

LEMMA FailStep ==
  ASSUME SweepInv, NEW e \in File, NEW fatal \in BOOLEAN, SweepFail(e, fatal)
  PROVE  SweepInv'
<1> USE DEF SweepInv
<1> DEFINE reason == FailureReason(strategy, fatal)
<1>1. reason \in Reasons \cup {None} /\ (strategy = "Undo" => reason # None)
  BY DEF MoveTypes, Strategies, FailureReason, StrategyReason, Reasons, None
<1>2. out' = [out EXCEPT !.stoppedEarly = IF out.stoppedEarly = None THEN reason ELSE out.stoppedEarly]
  BY DEF SweepFail
<1>3. out'.succeeded = out.succeeded /\ out' \in CopyOutcome(File)
  BY <1>1, <1>2 DEF MoveTypes, CopyOutcome
<1>4. /\ phase = "sweep" /\ sweepLeft' = sweepLeft \ {e}
      /\ UNCHANGED <<moveOptions, src, dest, identical, swept, deleted, undoErrors>>
      /\ phase' \in {"sweep", "rollback", "returned"}
      /\ phase' = "rollback" => rollLeft' = swept
      /\ strategy = "Undo" => phase' = "rollback"
  BY <1>1 DEF SweepFail, RollsBackSweep, RollbackSet
<1>5. MoveTypes'
  BY <1>3, <1>4 DEF MoveTypes, moveOptions
<1>6. BytesInv'
  BY <1>4 DEF BytesInv, HasBytes
<1>7. ReportInv'
  BY <1>3, <1>4 DEF ReportInv, GoneIsReported, Early
<1>8. UndoInv'
  BY <1>4 DEF UndoInv, UndoPutsBack, moveOptions
<1> QED
  BY <1>5, <1>6, <1>7, <1>8

LEMMA RollbackStep ==
  ASSUME SweepInv, NEW e \in File, RollbackRestore(e) \/ RollbackUndo(e)
  PROVE  SweepInv'
<1> USE DEF SweepInv
<1>1. /\ phase = "rollback" /\ phase' = "rollback" /\ e \in rollLeft /\ rollLeft' = rollLeft \ {e}
      /\ UNCHANGED <<moveOptions, out, swept, deleted>>
  BY DEF RollbackRestore, RollbackUndo
<1>2. \/ UNCHANGED <<src, dest>> /\ undoErrors' = TRUE
      \/ src' = [src EXCEPT ![e] = TRUE] /\ UNCHANGED dest /\ undoErrors' = TRUE
      \/ src' = [src EXCEPT ![e] = TRUE] /\ dest' = [dest EXCEPT ![e] = "absent"] /\ UNCHANGED undoErrors
      \/ UNCHANGED src /\ src[e] /\ dest' = [dest EXCEPT ![e] = "absent"] /\ UNCHANGED undoErrors
  BY DEF RollbackRestore, RollbackUndo, NeedsRestore, BytesInv
<1>3. MoveTypes'
  BY <1>1, <1>2 DEF MoveTypes, moveOptions, Contents
<1>4. BytesInv'
  BY <1>1, <1>2 DEF BytesInv, HasBytes, MoveTypes
<1>5. ReportInv'
  BY <1>1, <1>2 DEF ReportInv, GoneIsReported, Early, MoveTypes
<1>6. UndoInv'
  BY <1>1, <1>2 DEF UndoInv, UndoPutsBack, moveOptions, MoveTypes
<1> QED
  BY <1>3, <1>4, <1>5, <1>6

LEMMA RollbackDoneStep ==
  ASSUME SweepInv, RollbackDone
  PROVE  SweepInv'
<1> USE DEF SweepInv
<1>1. /\ phase = "rollback" /\ rollLeft = {} /\ phase' = "returned"
      /\ UNCHANGED <<moveOptions, src, dest, swept, deleted, undoErrors>>
      /\ out' = [out EXCEPT !.succeeded = {}]
  BY DEF RollbackDone
<1>2. MoveTypes'
  BY <1>1 DEF MoveTypes, moveOptions, CopyOutcome
<1>3. BytesInv'
  BY <1>1 DEF BytesInv, HasBytes
<1>4. ReportInv'
  BY <1>1 DEF ReportInv, GoneIsReported, Early
<1>5. UndoInv'
  BY <1>1 DEF UndoInv, UndoPutsBack, moveOptions
<1> QED
  BY <1>2, <1>3, <1>4, <1>5

(* The sweep and the rollback, whatever fails and in whatever order.        *)
LEMMA SweepStep ==
  ASSUME SweepInv, SweepAndRollback
  PROVE  SweepInv'
  BY RemoveStep, FailStep, RollbackStep, RollbackDoneStep DEF SweepAndRollback

(* An original is deleted only when its bytes arrived, and a copy removed   *)
(* only when the original is back.                                          *)
LEMMA SweepKeeps ==
  ASSUME SweepInv, SweepAndRollback, NEW e \in File, Safe(e)
  PROVE  Safe(e)'
<1> USE DEF SweepInv
<1>1. ASSUME NEW x \in File, SweepRemove(x) PROVE Safe(e)'
  BY <1>1 DEF SweepRemove, Safe, HasBytes, BytesInv, MoveTypes
<1>2. ASSUME NEW x \in File, NEW fatal \in BOOLEAN, SweepFail(x, fatal) PROVE Safe(e)'
  BY <1>2 DEF SweepFail, Safe, HasBytes
<1>3. ASSUME NEW x \in File, RollbackRestore(x) PROVE Safe(e)'
  BY <1>3 DEF RollbackRestore, Safe, HasBytes, MoveTypes
<1>4. ASSUME NEW x \in File, RollbackUndo(x) PROVE Safe(e)'
  BY <1>4 DEF RollbackUndo, NeedsRestore, Safe, HasBytes, BytesInv, MoveTypes
<1>5. CASE RollbackDone
  BY <1>5 DEF RollbackDone, Safe, HasBytes
<1> QED
  BY <1>1, <1>2, <1>3, <1>4, <1>5 DEF SweepAndRollback

-----------------------------------------------------------------------------
(* The move of one path.                                                    *)
(* Until the rename or the copy nothing has moved, nothing is below a       *)
(* target that is no directory, and a rename that may not overwrite follows *)
(* a look at the target.                                                    *)
StartInv ==
  /\ isFile \in BOOLEAN /\ aliased = FALSE /\ late \in BOOLEAN /\ target \in Targets
  /\ Early(phase) =>
       /\ dest = dest0 /\ target = target0 /\ \A e \in File : src[e]
       /\ isFile /\ target # "dir" => dest[Single] = "absent"
  /\ phase = "rename" /\ ~overwrite /\ isFile => target = "absent" \/ late

(* While everything goes well each file was swept or is identical.          *)
CleanInv ==
  /\ phase = "rollback" => out.stoppedEarly # None
  /\ phase = "sweep" /\ out.stoppedEarly = None /\ out.failed = {} /\ cleanupFailed = {} =>
       /\ Moving = swept \cup identical
       /\ \A e \in Moving : HasBytes(e) /\ (isFile => target = "dir")
       /\ \A e \in swept \ sweepLeft : ~src[e]
  /\ CleanMoveMovesAll

PathInv == SweepInv /\ NoFileLost /\ StartInv /\ ExistingKept /\ CleanInv

LEMMA PathInitInv ==
  ASSUME MayAlias = FALSE, Init
  PROVE  PathInv
<1>1. SweepInv
  BY MoveInitInv DEF Init, Early
<1>2. NoFileLost
  BY DEF Init, MoveInit, NoFileLost, Safe
<1>3. StartInv
  BY MovePathAssumption DEF Init, MoveInit, StartInv, Targets
<1> QED
  BY <1>1, <1>2, <1>3 DEF Init, MoveInit, PathInv, ExistingKept, CleanInv, CleanMoveMovesAll, Clean

-----------------------------------------------------------------------------
LEMMA MakeParentStep == ASSUME PathInv, MakeParent PROVE PathInv'
<1> USE DEF PathInv
<1>1. /\ phase = "parent" /\ phase' \in {"rename", "conflict", "error"}
      /\ phase' = "rename" => overwrite
      /\ UNCHANGED <<src, dest, moveOptions, out, identical, sweepVars, undoErrors, pathVars>>
  BY DEF MakeParent, Untouched, pathVars
<1>2. MoveTypes' /\ NoFileLost' /\ swept' = swept
  BY <1>1 DEF SweepInv, MoveTypes, NoFileLost, Safe, AtTarget, HasBytes, moveOptions, sweepVars, pathVars
<1>3. SweepInv'
  BY <1>1, <1>2, EarlyStep DEF Early
<1>4. StartInv' /\ ExistingKept' /\ CleanInv'
  BY <1>1 DEF StartInv, ExistingKept, CleanInv, CleanMoveMovesAll, Clean, Early, moveOptions, pathVars
<1> QED
  BY <1>2, <1>3, <1>4

LEMMA ResolveStep == ASSUME PathInv, ResolveConflict PROVE PathInv'
<1> USE DEF PathInv
<1>1. /\ phase = "conflict" /\ phase' \in {"rename", "returned", "error"}
      /\ UNCHANGED <<moveOptions, out, identical, sweepVars, undoErrors, pathVars>>
      /\ UNCHANGED dest
      /\ phase' # "returned" => UNCHANGED src
      /\ phase' = "rename" /\ isFile => target = "absent"
      /\ phase' = "returned" =>
           isFile /\ target \in Whole /\ src' = [src EXCEPT ![Single] = FALSE]
  BY DEF ResolveConflict, Untouched, Conflicts, SettlesAsMoved, StartInv, pathVars
<1>2. MoveTypes' /\ NoFileLost' /\ swept' = swept
  BY <1>1, MovePathAssumption
  DEF SweepInv, MoveTypes, NoFileLost, Safe, AtTarget, HasBytes, moveOptions, sweepVars, pathVars
<1>3. SweepInv'
  BY <1>1, <1>2, EarlyStep DEF Early
<1>4. StartInv' /\ ExistingKept'
  BY <1>1 DEF StartInv, ExistingKept, Early, moveOptions, pathVars
<1>5. CleanInv'
  BY <1>1, MovePathAssumption
  DEF CleanInv, CleanMoveMovesAll, Clean, Landed, AtTarget, Whole, Moving, pathVars, SweepInv, MoveTypes
<1> QED
  BY <1>2, <1>3, <1>4, <1>5

LEMMA RenameStep == ASSUME PathInv, Rename PROVE PathInv'
<1> USE DEF PathInv
<1>1. /\ phase = "rename" /\ Early(phase)
      /\ UNCHANGED <<moveOptions, out, identical, sweepVars, undoErrors, isFile, aliased, target0, late>>
      /\ swept' = swept /\ UNCHANGED overwrite /\ aliased = FALSE
  BY DEF Rename, Untouched, Early, sweepVars, moveOptions, StartInv
<1>2. CASE phase' \in {"copy", "error"} /\ UNCHANGED <<src, dest, target>>
  <2>1. MoveTypes' /\ NoFileLost'
    BY <1>1, <1>2 DEF SweepInv, MoveTypes, NoFileLost, Safe, AtTarget, HasBytes, moveOptions
  <2>2. SweepInv'
    BY <1>1, <1>2, <2>1, EarlyStep
  <2> QED
    BY <1>1, <1>2, <2>1, <2>2
    DEF StartInv, ExistingKept, CleanInv, CleanMoveMovesAll, Clean, Early, moveOptions
<1>3. CASE phase' = "returned" /\ RenameFile
  <2>1. /\ isFile /\ src' = [src EXCEPT ![Single] = FALSE] /\ target' = "copy" /\ UNCHANGED dest
    BY <1>1, <1>3 DEF RenameFile
  <2>2. MoveTypes' /\ NoFileLost'
    BY <1>1, <2>1, MovePathAssumption
    DEF SweepInv, MoveTypes, NoFileLost, Safe, AtTarget, HasBytes, Whole, moveOptions
  <2>3. SweepInv'
    BY <1>1, <1>3, <2>2, EarlyStep
  <2>4. StartInv'
    BY <1>1, <1>3, <2>1 DEF StartInv, Early, Targets
  <2>5. ExistingKept'
    BY <1>1, <2>1 DEF StartInv, ExistingKept, moveOptions
  <2>6. CleanInv'
    BY <1>1, <1>3, <2>1, MovePathAssumption
    DEF CleanInv, CleanMoveMovesAll, Landed, AtTarget, Whole, Moving, SweepInv, MoveTypes
  <2> QED
    BY <2>2, <2>3, <2>4, <2>5, <2>6
<1>4. CASE phase' = "returned" /\ RenameTree
  <2>1. /\ ~isFile /\ \A e \in File : dest[e] = "absent"
        /\ src' = [e \in File |-> FALSE] /\ dest' = [e \in File |-> "copy"] /\ UNCHANGED target
    BY <1>4 DEF RenameTree
  <2>2. MoveTypes' /\ NoFileLost'
    BY <1>1, <2>1
    DEF SweepInv, MoveTypes, NoFileLost, Safe, HasBytes, Whole, Contents, moveOptions
  <2>3. SweepInv'
    BY <1>1, <1>4, <2>2, EarlyStep
  <2>4. StartInv'
    BY <1>1, <1>4, <2>1 DEF StartInv, Early
  <2>5. ExistingKept'
    BY <1>1, <2>1 DEF StartInv, ExistingKept, moveOptions
  <2>6. CleanInv'
    BY <1>1, <1>4, <2>1 DEF CleanInv, CleanMoveMovesAll, Landed, HasBytes, Whole, Moving
  <2> QED
    BY <2>2, <2>3, <2>4, <2>5, <2>6
<1> QED
  BY <1>2, <1>3, <1>4 DEF Rename

LEMMA IntrudeStep ==
  ASSUME PathInv, IntrudeTarget \/ \E e \in File : IntrudeBelow(e)
  PROVE  PathInv'
<1> USE DEF PathInv
<1>1. /\ Early(phase) /\ phase' = phase /\ phase \notin {"sweep", "rollback", "returned"}
      /\ UNCHANGED <<strategy, overwrite, skipIdentical, src, out, identical, undoErrors, isFile,
                     aliased>>
      /\ swept' = swept
  BY DEF IntrudeTarget, IntrudeBelow, Intrude, Early, sweepVars
<1>2. CleanInv'
  BY <1>1 DEF CleanInv, CleanMoveMovesAll, Clean
<1>3. CASE IntrudeTarget
  <2>1. /\ target = "absent" /\ target' = "other" /\ target0' = "other" /\ UNCHANGED <<dest, dest0>>
        /\ late' = (late \/ phase = "rename") /\ isFile
    BY <1>3 DEF IntrudeTarget
  <2>2. MoveTypes' /\ NoFileLost'
    BY <1>1, <2>1 DEF SweepInv, MoveTypes, StartInv, NoFileLost, Safe
  <2>3. SweepInv'
    BY <1>1, <2>2, EarlyStep
  <2>4. StartInv' /\ ExistingKept'
    BY <1>1, <2>1 DEF StartInv, ExistingKept, Targets, Early
  <2> QED
    BY <1>2, <2>2, <2>3, <2>4
<1>4. ASSUME NEW e \in File, IntrudeBelow(e) PROVE PathInv'
  <2>1. /\ dest[e] = "absent" /\ (isFile => target = "dir") /\ UNCHANGED <<target, target0, late>>
        /\ dest' = [dest EXCEPT ![e] = "other"] /\ dest0' = [dest0 EXCEPT ![e] = "other"]
    BY <1>4 DEF IntrudeBelow
  <2>2. MoveTypes' /\ NoFileLost'
    BY <1>1, <2>1 DEF SweepInv, MoveTypes, StartInv, NoFileLost, Safe, Contents
  <2>3. SweepInv'
    BY <1>1, <2>2, EarlyStep
  <2>4. StartInv' /\ ExistingKept'
    BY <1>1, <2>1 DEF StartInv, ExistingKept, Early, SweepInv, MoveTypes
  <2> QED
    BY <1>2, <2>2, <2>3, <2>4
<1> QED
  BY <1>3, <1>4

LEMMA MovingIsFiles == Moving \subseteq File
  BY MovePathAssumption DEF Moving

(* The copy phase: nothing that existed is replaced, and a clean one brings *)
(* every file's bytes to its destination.                                   *)
LEMMA CopyPathStep == ASSUME PathInv, CopyBelow PROVE PathInv'
<1> USE DEF PathInv
<1>0. /\ Copy(Moving) /\ UNCHANGED <<isFile, aliased, target0, intruded, late>>
      /\ isFile /\ dest'[Single] # "absent" => target' = "dir"
      /\ target' = target \/ (target = "absent" /\ target' = "dir" /\ phase' # "error")
  BY DEF CopyBelow
<1>1. /\ phase = "copy" /\ Early(phase) /\ phase' \in {"sweep", "returned", "error"}
      /\ UNCHANGED <<moveOptions, src, cleanupFailed, deleted, rollLeft>>
      /\ dest = dest0 /\ target = target0 /\ \A e \in File : src[e]
  BY <1>0 DEF Copy, Early, StartInv
<1>2. SweepInv'
  BY <1>0, <1>1, MovingIsFiles, CopyStep
<1>3. StartInv' /\ NoFileLost'
  BY <1>0, <1>1 DEF StartInv, Early, NoFileLost, Safe, Targets
<1>4. Moving' = Moving
  BY <1>0 DEF Moving
<1>5. CASE phase' = "error" /\ UNCHANGED <<out, identical, dest, undoErrors, sweepLeft, swept>>
  BY <1>0, <1>1, <1>2, <1>3, <1>5
  DEF ExistingKept, CleanInv, CleanMoveMovesAll, Clean, moveOptions
<1>6. CASE phase' # "error"
  <2>1. PICK o \in CopyOutcomes(Moving, strategy) :
          /\ \A e \in Moving : Possible(e, o)
          /\ out' = [o EXCEPT !.skipped = {}] /\ identical' = o.skipped
          /\ dest' \in {d \in [File -> Contents] :
                 \A e \in File : d[e] \in IF e \in Moving THEN AfterCopy(e, o) ELSE {dest[e]}}
          /\ sweepLeft' = o.succeeded /\ swept' = o.succeeded
          /\ phase' = IF o.succeeded = {} THEN "returned" ELSE "sweep"
    BY <1>0, <1>6 DEF Copy
  <2>2. /\ o \in CopyOutcome(Moving)
        /\ o.succeeded \cap o.skipped = {} /\ o.succeeded \cap o.failed = {}
        /\ o.skipped \cap o.failed = {}
        /\ o.stoppedEarly = None => o.succeeded \cup o.skipped \cup o.failed = Moving
    BY CopyOutcomeFacts DEF SweepInv, MoveTypes
  <2>3. out'.stoppedEarly = o.stoppedEarly /\ out'.failed = o.failed
    BY <2>1, <2>2 DEF CopyOutcome
  <2>4. ExistingKept'
    <3>1. ASSUME NEW e \in File, ~overwrite, dest0[e] # "absent" PROVE dest'[e] = dest0[e]
      <4>1. CASE e \notin Moving
        BY <1>1, <2>1, <4>1
      <4>2. CASE e \in Moving
        <5>1. ~Writable(e) /\ e \notin o.succeeded
          BY <2>1, <3>1, <4>2 DEF Possible, Writable
        <5>2. AfterCopy(e, o) = {dest0[e]}
          BY <2>2, <5>1 DEF AfterCopy
        <5> QED
          BY <2>1, <4>2, <5>2
      <4> QED
        BY <4>1, <4>2
    <3> QED
      BY <1>0, <1>1, <3>1 DEF ExistingKept, moveOptions
  <2>5. ASSUME o.stoppedEarly = None, o.failed = {}, NEW e \in Moving
        PROVE  /\ HasBytes(e)' /\ (e \in o.succeeded \/ e \in o.skipped)
               /\ isFile => target' = "dir"
    <3>1. e \in o.succeeded \/ e \in o.skipped
      BY <2>2, <2>5
    <3>2. e \in o.succeeded => AfterCopy(e, o) = {"copy"}
      BY <2>2 DEF AfterCopy
    <3>3. e \in o.skipped => AfterCopy(e, o) = {"same"}
      BY <2>1, <2>2 DEF AfterCopy, Possible
    <3>4. dest'[e] \in AfterCopy(e, o)
      BY <2>1, <2>5, MovingIsFiles
    <3>5. dest'[e] \in Whole
      BY <3>1, <3>2, <3>3, <3>4 DEF Whole
    <3>6. isFile => e = Single
      BY <2>5 DEF Moving
    <3> QED
      BY <1>0, <3>1, <3>5, <3>6 DEF HasBytes, Whole
  <2>6. CleanInv'
    <3>1. phase' = "sweep" /\ out'.stoppedEarly = None /\ out'.failed = {} =>
            /\ Moving = swept' \cup identical'
            /\ \A e \in Moving : HasBytes(e)' /\ (isFile => target' = "dir")
            /\ swept' \ sweepLeft' = {}
      BY <2>1, <2>2, <2>3, <2>5 DEF CopyOutcome
    <3>2. CleanMoveMovesAll'
      BY <1>0, <1>4, <2>1, <2>3, <2>5 DEF CleanMoveMovesAll, Clean, Landed, HasBytes
    <3> QED
      BY <1>0, <1>1, <1>4, <3>1, <3>2 DEF CleanInv
  <2> QED
    BY <1>2, <1>3, <2>4, <2>6
<1> QED
  BY <1>0, <1>5, <1>6 DEF Copy

(* The sweep only deletes originals; the rollback only touches what this    *)
(* move copied.                                                             *)
LEMMA SweepPathStep ==
  ASSUME PathInv, SweepAndRollback, UNCHANGED pathVars
  PROVE  PathInv'
<1> USE DEF PathInv
<1>1. SweepInv' /\ UNCHANGED <<isFile, aliased, target, target0, late>>
  BY SweepStep DEF pathVars
<1>2. /\ phase \in {"sweep", "rollback"} /\ phase' \in {"sweep", "rollback", "returned"}
      /\ UNCHANGED <<moveOptions, identical>>
  BY DEF SweepAndRollback, SweepRemove, SweepFail, RollbackRestore, RollbackUndo, RollbackDone
<1>3. StartInv' /\ NoFileLost'
  <2>1. ASSUME NEW e \in File PROVE Safe(e)' \/ AtTarget(e)'
    BY <1>1, SweepKeeps DEF NoFileLost, AtTarget
  <2> QED
    BY <1>1, <1>2, <2>1 DEF StartInv, Early, NoFileLost
<1>4. Moving' = Moving
  BY <1>1 DEF Moving
<1>5. ASSUME NEW e \in File, SweepRemove(e) PROVE PathInv'
  <2>1. /\ phase = "sweep" /\ e \in sweepLeft /\ sweepLeft' = sweepLeft \ {e}
        /\ src' = [src EXCEPT ![e] = FALSE] /\ UNCHANGED <<dest, out, identical, cleanupFailed, swept>>
        /\ phase' = IF sweepLeft' = {} THEN "returned" ELSE "sweep"
    BY <1>5 DEF SweepRemove
  <2>2. ExistingKept'
    BY <1>1, <1>2, <2>1 DEF ExistingKept, moveOptions
  <2>3. CleanInv'
    BY <1>1, <1>4, <2>1
    DEF CleanInv, CleanMoveMovesAll, Clean, Landed, HasBytes, SweepInv, MoveTypes, BytesInv
  <2> QED
    BY <1>1, <1>3, <2>2, <2>3
<1>6. ASSUME NEW e \in File, NEW fatal \in BOOLEAN, SweepFail(e, fatal) PROVE PathInv'
  <2>1. /\ phase = "sweep" /\ UNCHANGED <<src, dest, swept, identical>>
        /\ cleanupFailed' = cleanupFailed \cup {e}
        /\ out' = [out EXCEPT !.stoppedEarly = IF out.stoppedEarly = None
                                 THEN FailureReason(strategy, fatal) ELSE out.stoppedEarly]
        /\ phase' = "rollback" => FailureReason(strategy, fatal) # None
    BY <1>6 DEF SweepFail, RollsBackSweep
  <2>2. phase' = "rollback" => out'.stoppedEarly # None
    BY <2>1 DEF SweepInv, MoveTypes, CopyOutcome
  <2>3. ExistingKept'
    BY <1>1, <1>2, <2>1 DEF ExistingKept, moveOptions
  <2>4. CleanInv'
    BY <2>1, <2>2 DEF CleanInv, CleanMoveMovesAll, Clean
  <2> QED
    BY <1>1, <1>3, <2>3, <2>4
<1>7. ASSUME NEW e \in File, RollbackRestore(e) \/ RollbackUndo(e) PROVE PathInv'
  <2>1. /\ phase = "rollback" /\ phase' = "rollback" /\ e \in rollLeft /\ UNCHANGED out
        /\ dest' = dest \/ dest' = [dest EXCEPT ![e] = "absent"]
    BY <1>7 DEF RollbackRestore, RollbackUndo
  <2>2. ~overwrite => dest0[e] = "absent"
    BY <2>1 DEF SweepInv, BytesInv, UndoInv
  <2>3. ExistingKept'
    BY <1>1, <1>2, <2>1, <2>2 DEF ExistingKept, moveOptions, SweepInv, MoveTypes
  <2>4. CleanInv'
    BY <2>1 DEF CleanInv, CleanMoveMovesAll, Clean
  <2> QED
    BY <1>1, <1>3, <2>3, <2>4
<1>8. CASE RollbackDone
  <2>1. /\ phase = "rollback" /\ phase' = "returned" /\ UNCHANGED <<src, dest>>
        /\ out' = [out EXCEPT !.succeeded = {}]
    BY <1>8 DEF RollbackDone
  <2>2. out'.stoppedEarly = out.stoppedEarly
    BY <2>1 DEF SweepInv, MoveTypes, CopyOutcome
  <2>3. ExistingKept'
    BY <1>1, <1>2, <2>1 DEF ExistingKept, moveOptions
  <2>4. CleanInv'
    BY <2>1, <2>2 DEF CleanInv, CleanMoveMovesAll, Clean
  <2> QED
    BY <1>1, <1>3, <2>3, <2>4
<1> QED
  BY <1>5, <1>6, <1>7, <1>8 DEF SweepAndRollback

LEMMA PathStutter == ASSUME PathInv, UNCHANGED vars PROVE PathInv'
<1>1. UNCHANGED <<strategy, overwrite, skipIdentical, dest0, phase, src, dest, out, identical,
                  cleanupFailed, sweepLeft, swept, deleted, rollLeft, undoErrors>>
  BY DEF vars, moveVars, moveOptions, sweepVars
<1>2. UNCHANGED <<isFile, aliased, target, target0, late>>
  BY DEF vars, pathVars
<1>3. SweepInv'
  BY <1>1 DEF PathInv, SweepInv, MoveTypes, BytesInv, ReportInv, UndoInv, Early,
              GoneIsReported, UndoPutsBack, HasBytes
<1>4. NoFileLost' /\ StartInv' /\ ExistingKept'
  BY <1>1, <1>2 DEF PathInv, NoFileLost, Safe, AtTarget, HasBytes, StartInv, Early, ExistingKept
<1>5. CleanInv'
  BY <1>1, <1>2 DEF PathInv, CleanInv, CleanMoveMovesAll, Clean, Landed, AtTarget, HasBytes, Moving
<1> QED
  BY <1>3, <1>4, <1>5 DEF PathInv

(* PathInv holds at the start of every move and no step breaks it.          *)
THEOREM PathInvariant == ASSUME MayAlias = FALSE PROVE Spec => []PathInv
<1>1. Init => PathInv
  BY PathInitInv
<1>2. PathInv /\ [Next]_vars => PathInv'
  BY MakeParentStep, ResolveStep, RenameStep, IntrudeStep, CopyPathStep, SweepPathStep, PathStutter
  DEF Next, Finished
<1> QED
  BY <1>1, <1>2, PTL DEF Spec

(* At every moment of a move each file's bytes exist in full at its source  *)
(* or at a destination.                                                     *)
THEOREM NothingLost == ASSUME MayAlias = FALSE PROVE Spec => []NoFileLost
<1>1. PathInv => NoFileLost
  BY DEF PathInv
<1> QED
  BY <1>1, PathInvariant, PTL

(* A source is gone only if the outcome lists it or a restore failed.       *)
THEOREM NothingGoneUnsaid == ASSUME MayAlias = FALSE PROVE Spec => []GoneIsReported
<1>1. PathInv => GoneIsReported
  BY DEF PathInv, SweepInv, ReportInv
<1> QED
  BY <1>1, PathInvariant, PTL

(* A rollback under Undo without overwrite puts every swept entry back.     *)
THEOREM UndoRestores == ASSUME MayAlias = FALSE PROVE Spec => []UndoPutsBack
<1>1. PathInv => UndoPutsBack
  BY DEF PathInv, SweepInv, UndoInv
<1> QED
  BY <1>1, PathInvariant, PTL

(* Without overwrite no file at the destination changes.                    *)
THEOREM NothingReplaced == ASSUME MayAlias = FALSE PROVE Spec => []ExistingKept
<1>1. PathInv => ExistingKept
  BY DEF PathInv
<1> QED
  BY <1>1, PathInvariant, PTL

(* A move that reports nothing wrong brought every file to its destination  *)
(* and left no original but those the fallback found identical.             *)
THEOREM CleanMeansMoved == ASSUME MayAlias = FALSE PROVE Spec => []CleanMoveMovesAll
<1>1. PathInv => CleanMoveMovesAll
  BY DEF PathInv, CleanInv
<1> QED
  BY <1>1, PathInvariant, PTL

-----------------------------------------------------------------------------
(* The batch.                                                               *)
Passed == {Sources[i] : i \in 1 .. at - 1}
NoSourceFileLost == \A e \in File : Safe(e)

(* The loop sorted each source it passed into one of four, and only the     *)
(* renamed and the settled ones have moved.                                 *)
LoopInv ==
  /\ at \in 1 .. Len(Sources) + 1
  /\ pending \subseteq Passed /\ renamed \subseteq Passed /\ settled \subseteq Passed
  /\ pending \cap renamed = {} /\ pending \cap settled = {} /\ renamed \cap settled = {}
  /\ sourcesFailed \subseteq Source /\ sourcesFailed \cap (pending \cup renamed \cup settled) = {}
  /\ phase \in {"copy", "sweep", "rollback"} => at = Len(Sources) + 1
  /\ Early(phase) =>
       /\ \A s \in Source \ (renamed \cup settled) : Before(s)
       /\ \A s \in renamed \cup settled : Moved(s)
       /\ ~overwrite => \A s \in renamed : \A e \in FilesOf[s] : dest0[e] = "absent"
       /\ sourcesFailed \subseteq Passed
       /\ Passed \subseteq pending \cup renamed \cup settled \cup sourcesFailed

(* A failed source stops the loop under a stopping strategy.                *)
StopInv ==
  /\ StrategyReason(strategy) # None /\ ~LoopStopped => sourcesFailed = {}
  /\ StrategyReason(strategy) # None /\ LoopStopped => sourcesFailed \subseteq {Sources[at]}
  /\ LoopStopped => \A j \in DOMAIN Sources : j >= at \/ Sources[j] \in pending => Before(Sources[j])
  /\ RenamesTakenBack

(* While nothing stops the sweep, each queued file is swept, identical or   *)
(* failed, each failed source is untouched and every other one has moved.   *)
AnswerInv ==
  /\ phase = "rollback" => out.stoppedEarly # None
  /\ phase = "sweep" /\ out.stoppedEarly = None =>
       /\ \A s \in Source : s \in sourcesFailed \/ Moved(s) \/ s \in pending
       /\ \A s \in sourcesFailed : Before(s)
       /\ Waiting \subseteq swept \cup identical \cup out.failed
       /\ swept \subseteq Waiting /\ swept \cap identical = {}
       /\ \A e \in swept : HasBytes(e)
       /\ \A e \in identical : src[e] /\ HasBytes(e)
       /\ \A e \in swept \ sweepLeft : ~src[e] \/ e \in cleanupFailed
  /\ EverySourceAnswered

BatchInv == SweepInv /\ NoSourceFileLost /\ LoopInv /\ StopInv /\ AnswerInv

-----------------------------------------------------------------------------
(* No file belongs to two sources, and a plain source is one file.          *)
LEMMA SourceFacts ==
  /\ Len(Sources) \in Nat /\ DOMAIN Sources = 1 .. Len(Sources)
  /\ \A i \in 1 .. Len(Sources) : Sources[i] \in Source
  /\ \A s \in Source : \E i \in 1 .. Len(Sources) : s = Sources[i]
  /\ \A s \in Source : FilesOf[s] \subseteq File
  /\ \A s, t \in Source : s # t => FilesOf[s] \cap FilesOf[t] = {}
  /\ \A e \in File : \E s \in Source : e \in FilesOf[s]
<1>1. Len(Sources) \in Nat /\ DOMAIN Sources = 1 .. Len(Sources)
  BY SourcesAssumption
<1> QED
  BY <1>1, SourcesAssumption DEF Source

LEMMA PlainFacts ==
  ASSUME NEW s \in Plain
  PROVE  s \in Source /\ FilesOf[s] = {Only(s)}
<1>1. PICK e : s \in Source /\ FilesOf[s] = {e}
  BY SourcesAssumption
<1> QED
  BY <1>1 DEF Only

(* The source the loop is on is not one it passed.                          *)
LEMMA OnFacts ==
  ASSUME LoopInv, NEW s \in Source, OnSource(s)
  PROVE  /\ at \in 1 .. Len(Sources) /\ s = Sources[at] /\ s \notin Passed
         /\ ~cancelled /\ phase = "loop" /\ Early(phase)
         /\ \A j \in DOMAIN Sources : j >= at => Sources[j] \notin Passed
<1>1. at \in 1 .. Len(Sources) /\ s = Sources[at] /\ ~cancelled /\ phase = "loop"
  BY SourceFacts DEF LoopInv, OnSource
<1>2. \A j \in DOMAIN Sources : j >= at => Sources[j] \notin Passed
  BY <1>1, SourceFacts, SourcesAssumption DEF Passed
<1> QED
  BY <1>1, <1>2, SourceFacts DEF Early

LEMMA PassedNext ==
  ASSUME at \in 1 .. Len(Sources), at' = at + 1
  PROVE  Passed' = Passed \cup {Sources[at]} /\ at' \in 1 .. Len(Sources) + 1
  BY SourceFacts DEF Passed

LEMMA BatchInitInv == ASSUME BatchInit PROVE BatchInv
<1>1. SweepInv
  BY MoveInitInv DEF BatchInit, Early
<1>2. LoopInv
  BY SourceFacts DEF BatchInit, MoveInit, LoopInv, Passed, Early, Before
<1>3. StopInv /\ AnswerInv
  BY DEF BatchInit, StopInv, LoopStopped, RenamesTakenBack, AnswerInv, EverySourceAnswered
<1>4. NoSourceFileLost
  BY DEF BatchInit, MoveInit, NoSourceFileLost, Safe
<1> QED
  BY <1>1, <1>2, <1>3, <1>4 DEF BatchInv

(* Every step of the loop that goes on: it changes nothing but the source   *)
(* it is on, which becomes one of the four kinds.                           *)
LEMMA GoOnStep ==
  ASSUME BatchInv, NEW s \in Source, OnSource(s), GoOn, MoveTypes',
         UNCHANGED <<moveOptions, identical, sweepVars>>,
         \A e \in File \ FilesOf[s] : src'[e] = src[e] /\ dest'[e] = dest[e],
         \/ pending' = pending \cup {s} /\ UNCHANGED <<renamed, settled, sourcesFailed, src, dest>>
         \/ renamed' = renamed \cup {s} /\ UNCHANGED <<pending, settled, sourcesFailed>>
              /\ Moved(s)' /\ (overwrite \/ \A e \in FilesOf[s] : dest0[e] = "absent")
         \/ settled' = settled \cup {s} /\ UNCHANGED <<pending, renamed, sourcesFailed>> /\ Moved(s)'
         \/ sourcesFailed' = sourcesFailed \cup {s} /\ UNCHANGED <<pending, renamed, settled, src, dest>>
              /\ StrategyReason(strategy) = None
  PROVE  BatchInv'
<1> USE DEF BatchInv
<1>1. /\ at \in 1 .. Len(Sources) /\ s = Sources[at] /\ s \notin Passed
      /\ phase = "loop" /\ Early(phase) /\ phase' = phase /\ at' = at + 1
      /\ UNCHANGED <<strategy, overwrite, dest0, out>>
  BY OnFacts DEF GoOn, moveOptions
<1>2. /\ Passed' = Passed \cup {s} /\ at' \in 1 .. Len(Sources) + 1
  BY <1>1, PassedNext
<1>3. NoSourceFileLost'
  <2>1. ASSUME NEW e \in FilesOf[s] PROVE Safe(e)'
    <3>1. CASE UNCHANGED <<src, dest>>
      BY <2>1, <3>1, SourceFacts DEF NoSourceFileLost, Safe, HasBytes
    <3>2. CASE Moved(s)'
      BY <2>1, <3>2 DEF Moved, Safe
    <3> QED
      BY <3>1, <3>2
  <2>2. ASSUME NEW e \in File \ FilesOf[s] PROVE Safe(e)'
    BY <2>2 DEF NoSourceFileLost, Safe, HasBytes
  <2> QED
    BY <2>1, <2>2 DEF NoSourceFileLost
<1>4. SweepInv'
  BY <1>1, EarlyStep DEF sweepVars
<1>5. ASSUME NEW t \in Source, t # s
      PROVE  (Before(t) => Before(t)') /\ (Moved(t) => Moved(t)')
  <2>1. \A e \in FilesOf[t] : e \in File \ FilesOf[s]
    BY <1>5, SourceFacts
  <2> QED
    BY <1>1, <2>1 DEF Before, Moved, HasBytes
<1>6. UNCHANGED <<src, dest>> => (Before(s) => Before(s)')
  BY <1>1 DEF Before
<1>7. LoopInv'
  <2>1. /\ at' \in 1 .. Len(Sources) + 1
        /\ pending' \subseteq Passed' /\ renamed' \subseteq Passed' /\ settled' \subseteq Passed'
        /\ pending' \cap renamed' = {} /\ pending' \cap settled' = {} /\ renamed' \cap settled' = {}
        /\ sourcesFailed' \subseteq Passed' /\ sourcesFailed' \subseteq Source
        /\ sourcesFailed' \cap (pending' \cup renamed' \cup settled') = {}
        /\ Passed' \subseteq pending' \cup renamed' \cup settled' \cup sourcesFailed'
    BY <1>1, <1>2 DEF LoopInv
  <2>2. \A t \in Source \ (renamed' \cup settled') : Before(t)'
    BY <1>1, <1>5, <1>6 DEF LoopInv
  <2>3. \A t \in renamed' \cup settled' : Moved(t)'
    <3>1. ASSUME NEW t \in renamed \cup settled PROVE t \in Source /\ t # s
      BY <1>1, SourceFacts DEF LoopInv, Passed
    <3> QED
      BY <1>1, <1>5, <3>1 DEF LoopInv
  <2>4. ~overwrite => \A t \in renamed' : \A e \in FilesOf[t] : dest0[e] = "absent"
    BY <1>1 DEF LoopInv
  <2> QED
    BY <1>1, <2>1, <2>2, <2>3, <2>4 DEF LoopInv
<1>8. StopInv'
  BY <1>1 DEF StopInv, LoopStopped, RenamesTakenBack
<1>9. AnswerInv'
  BY <1>1 DEF AnswerInv, EverySourceAnswered
<1> QED
  BY <1>3, <1>4, <1>7, <1>8, <1>9

-----------------------------------------------------------------------------
LEMMA SettleStep == ASSUME BatchInv, NEW s \in Source, Settle(s) PROVE BatchInv'
<1> USE DEF BatchInv
<1>1. /\ OnSource(s) /\ GoOn /\ s \in Plain /\ HasBytes(Only(s))
      /\ UNCHANGED <<moveOptions, identical, sweepVars>> /\ UNCHANGED <<dest, pending, renamed, sourcesFailed>>
      /\ src' = [src EXCEPT ![Only(s)] = FALSE] /\ settled' = settled \cup {s}
  BY DEF Settle, SweepUntouched, Conflicting, Conflicts, SettlesAsMoved, HasBytes
<1>2. FilesOf[s] = {Only(s)} /\ Only(s) \in File
  BY <1>1, PlainFacts, SourceFacts
<1>3. MoveTypes' /\ \A e \in File \ FilesOf[s] : src'[e] = src[e] /\ dest'[e] = dest[e]
  BY <1>1, <1>2 DEF SweepInv, MoveTypes, moveOptions, sweepVars, GoOn
<1>4. Moved(s)'
  BY <1>1, <1>2 DEF Moved, HasBytes, SweepInv, MoveTypes
<1> QED
  BY <1>1, <1>3, <1>4, GoOnStep

LEMMA RenameSourceStep == ASSUME BatchInv, NEW s \in Source, RenameSource(s) PROVE BatchInv'
<1> USE DEF BatchInv
<1>1. /\ OnSource(s) /\ GoOn /\ ~Conflicting(s) /\ (s \in Plain \/ \A e \in FilesOf[s] : dest[e] = "absent")
      /\ UNCHANGED <<moveOptions, identical, sweepVars>> /\ UNCHANGED <<pending, settled, sourcesFailed>>
      /\ src' = [e \in File |-> src[e] /\ e \notin FilesOf[s]]
      /\ dest' = [e \in File |-> IF e \in FilesOf[s] THEN "copy" ELSE dest[e]]
      /\ renamed' = renamed \cup {s}
  BY DEF RenameSource, SweepUntouched, Remembered
<1>2. FilesOf[s] \subseteq File
  BY SourceFacts
<1>3. MoveTypes' /\ \A e \in File \ FilesOf[s] : src'[e] = src[e] /\ dest'[e] = dest[e]
  BY <1>1 DEF SweepInv, MoveTypes, moveOptions, sweepVars, GoOn, Contents
<1>4. Moved(s)'
  BY <1>1, <1>2 DEF Moved, HasBytes, Whole
<1>5. Before(s)
  BY <1>1, OnFacts DEF LoopInv
<1>6. overwrite \/ \A e \in FilesOf[s] : dest0[e] = "absent"
  <2>1. CASE s \in Plain
    BY <1>1, <1>5, <2>1, PlainFacts DEF Conflicting, Conflicts, Before, SweepInv, MoveTypes
  <2>2. CASE s \notin Plain
    BY <1>1, <1>5, <2>2 DEF Before
  <2> QED
    BY <2>1, <2>2
<1> QED
  BY <1>1, <1>3, <1>4, <1>6, GoOnStep

LEMMA QueueStep == ASSUME BatchInv, NEW s \in Source, Queue(s) PROVE BatchInv'
<1> USE DEF BatchInv
<1>1. /\ OnSource(s) /\ GoOn /\ pending' = pending \cup {s}
      /\ UNCHANGED <<moveOptions, identical, sweepVars>>
      /\ UNCHANGED <<src, dest, renamed, settled, sourcesFailed>>
  BY DEF Queue, SweepUntouched
<1>2. MoveTypes'
  BY <1>1 DEF SweepInv, MoveTypes, moveOptions, sweepVars, GoOn
<1> QED
  BY <1>1, <1>2, GoOnStep

(* A source that fails under a strategy that stops: the renames made before *)
(* it are taken back under Undo, each or not; nothing else changes.         *)
LEMMA FailSourceStep ==
  ASSUME BatchInv, NEW s \in Source, NEW fatal \in BOOLEAN, FailSource(s, fatal)
  PROVE  BatchInv'
<1> USE DEF BatchInv
<1> DEFINE reason == FailureReason(strategy, fatal)
<1>1. /\ OnSource(s) /\ sourcesFailed' = sourcesFailed \cup {s}
      /\ UNCHANGED <<moveOptions, identical, sweepVars, pending, renamed, settled>>
  BY DEF FailSource, Recorded, SweepUntouched
<1>2. /\ at \in 1 .. Len(Sources) /\ s = Sources[at] /\ s \notin Passed
      /\ phase = "loop" /\ Early(phase)
      /\ \A j \in DOMAIN Sources : j >= at => Sources[j] \notin Passed
  BY <1>1, OnFacts
<1>3. reason \in Reasons \cup {None}
  BY DEF SweepInv, MoveTypes, Strategies, FailureReason, StrategyReason, Reasons, None
<1>4. CASE reason = None
  <2>1. GoOn /\ UNCHANGED <<src, dest>> /\ StrategyReason(strategy) = None
    BY <1>4 DEF FailSource, StopsBatch, FailureReason, None
  <2>2. MoveTypes'
    BY <1>1, <2>1 DEF SweepInv, MoveTypes, moveOptions, sweepVars, GoOn
  <2> QED
    BY <1>1, <2>1, <2>2, GoOnStep
<1>5. CASE reason # None
  <2>1. PICK back \in SUBSET (IF RenamesBack(reason) THEN renamed ELSE {}) :
          LET moved == UNION {FilesOf[t] : t \in back} IN
          /\ src' = [e \in File |-> src[e] \/ e \in moved]
          /\ dest' = [e \in File |-> IF e \in moved THEN "absent" ELSE dest[e]]
          /\ undoErrors' = (RenamesBack(reason) /\ back # renamed)
    BY <1>5 DEF FailSource, StopsBatch
  <2> DEFINE moved == UNION {FilesOf[t] : t \in back}
  <2>2. /\ out' = [out EXCEPT !.stoppedEarly = reason] /\ phase' = "returned" /\ UNCHANGED at
    BY <1>5 DEF FailSource, StopsBatch
  <2>3. out'.stoppedEarly = reason /\ out' \in CopyOutcome(File)
    BY <1>3, <2>2 DEF SweepInv, MoveTypes, CopyOutcome
  <2>4. MoveTypes'
    BY <1>1, <2>1, <2>3 DEF SweepInv, MoveTypes, moveOptions, sweepVars, Contents
  <2>5. NoSourceFileLost'
    BY <2>1 DEF NoSourceFileLost, Safe, HasBytes
  <2>6. SweepInv'
    BY <1>1, <1>2, <2>2, <2>4, EarlyStep DEF sweepVars
  <2>7. back \subseteq renamed /\ back \subseteq Source
    BY <2>1, SourceFacts DEF LoopInv, Passed
  <2>8. LoopInv'
    <3>1. s \notin pending \cup renamed \cup settled
      BY <1>2 DEF LoopInv
    <3> QED
      BY <1>1, <2>2, <3>1 DEF LoopInv, Passed, Early
  <2>9. ASSUME NEW t \in Source, t \notin renamed, Before(t) PROVE Before(t)'
    <3>1. \A e \in FilesOf[t] : e \in File /\ e \notin moved
      BY <2>7, <2>9, SourceFacts
    <3> QED
      BY <1>1, <2>1, <2>9, <3>1 DEF Before, moveOptions
  <2>10. StopInv'
    <3>1. LoopStopped' /\ UNCHANGED strategy
      BY <1>1, <1>2, <2>2 DEF LoopStopped, moveOptions
    <3>2. \A j \in DOMAIN Sources : j >= at \/ Sources[j] \in pending => Before(Sources[j])'
      <4>1. ASSUME NEW j \in DOMAIN Sources, j >= at \/ Sources[j] \in pending
            PROVE  Sources[j] \in Source \ (renamed \cup settled)
        BY <1>2, <4>1, SourceFacts DEF LoopInv
      <4> QED
        BY <1>2, <2>9, <4>1 DEF LoopInv
    <3>3. StrategyReason(strategy) # None => sourcesFailed' \subseteq {Sources[at]}
      <4>1. ~LoopStopped
        BY <1>2 DEF LoopStopped
      <4> QED
        BY <1>1, <1>2, <4>1 DEF StopInv
    <3>4. RenamesTakenBack'
      <4>1. SUFFICES ASSUME reason = "Undo", back = renamed, ~overwrite, NEW t \in Source \ settled
                     PROVE  Before(t)'
        BY <1>1, <2>1, <2>3 DEF RenamesTakenBack, RenamesBack, moveOptions
      <4>2. CASE t \in renamed
        <5>1. \A e \in FilesOf[t] : e \in File /\ e \in moved /\ dest0[e] = "absent"
          BY <1>2, <4>1, <4>2, SourceFacts DEF LoopInv
        <5> QED
          BY <1>1, <2>1, <5>1 DEF Before, moveOptions
      <4>3. CASE t \notin renamed
        BY <1>2, <2>9, <4>3 DEF LoopInv
      <4> QED
        BY <4>2, <4>3
    <3> QED
      BY <1>1, <2>2, <3>1, <3>2, <3>3, <3>4 DEF StopInv
  <2>11. AnswerInv'
    BY <1>5, <2>2, <2>3 DEF AnswerInv, EverySourceAnswered
  <2> QED
    BY <2>5, <2>6, <2>8, <2>10, <2>11
<1> QED
  BY <1>4, <1>5

(* Steps of the loop that touch no file.                                    *)
LEMMA QuietStep ==
  ASSUME BatchInv, Cancel \/ Prepare \/ StopCancelled \/ EndLoop
  PROVE  BatchInv'
<1> USE DEF BatchInv
<1>1. /\ Early(phase) /\ phase' \notin {"sweep", "rollback"}
      /\ UNCHANGED <<moveOptions, identical, sweepVars, src, dest, undoErrors, at, pending, renamed,
                     settled, sourcesFailed>>
      /\ out' = out \/ out' = [out EXCEPT !.stoppedEarly = "Cancelled"]
  BY DEF Cancel, Prepare, StopCancelled, EndLoop, Early, SweepUntouched, moveVars, batchVars
<1>2. MoveTypes' /\ NoSourceFileLost' /\ swept' = swept
  BY <1>1 DEF SweepInv, MoveTypes, NoSourceFileLost, Safe, HasBytes, moveOptions, sweepVars,
              CopyOutcome, Reasons
<1>3. SweepInv'
  BY <1>1, <1>2, EarlyStep
<1>4. /\ phase' = "copy" => phase = "copy" \/ at > Len(Sources)
      /\ phase' = "returned" => (at <= Len(Sources) /\ out'.stoppedEarly = "Cancelled")
                                 \/ (at > Len(Sources) /\ pending = {})
  BY DEF Cancel, Prepare, StopCancelled, EndLoop, SweepInv, MoveTypes, CopyOutcome, moveVars
<1>5. LoopInv'
  <2>1. phase' = "copy" => at = Len(Sources) + 1
    BY <1>1, <1>4, SourceFacts DEF LoopInv
  <2> QED
    BY <1>1, <2>1 DEF LoopInv, Passed, Early, Before, Moved, HasBytes, moveOptions
<1>6. StopInv'
  <2>1. \A j \in DOMAIN Sources :
          (j >= at \/ Sources[j] \in pending) => Sources[j] \in Source \ (renamed \cup settled)
    BY SourceFacts, SourcesAssumption DEF LoopInv, Passed
  <2>2. LoopStopped' => at <= Len(Sources)
    BY <1>1 DEF LoopStopped
  <2>3. \A j \in DOMAIN Sources : (j >= at \/ Sources[j] \in pending) => Before(Sources[j])'
    BY <1>1, <2>1 DEF LoopInv, Before, moveOptions
  <2>4. StrategyReason(strategy) # None => sourcesFailed = {}
    BY <1>1 DEF StopInv, LoopStopped, Early
  <2>5. LoopStopped' => out'.stoppedEarly # "Undo"
    BY <1>1, <1>4, SourceFacts DEF LoopStopped, LoopInv
  <2> QED
    BY <1>1, <2>3, <2>4, <2>5 DEF StopInv, RenamesTakenBack, moveOptions
<1>7. AnswerInv'
  <2>1. ASSUME phase' = "returned", out'.stoppedEarly = None, NEW s \in Source
        PROVE  (s \in sourcesFailed /\ Before(s)) \/ (s \notin sourcesFailed /\ Moved(s))
    <3>1. at = Len(Sources) + 1 /\ pending = {}
      BY <1>4, <2>1, SourceFacts DEF LoopInv, None
    <3>2. s \in Passed
      BY <3>1, SourceFacts DEF Passed
    <3> QED
      BY <1>1, <3>1, <3>2 DEF LoopInv
  <2>2. \A s \in Source : (Before(s) => Before(s)') /\ (Moved(s) => Moved(s)')
    BY <1>1 DEF Before, Moved, HasBytes, moveOptions
  <2>3. \A s \in Source : Before(s) \/ Moved(s)
    BY <1>1 DEF LoopInv
  <2>4. EverySourceAnswered'
    BY <1>1, <2>1, <2>2, <2>3 DEF EverySourceAnswered, Accounted, Moved
  <2> QED
    BY <1>1, <2>4 DEF AnswerInv
<1> QED
  BY <1>2, <1>3, <1>5, <1>6, <1>7

LEMMA WaitingIsFiles == ASSUME LoopInv PROVE Waiting \subseteq File
  BY SourceFacts DEF LoopInv, Passed, Waiting

(* The shared copy touches the queued sources only, and is their only way   *)
(* out of the queue.                                                        *)
LEMMA CopyBatchStep ==
  ASSUME BatchInv, Copy(Waiting), UNCHANGED batchVars
  PROVE  BatchInv'
<1> USE DEF BatchInv
<1>1. /\ phase = "copy" /\ Early(phase) /\ phase' \in {"sweep", "returned", "error"}
      /\ at = Len(Sources) + 1
      /\ UNCHANGED <<moveOptions, src, cleanupFailed, deleted, rollLeft>>
      /\ UNCHANGED <<at, pending, renamed, settled, sourcesFailed>>
  BY DEF Copy, Early, LoopInv, batchVars
<1>2. Waiting \subseteq File /\ \A e \in Waiting : src[e]
  <2>1. \A s \in pending : Before(s)
    BY <1>1, SourceFacts DEF LoopInv, Passed
  <2> QED
    BY <2>1, WaitingIsFiles DEF Waiting, Before
<1>3. SweepInv'
  BY <1>2, CopyStep
<1>4. LoopInv'
  BY <1>1 DEF LoopInv, Passed, Early
<1>5. StopInv'
  <2>1. ~LoopStopped /\ ~LoopStopped'
    BY <1>1, SourceFacts DEF LoopStopped
  <2> QED
    BY <1>1, <2>1 DEF StopInv, RenamesTakenBack, moveOptions
<1>6. NoSourceFileLost'
  BY <1>2, CopyKeeps DEF NoSourceFileLost
<1>7. CASE phase' = "error"
  <2>1. UNCHANGED dest
    BY <1>7 DEF Copy
  <2>2. \A s \in Source : (Before(s) \/ Moved(s))'
    BY <1>1, <2>1 DEF LoopInv, Before, Moved, HasBytes, moveOptions
  <2>3. AnswerInv'
    BY <1>7, <2>2 DEF AnswerInv, EverySourceAnswered
  <2> QED
    BY <1>6, <1>3, <1>4, <1>5, <2>3
<1>8. CASE phase' # "error"
  <2>1. PICK o \in CopyOutcomes(Waiting, strategy) :
          /\ \A e \in Waiting : Possible(e, o)
          /\ out' = [o EXCEPT !.skipped = {}] /\ identical' = o.skipped
          /\ dest' \in {d \in [File -> Contents] :
                 \A e \in File : d[e] \in IF e \in Waiting THEN AfterCopy(e, o) ELSE {dest[e]}}
          /\ sweepLeft' = o.succeeded /\ swept' = o.succeeded
          /\ phase' = IF o.succeeded = {} THEN "returned" ELSE "sweep"
    BY <1>8 DEF Copy
  <2>2. /\ o \in CopyOutcome(Waiting)
        /\ o.succeeded \cap o.skipped = {} /\ o.succeeded \cap o.failed = {}
        /\ o.skipped \cap o.failed = {}
        /\ o.stoppedEarly = None => o.succeeded \cup o.skipped \cup o.failed = Waiting
    BY CopyOutcomeFacts DEF SweepInv, MoveTypes
  <2>3. out'.stoppedEarly = o.stoppedEarly /\ out'.failed = o.failed
    BY <2>1, <2>2 DEF CopyOutcome
  <2>4. ASSUME NEW s \in Source, s \notin pending
        PROVE  (Moved(s) => Moved(s)') /\ (Before(s) => Before(s)')
    <3>1. ASSUME NEW e \in FilesOf[s] PROVE dest'[e] = dest[e]
      <4>1. e \in File /\ e \notin Waiting
        BY <2>4, <3>1, SourceFacts DEF Waiting, LoopInv, Passed
      <4> QED
        BY <2>1, <4>1
    <3> QED
      BY <1>1, <3>1 DEF Moved, Before, HasBytes, moveOptions
  <2>5. ASSUME NEW s \in Source
        PROVE  (s \in sourcesFailed => Before(s)') /\ (s \in sourcesFailed \/ Moved(s)' \/ s \in pending)
    <3>1. s \in Passed
      BY <1>1, SourceFacts DEF Passed
    <3>2. s \in sourcesFailed => s \notin pending /\ Before(s)
      BY <1>1 DEF LoopInv
    <3> QED
      BY <1>1, <2>4, <3>1, <3>2 DEF LoopInv
  <2>6. ASSUME NEW e \in Waiting, e \in o.succeeded \/ e \in o.skipped
        PROVE  HasBytes(e)' /\ src'[e]
    <3>1. e \in File /\ src[e]
      BY <1>2
    <3>2. dest'[e] \in IF e \in Waiting THEN AfterCopy(e, o) ELSE {dest[e]}
      BY <2>1, <3>1
    <3>3. e \in o.succeeded => AfterCopy(e, o) = {"copy"}
      BY <2>2 DEF AfterCopy
    <3>4. e \in o.skipped => AfterCopy(e, o) = {dest0[e]}
      BY <2>2 DEF AfterCopy
    <3>5. e \in o.skipped => dest0[e] = "same"
      BY <2>1 DEF Possible
    <3> QED
      BY <1>1, <2>6, <3>1, <3>2, <3>3, <3>4, <3>5 DEF HasBytes, Whole
  <2>7. o.stoppedEarly = None => Waiting \subseteq swept' \cup identical' \cup out'.failed
    BY <2>1, <2>2, <2>3
  <2>8. Waiting' = Waiting /\ o.succeeded \subseteq Waiting /\ o.skipped \subseteq Waiting
    BY <1>1, <2>2 DEF Waiting, CopyOutcome
  <2>9. EverySourceAnswered'
    <3>1. SUFFICES ASSUME phase' = "returned", o.stoppedEarly = None, NEW s \in Source,
                          s \notin sourcesFailed, NEW e \in FilesOf[s]
                   PROVE  Accounted(e)'
      BY <1>1, <1>8, <2>3, <2>5 DEF EverySourceAnswered
    <3>2. CASE Moved(s)'
      BY <3>1, <3>2 DEF Moved, Accounted
    <3>3. CASE s \in pending
      <4>1. e \in Waiting /\ swept' = {}
        BY <2>1, <3>1, <3>3 DEF Waiting
      <4> QED
        BY <2>1, <2>6, <2>7, <3>1, <4>1 DEF Accounted
    <3> QED
      BY <2>5, <3>1, <3>2, <3>3
  <2>10. AnswerInv'
    <3>1. phase' = "sweep" /\ o.stoppedEarly = None =>
            /\ \A s \in Source : s \in sourcesFailed' \/ Moved(s)' \/ s \in pending'
            /\ \A s \in sourcesFailed' : Before(s)'
            /\ Waiting' \subseteq swept' \cup identical' \cup out'.failed
            /\ swept' \subseteq Waiting' /\ swept' \cap identical' = {}
            /\ \A e \in swept' : HasBytes(e)'
            /\ \A e \in identical' : src'[e] /\ HasBytes(e)'
            /\ swept' \ sweepLeft' = {}
      BY <1>1, <2>1, <2>2, <2>5, <2>6, <2>7, <2>8 DEF LoopInv
    <3> QED
      BY <1>1, <2>3, <2>9, <3>1 DEF AnswerInv
  <2> QED
    BY <1>6, <1>3, <1>4, <1>5, <2>10
<1> QED
  BY <1>7, <1>8

LEMMA SweepBatchStep ==
  ASSUME BatchInv, SweepAndRollback, UNCHANGED batchVars
  PROVE  BatchInv'
<1> USE DEF BatchInv
<1>1. SweepInv'
  BY SweepStep
<1>2. /\ phase \in {"sweep", "rollback"} /\ phase' \in {"sweep", "rollback", "returned"}
      /\ UNCHANGED <<moveOptions, identical>>
      /\ UNCHANGED <<at, pending, renamed, settled, sourcesFailed>>
  BY DEF SweepAndRollback, SweepRemove, SweepFail, RollbackRestore, RollbackUndo, RollbackDone,
         batchVars
<1>3. LoopInv'
  BY <1>2 DEF LoopInv, Passed, Early
<1>4. StopInv'
  <2>1. ~LoopStopped /\ ~LoopStopped'
    BY <1>2, SourceFacts DEF LoopStopped, LoopInv
  <2> QED
    BY <1>2, <2>1 DEF StopInv, RenamesTakenBack, moveOptions
<1>5. Waiting' = Waiting /\ NoSourceFileLost'
  BY <1>2, SweepKeeps DEF Waiting, NoSourceFileLost
<1>6. ASSUME NEW e \in File, SweepRemove(e) PROVE AnswerInv'
  <2>1. /\ phase = "sweep" /\ e \in sweepLeft /\ sweepLeft' = sweepLeft \ {e}
        /\ src' = [src EXCEPT ![e] = FALSE] /\ UNCHANGED <<dest, out, identical, cleanupFailed, swept>>
        /\ phase' = IF sweepLeft' = {} THEN "returned" ELSE "sweep"
    BY <1>6 DEF SweepRemove
  <2>2. \A s \in Source : Moved(s) => Moved(s)'
    BY <2>1, SourceFacts DEF Moved, HasBytes, SweepInv, MoveTypes
  <2>3. ASSUME out.stoppedEarly = None, NEW s \in sourcesFailed PROVE Before(s)'
    <3>1. e \in Waiting
      BY <2>1, <2>3 DEF AnswerInv, SweepInv, BytesInv
    <3>2. e \notin FilesOf[s]
      BY <3>1, SourceFacts DEF Waiting, LoopInv, Passed
    <3> QED
      BY <1>2, <2>1, <2>3, <3>2, SourceFacts DEF AnswerInv, Before, LoopInv, SweepInv, MoveTypes, moveOptions
  <2>4. ASSUME out.stoppedEarly = None, NEW x \in identical PROVE src'[x] /\ HasBytes(x)'
    <3>1. x # e
      BY <2>1, <2>4 DEF AnswerInv, SweepInv, BytesInv
    <3>2. src'[x] = src[x]
      BY <2>1, <3>1 DEF SweepInv, MoveTypes
    <3> QED
      BY <2>1, <2>4, <3>2 DEF AnswerInv, HasBytes
  <2>5. \A x \in swept \ sweepLeft' : out.stoppedEarly = None => ~src'[x] \/ x \in cleanupFailed
    BY <2>1 DEF AnswerInv, SweepInv, MoveTypes
  <2>6. EverySourceAnswered'
    <3>1. SUFFICES ASSUME sweepLeft' = {}, out.stoppedEarly = None, NEW s \in Source,
                          s \notin sourcesFailed, NEW x \in FilesOf[s]
                   PROVE  Accounted(x)'
      BY <1>2, <2>1, <2>3 DEF EverySourceAnswered
    <3>2. CASE Moved(s)
      BY <2>2, <3>1, <3>2 DEF Moved, Accounted
    <3>3. CASE s \in pending
      <4>1. x \in Waiting
        BY <3>1, <3>3 DEF Waiting
      <4>2. x \in swept \/ x \in identical \/ x \in out.failed
        BY <2>1, <3>1, <4>1 DEF AnswerInv
      <4>3. x \in swept => HasBytes(x)'
        BY <2>1, <3>1 DEF AnswerInv, HasBytes
      <4> QED
        BY <2>1, <2>5, <2>4, <3>1, <4>2, <4>3 DEF Accounted
    <3> QED
      BY <2>1, <3>1, <3>2, <3>3 DEF AnswerInv
  <2> QED
    <3>1. UNCHANGED sourcesFailed /\ UNCHANGED pending
      BY <1>2
    <3>2. phase' = "sweep" /\ out'.stoppedEarly = None =>
            /\ \A s \in Source : s \in sourcesFailed' \/ Moved(s)' \/ s \in pending'
            /\ Waiting' \subseteq swept' \cup identical' \cup out'.failed
            /\ swept' \subseteq Waiting' /\ swept' \cap identical' = {}
      BY <1>2, <1>5, <2>1, <2>2, <3>1 DEF AnswerInv
    <3>3. phase' = "sweep" /\ out'.stoppedEarly = None =>
            /\ \A s \in sourcesFailed' : Before(s)'
            /\ \A x \in swept' : HasBytes(x)'
            /\ \A x \in identical' : src'[x] /\ HasBytes(x)'
            /\ \A x \in swept' \ sweepLeft' : ~src'[x] \/ x \in cleanupFailed'
      BY <2>1, <2>3, <2>4, <2>5, <3>1 DEF AnswerInv, HasBytes
    <3> QED
      BY <2>1, <2>6, <3>2, <3>3 DEF AnswerInv
<1>7. ASSUME NEW e \in File, NEW fatal \in BOOLEAN, SweepFail(e, fatal) PROVE AnswerInv'
  <2>1. /\ phase = "sweep" /\ e \in sweepLeft /\ sweepLeft' = sweepLeft \ {e}
        /\ UNCHANGED <<src, dest, identical, swept>> /\ cleanupFailed' = cleanupFailed \cup {e}
        /\ out' = [out EXCEPT !.stoppedEarly = IF out.stoppedEarly = None
                                 THEN FailureReason(strategy, fatal) ELSE out.stoppedEarly]
        /\ phase' = "rollback" => FailureReason(strategy, fatal) # None
        /\ phase' = "returned" => FailureReason(strategy, fatal) # None \/ sweepLeft' = {}
    BY <1>7 DEF SweepFail, RollsBackSweep
  <2>2. /\ out'.failed = out.failed
        /\ out'.stoppedEarly = None => out.stoppedEarly = None /\ FailureReason(strategy, fatal) = None
    BY <2>1 DEF SweepInv, MoveTypes, CopyOutcome
  <2>3. \A s \in Source : (Moved(s) <=> Moved(s)') /\ (Before(s) <=> Before(s)')
    BY <1>2, <2>1 DEF Moved, Before, HasBytes, moveOptions
  <2>4. \A x \in swept \ sweepLeft' : out.stoppedEarly = None => ~src[x] \/ x \in cleanupFailed'
    BY <2>1 DEF AnswerInv
  <2>5. EverySourceAnswered'
    <3>1. SUFFICES ASSUME sweepLeft' = {}, out.stoppedEarly = None, NEW s \in Source,
                          s \notin sourcesFailed, NEW x \in FilesOf[s]
                   PROVE  Accounted(x)'
      BY <1>2, <2>1, <2>2, <2>3 DEF EverySourceAnswered, AnswerInv, LoopInv
    <3>2. CASE Moved(s)
      BY <2>3, <3>1, <3>2 DEF Moved, Accounted
    <3>3. CASE s \in pending
      <4>1. x \in Waiting
        BY <3>1, <3>3 DEF Waiting
      <4>2. x \in swept \/ x \in identical \/ x \in out.failed
        BY <2>1, <3>1, <4>1 DEF AnswerInv
      <4>3. (x \in swept => HasBytes(x)) /\ (x \in identical => src[x] /\ HasBytes(x))
        BY <2>1, <3>1 DEF AnswerInv
      <4> QED
        BY <2>1, <2>2, <2>4, <3>1, <4>2, <4>3 DEF Accounted, HasBytes
    <3> QED
      BY <2>1, <3>1, <3>2, <3>3 DEF AnswerInv
  <2>6. phase' = "rollback" => out'.stoppedEarly # None
    BY <2>1, <2>2
  <2> QED
    <3>1. UNCHANGED sourcesFailed /\ UNCHANGED pending
      BY <1>2
    <3>2. phase' = "sweep" /\ out'.stoppedEarly = None =>
            /\ \A s \in Source : s \in sourcesFailed' \/ Moved(s)' \/ s \in pending'
            /\ \A s \in sourcesFailed' : Before(s)'
            /\ Waiting' \subseteq swept' \cup identical' \cup out'.failed
            /\ swept' \subseteq Waiting' /\ swept' \cap identical' = {}
      BY <1>2, <1>5, <2>1, <2>2, <2>3, <3>1 DEF AnswerInv, LoopInv
    <3>3. phase' = "sweep" /\ out'.stoppedEarly = None =>
            /\ \A x \in swept' : HasBytes(x)'
            /\ \A x \in identical' : src'[x] /\ HasBytes(x)'
            /\ \A x \in swept' \ sweepLeft' : ~src'[x] \/ x \in cleanupFailed'
      BY <2>1, <2>2, <2>4 DEF AnswerInv, HasBytes
    <3> QED
      BY <2>1, <2>5, <2>6, <3>2, <3>3 DEF AnswerInv
<1>8. ASSUME NEW e \in File, RollbackRestore(e) \/ RollbackUndo(e) PROVE AnswerInv'
  BY <1>8 DEF RollbackRestore, RollbackUndo, AnswerInv, EverySourceAnswered
<1>9. ASSUME RollbackDone PROVE AnswerInv'
  <2>1. phase = "rollback" /\ phase' = "returned" /\ out'.stoppedEarly = out.stoppedEarly
    BY <1>9 DEF RollbackDone, SweepInv, MoveTypes, CopyOutcome
  <2> QED
    BY <2>1 DEF AnswerInv, EverySourceAnswered
<1>10. AnswerInv'
  BY <1>6, <1>7, <1>8, <1>9 DEF SweepAndRollback
<1> QED
  BY <1>1, <1>3, <1>4, <1>5, <1>10

LEMMA BatchStutter == ASSUME BatchInv, UNCHANGED manyVars PROVE BatchInv'
<1>1. UNCHANGED <<strategy, overwrite, skipIdentical, dest0, phase, src, dest, out, identical,
                  cleanupFailed, sweepLeft, swept, deleted, rollLeft, undoErrors>>
  BY DEF manyVars, moveVars, moveOptions, sweepVars
<1>2. UNCHANGED <<at, pending, renamed, settled, sourcesFailed>>
  BY DEF manyVars, batchVars
<1>3. SweepInv'
  BY <1>1 DEF BatchInv, SweepInv, MoveTypes, BytesInv, ReportInv, UndoInv, Early,
              GoneIsReported, UndoPutsBack, HasBytes
<1>4. LoopInv' /\ StopInv'
  BY <1>1, <1>2 DEF BatchInv, LoopInv, Passed, Early, Before, Moved, HasBytes, StopInv, LoopStopped,
                    RenamesTakenBack
<1>5. AnswerInv'
  BY <1>1, <1>2 DEF BatchInv, AnswerInv, Waiting, Before, Moved, HasBytes, EverySourceAnswered, Accounted
<1>6. NoSourceFileLost'
  BY <1>1 DEF BatchInv, NoSourceFileLost, Safe, HasBytes
<1> QED
  BY <1>3, <1>4, <1>5, <1>6 DEF BatchInv

(* BatchInv holds at the start of every batch and no step breaks it.        *)
THEOREM BatchInvariant == BatchSpec => []BatchInv
<1>1. BatchInit => BatchInv
  BY BatchInitInv
<1>2. BatchInv /\ [BatchNext]_manyVars => BatchInv'
  <2>1. ASSUME BatchInv, NEW s \in Source,
               Settle(s) \/ RenameSource(s) \/ Queue(s) \/ \E fatal \in BOOLEAN : FailSource(s, fatal)
        PROVE  BatchInv'
    BY <2>1, SettleStep, RenameSourceStep, QueueStep, FailSourceStep
  <2> QED
    BY <2>1, QuietStep, CopyBatchStep, SweepBatchStep, BatchStutter DEF BatchNext, BatchFinished
<1> QED
  BY <1>1, <1>2, PTL DEF BatchSpec

(* No file of any source is lost at any moment of a batch: it is in full at *)
(* its source or at its destination.                                        *)
THEOREM BatchLosesNothing == BatchSpec => []NoSourceFileLost
<1>1. BatchInv => NoSourceFileLost
  BY DEF BatchInv
<1> QED
  BY <1>1, BatchInvariant, PTL

(* A source failure under a stopping strategy, a fatal error in the loop or *)
(* a cancellation leaves every source not yet finished as it was.           *)
THEOREM StopLeavesTheRest == BatchSpec => []LaterSourcesUntouched
<1>1. BatchInv => LaterSourcesUntouched
  <2> SUFFICES ASSUME BatchInv PROVE LaterSourcesUntouched
    OBVIOUS
  <2>1. ASSUME StrategyReason(strategy) # None, NEW i \in DOMAIN Sources, NEW j \in DOMAIN Sources,
               Sources[i] \in sourcesFailed, j > i \/ Sources[j] \in pending
        PROVE  Before(Sources[j])
    <3>1. LoopStopped /\ Sources[i] = Sources[at]
      BY <2>1 DEF BatchInv, StopInv
    <3>2. at \in DOMAIN Sources
      BY <3>1, SourceFacts DEF BatchInv, LoopInv, LoopStopped
    <3>3. i = at
      BY <3>1, <3>2, SourcesAssumption
    <3> QED
      BY <2>1, <3>1, <3>3, SourceFacts DEF BatchInv, StopInv
  <2>2. LoopStopped => \A j \in DOMAIN Sources :
                          j >= at \/ Sources[j] \in pending => Before(Sources[j])
    BY DEF BatchInv, StopInv
  <2> QED
    BY <2>1, <2>2 DEF LaterSourcesUntouched
<1> QED
  BY <1>1, BatchInvariant, PTL

(* A batch that was not stopped accounts for each file of its sources, and  *)
(* one that ends in an Err left each source whole.                          *)
THEOREM NoSourceUnanswered == BatchSpec => []EverySourceAnswered
<1>1. BatchInv => EverySourceAnswered
  BY DEF BatchInv, AnswerInv
<1> QED
  BY <1>1, BatchInvariant, PTL

(* A source failure under Undo restores every source renamed before it.     *)
THEOREM UndoTakesRenamesBack == BatchSpec => []RenamesTakenBack
<1>1. BatchInv => RenamesTakenBack
  BY DEF BatchInv, StopInv
<1> QED
  BY <1>1, BatchInvariant, PTL
=============================================================================

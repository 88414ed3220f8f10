------------------------------ MODULE MoveMany ------------------------------
(***************************************************************************)
(* operations/move_many.rs: move several sources into one directory.  Each  *)
(* is settled, renamed or queued in turn; the queued ones then share one    *)
(* copy, sweep and rollback.  An error strategy spans the whole batch.      *)
(***************************************************************************)
EXTENDS Sweep

CONSTANTS
  Sources,       (* The sources, in the caller's order.                     *)
  FilesOf,       (* Files of each source.                                   *)
  Plain          (* The sources that are single files.                      *)

Source == {Sources[i] : i \in DOMAIN Sources}

(* basenames() refuses two sources of one name, so no source comes twice.   *)
ASSUME SourcesAssumption ==
  /\ \A i, j \in DOMAIN Sources : i # j => Sources[i] # Sources[j]
  /\ Sources \in Seq(Source) /\ FilesOf \in [Source -> SUBSET File] /\ Plain \subseteq Source
  /\ File = UNION {FilesOf[s] : s \in Source}
  /\ \A s, t \in Source : s # t => FilesOf[s] \cap FilesOf[t] = {}
  /\ \A s \in Plain : \E e \in File : FilesOf[s] = {e}

VARIABLES
  at,            (* Index of the source the loop is on.                     *)
  pending,       (* pending_fallback.                                       *)
  renamed,       (* renamed_ok.                                             *)
  settled,       (* Sources resolved as already identical.                  *)
  sourcesFailed, (* outcome.sources_failed.                                 *)
  cancelled

batchVars == <<at, pending, renamed, settled, sourcesFailed, cancelled>>
manyVars == <<moveVars, batchVars>>

Only(s)     == CHOOSE e \in FilesOf[s] : TRUE
Waiting     == UNION {FilesOf[s] : s \in pending}
SweepUntouched   == UNCHANGED <<moveOptions, identical, sweepVars>>

BatchInit ==
  /\ MoveInit /\ phase = "parent"
  /\ at = 1 /\ pending = {} /\ renamed = {} /\ settled = {} /\ sourcesFailed = {}
  /\ cancelled = FALSE

(* Later on the token only reaches Copy, whose outcomes include it.         *)
Cancel ==
  /\ ~cancelled /\ phase \in {"parent", "loop"}
  /\ cancelled' = TRUE
  /\ UNCHANGED <<moveVars, at, pending, renamed, settled, sourcesFailed>>

(* basenames() refuses the batch, or create_dir_all(dest) fails.            *)
Prepare ==
  /\ phase = "parent"
  /\ phase' \in {"loop", "error"}
  /\ SweepUntouched /\ UNCHANGED <<src, dest, out, undoErrors, batchVars>>

OnSource(s) == phase = "loop" /\ at <= Len(Sources) /\ s = Sources[at] /\ ~cancelled
GoOn == at' = at + 1 /\ UNCHANGED <<phase, out, undoErrors, cancelled>>

(* The token is looked at before each source; nothing is rolled back.       *)
StopCancelled ==
  /\ phase = "loop" /\ at <= Len(Sources) /\ cancelled
  /\ out' = [out EXCEPT !.stoppedEarly = "Cancelled"]
  /\ phase' = "returned"
  /\ SweepUntouched /\ UNCHANGED <<src, dest, undoErrors, batchVars>>

Conflicting(s) == ~overwrite /\ Conflicts(s \in Plain, dest[Only(s)])

Settle(s) ==
  /\ OnSource(s) /\ Conflicting(s) /\ SettlesAsMoved(dest[Only(s)])
  /\ src' = [src EXCEPT ![Only(s)] = FALSE]
  /\ settled' = settled \cup {s}
  /\ GoOn /\ SweepUntouched /\ UNCHANGED <<dest, pending, renamed, sourcesFailed>>

Remembered_Nothing(s) == renamed
Remembered(s) == renamed \cup {s}

(* rename(2) replaces a file; a directory only replaces an empty one.       *)
RenameSource(s) ==
  /\ OnSource(s) /\ ~Conflicting(s)
  /\ s \in Plain \/ \A e \in FilesOf[s] : dest[e] = "absent"
  /\ src' = [e \in File |-> src[e] /\ e \notin FilesOf[s]]
  /\ dest' = [e \in File |-> IF e \in FilesOf[s] THEN "copy" ELSE dest[e]]
  /\ renamed' = Remembered(s)
  /\ GoOn /\ SweepUntouched /\ UNCHANGED <<pending, settled, sourcesFailed>>

(* EXDEV: left for the shared copy.                                         *)
Queue(s) ==
  /\ OnSource(s) /\ ~Conflicting(s)
  /\ pending' = pending \cup {s}
  /\ GoOn /\ SweepUntouched /\ UNCHANGED <<src, dest, renamed, settled, sourcesFailed>>

StopsBatch_Fatal(reason) == reason = "Fatal"
StopsBatch(reason) == reason # None

RenamesBack(reason) == reason = "Undo"

Recorded_OnStopOnly(s, reason) == IF reason = None THEN sourcesFailed ELSE sourcesFailed \cup {s}
Recorded(s, reason) == sourcesFailed \cup {s}

(* A conflict, or any other error: DestExists, a rename that failed.  When  *)
(* it stops the batch under Undo the renames are undone; errors of that are *)
(* ignored.                                                                 *)
FailSource(s, fatal) ==
  LET reason == FailureReason(strategy, fatal) IN
  /\ OnSource(s)
  /\ sourcesFailed' = Recorded(s, reason)
  /\ IF StopsBatch(reason)
     THEN /\ out' = [out EXCEPT !.stoppedEarly = reason]
          /\ phase' = "returned"
          /\ \E back \in SUBSET (IF RenamesBack(reason) THEN renamed ELSE {}) :
               LET moved == UNION {FilesOf[t] : t \in back} IN
               /\ src' = [e \in File |-> src[e] \/ e \in moved]
               /\ dest' = [e \in File |-> IF e \in moved THEN "absent" ELSE dest[e]]
               /\ undoErrors' = (RenamesBack(reason) /\ back # renamed)
          /\ UNCHANGED <<at, cancelled>>
     ELSE GoOn /\ UNCHANGED <<src, dest>>
  /\ SweepUntouched /\ UNCHANGED <<pending, renamed, settled>>

(* The loop is over; only queued sources need more.                         *)
EndLoop ==
  /\ phase = "loop" /\ at > Len(Sources)
  /\ phase' = IF pending = {} THEN "returned" ELSE "copy"
  /\ SweepUntouched /\ UNCHANGED <<src, dest, out, undoErrors, batchVars>>

BatchFinished == phase \in {"returned", "error"} /\ UNCHANGED manyVars

BatchNext ==
  \/ Cancel \/ Prepare \/ StopCancelled \/ EndLoop \/ BatchFinished
  \/ \E s \in Source : Settle(s) \/ RenameSource(s) \/ Queue(s)
                       \/ (\E fatal \in BOOLEAN : FailSource(s, fatal))
  \/ (Copy(Waiting) \/ SweepAndRollback) /\ UNCHANGED batchVars

BatchSpec == BatchInit /\ [][BatchNext]_manyVars

-----------------------------------------------------------------------------
Before(s) == \A e \in FilesOf[s] : src[e] /\ dest[e] = dest0[e]
Moved(s)  == \A e \in FilesOf[s] : ~src[e] /\ HasBytes(e)
LoopStopped == phase = "returned" /\ at <= Len(Sources)

(* Under a strategy that stops, a source failure leaves every source not    *)
(* yet finished exactly as it was, the later ones and the queued ones; so   *)
(* does a cancellation or a fatal error in the loop, whatever the strategy. *)
LaterSourcesUntouched ==
  /\ StrategyReason(strategy) # None =>
       \A i, j \in DOMAIN Sources :
         Sources[i] \in sourcesFailed /\ (j > i \/ Sources[j] \in pending) => Before(Sources[j])
  /\ LoopStopped =>
       \A j \in DOMAIN Sources : j >= at \/ Sources[j] \in pending => Before(Sources[j])

(* What became of a file is known: its bytes arrived and its original is    *)
(* gone, or the outcome lists it, or the copy found it identical.  The      *)
(* identical ones stay at their source in no list (README, section 6.3).    *)
Accounted(e) ==
  \/ ~src[e] /\ HasBytes(e)
  \/ e \in out.failed \cup cleanupFailed
  \/ src[e] /\ HasBytes(e) /\ e \in identical

(* A batch that was not stopped accounts for every file of every source: a  *)
(* source in sources_failed is as it was, and each file of the others is    *)
(* accounted for.  A batch that ends in an Err, which lists nothing at all, *)
(* left each source whole: all of it moved, or all of it where it was.      *)
EverySourceAnswered ==
  /\ phase = "returned" /\ out.stoppedEarly = None =>
       \A s \in Source : IF s \in sourcesFailed THEN Before(s)
                                                 ELSE \A e \in FilesOf[s] : Accounted(e)
  /\ phase = "error" => \A s \in Source : Before(s) \/ Moved(s)

(* Without overwrite and with no failing rename back, a source failure      *)
(* under Undo restores every source renamed before it.                      *)
RenamesTakenBack ==
  LoopStopped /\ out.stoppedEarly = "Undo" /\ ~undoErrors /\ ~overwrite =>
    \A s \in Source \ settled : Before(s)

=============================================================================

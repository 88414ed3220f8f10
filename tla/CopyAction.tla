----------------------------- MODULE CopyAction -----------------------------
(***************************************************************************)
(* planner/action.rs under the dispatcher: what executing and undoing an    *)
(* entry does to its destination file, split where the code awaits the      *)
(* filesystem, with another process free to create files meanwhile.         *)
(***************************************************************************)
EXTENDS Dispatcher

CONSTANT MaxIntrusions   (* Bound: files another process creates.           *)

VARIABLES
  overwrite, skipIdentical,   (* The action's two options.                  *)
  dest,        (* Content of each entry's destination.                      *)
  dest0,       (* The same, when the call started.                          *)
  apc,         (* Where each task is inside execute.                        *)
  intrusions   (* How many files appeared from outside.                     *)

copyVars == <<overwrite, skipIdentical, dest, dest0, apc, intrusions>>

(* "same" and "copy" hold the source's bytes: the first was there before,   *)
(* the second was written by this call.  "partial" is a truncated copy.     *)
Content == {"absent", "other", "same", "copy", "partial"}
Exists(e)    == dest[e] # "absent"
Identical(e) == dest[e] \in {"same", "copy"}

CopyInit ==
  /\ Init
  /\ overwrite \in BOOLEAN /\ skipIdentical \in BOOLEAN
  /\ dest \in [Entry -> {"absent", "other", "same"}] /\ dest0 = dest
  /\ apc = [u \in UnitId |-> "parent"] /\ intrusions = 0

Goto(u, label) == apc' = [apc EXCEPT ![u] = label]
Stay == UNCHANGED vars
Options == UNCHANGED <<overwrite, skipIdentical, dest0, intrusions>>

(* An io error is fatal only when it means the disk is full.                *)
FailExecute(u) == (\E r \in {"Error", "Fatal"} : Execute(u, r)) /\ Goto(u, "parent")

(* create_dir_all(parent).                                                  *)
MakeParent(u) ==
  /\ wpc[u] = "execute" /\ apc[u] = "parent"
  /\ \/ Stay /\ Goto(u, IF overwrite THEN "copy" ELSE "check")
     \/ FailExecute(u)
  /\ Options /\ UNCHANGED dest

SkipResult_CountsAsWritten == "Written"
SkipResult == "Skipped"

Conflict(e) == Exists(e)

(* metadata(dest), and the hashes when the file is there.                   *)
CheckDest(u) ==
  /\ wpc[u] = "execute" /\ apc[u] = "check"
  /\ LET e == EntryOf(u) IN
       \/ ~Conflict(e) /\ Stay /\ Goto(u, "copy")
       \/ Conflict(e) /\ skipIdentical /\ Identical(e)
            /\ Execute(u, SkipResult) /\ Goto(u, "parent")
       \/ Conflict(e) /\ ~(skipIdentical /\ Identical(e))
            /\ Execute(u, "Error") /\ Goto(u, "parent")      \* DestExists
       \/ FailExecute(u)                                     \* metadata or hash failed
  /\ Options /\ UNCHANGED dest

(* fs::copy: opening the source may fail with the destination untouched;    *)
(* from then on the destination is truncated until the last byte is in.     *)
BeginCopy(u) ==
  /\ wpc[u] = "execute" /\ apc[u] = "copy"
  /\ \/ Stay /\ Goto(u, "copying") /\ dest' = [dest EXCEPT ![EntryOf(u)] = "partial"]
     \/ FailExecute(u) /\ UNCHANGED dest
  /\ Options

BrokenCopyResult_Written == "Written"
BrokenCopyResult == "Error"

EndCopy(u) ==
  /\ wpc[u] = "execute" /\ apc[u] = "copying"
  /\ \/ /\ Execute(u, "Written")
        /\ dest' = [dest EXCEPT ![EntryOf(u)] = "copy"]
     \/ (Execute(u, BrokenCopyResult) \/ Execute(u, "Fatal")) /\ UNCHANGED dest
  /\ Goto(u, "parent") /\ Options

UndoResult_Keeps(e) == dest[e]
UndoResult(e) == "absent"

(* undo: remove_file, a missing file counts as removed.                     *)
UndoCopy ==
  /\ \/ /\ UndoOne(TRUE)
        /\ LET e == out.succeeded[undoLeft] IN dest' = [dest EXCEPT ![e] = UndoResult(e)]
     \/ UndoOne(FALSE) /\ UNCHANGED dest
  /\ Options /\ UNCHANGED apc

(* Another process creates a destination that did not exist.                *)
Intrude(e) ==
  /\ intrusions < MaxIntrusions /\ mpc # "returned"
  /\ dest[e] = "absent"
  /\ dest' = [dest EXCEPT ![e] = "other"]
  /\ intrusions' = intrusions + 1
  /\ UNCHANGED <<vars, overwrite, skipIdentical, dest0, apc>>

CopyTask(u) == MakeParent(u) \/ CheckDest(u) \/ BeginCopy(u) \/ EndCopy(u)

(* What the dispatcher does without touching a destination.                 *)
Engine ==
  /\ \/ CheckStop \/ SelectCancelled \/ SelectPermit \/ RecheckStop \/ Spawn \/ Join
     \/ UndoDone \/ Cancel \/ Returned
     \/ \E u \in UnitId : StartEntry(u) \/ ReportEntry(u) \/ RecordEntry(u)
                          \/ HaltUnit(u) \/ ExitUnit(u) \/ Sampler(u)
  /\ UNCHANGED copyVars

CopyNext ==
  \/ Engine \/ UndoCopy
  \/ \E u \in UnitId : CopyTask(u)
  \/ \E e \in Entry : Intrude(e)

CopySpec == CopyInit /\ [][CopyNext]_<<vars, copyVars>>

-----------------------------------------------------------------------------
(* Without overwrite, a file that was at the destination before the call is *)
(* never touched: not by the copy, not by a failure, not by a rollback that *)
(* runs over entries that were skipped or refused.                          *)
ExistingFileKept ==
  ~overwrite => \A e \in Entry : dest0[e] # "absent" => dest[e] = dest0[e]

(* The outcome tells the truth about the files: what succeeded is a whole   *)
(* copy, what was skipped holds the source's bytes, and a truncated file is *)
(* only ever left by an entry that is reported as failed.  A rollback       *)
(* leaves none of its copies behind, save those whose removal failed.       *)
OutcomeMatchesFiles ==
  mpc = "returned" =>
    /\ \A e \in Entries(out.succeeded) : dest[e] = "copy"
    /\ \A e \in Entries(out.skipped) : Identical(e)
    /\ \A e \in Entry : dest[e] = "partial" => e \in Entries(out.failed)
    /\ \A e \in Entry : dest[e] = "copy" => e \in Entries(out.succeeded) \cup undoFailed

=============================================================================

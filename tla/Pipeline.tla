------------------------------ MODULE Pipeline ------------------------------
(***************************************************************************)
(* operations/pipeline.rs: the phases around dispatch that copy, move, sync *)
(* and move_many share.  The destination's volume is probed (FsCaps), the   *)
(* scanned tree is validated against its capabilities                       *)
(* (profiler/validate.rs), tasks create the directories no file will        *)
(* create, the plan is dispatched, and directory modes are applied last.    *)
(* dispatch() is represented by what it promises.                           *)
(***************************************************************************)
EXTENDS Outcomes, FsCaps

CONSTANTS
  File, Dir,   (* What the scan found.                                      *)
  Above,       (* The directories above each file and directory.            *)
  Key,         (* Case-folded, normalized relative path of each of them.    *)
  TooLarge,    (* Files over the destination's size limit.                  *)
  Reserved,    (* Items with a component Windows reserves.                  *)
  Mounts,      (* Hosts and volumes a destination may be on.                *)
  Concurrency  (* The call's concurrency.                                   *)

Item == File \cup Dir

ASSUME TreeAssumption ==
  /\ File \cap Dir = {} /\ TooLarge \subseteq File /\ Reserved \subseteq Item
  /\ Above \in [Item -> SUBSET Dir]
  /\ \A x \in Item : \A d \in Above[x] : d \in Reserved => x \in Reserved
  /\ Concurrency \in Nat

(* fs_caps/mod.rs: of the filesystems Linux can name, only those its table  *)
(* lists fold case.                                                         *)
ASSUME MountAssumption ==
  \A m \in Mounts : m.host = "linux" /\ m.volume.folds =>
    NameOnLinux(m.volume.name) \in FatFamily \cup {"exfat", "ntfs", "unknown"}

VARIABLES
  strategy, skipIdentical, preserve,   (* The call's options.               *)
  mount,       (* The host and the volume of the destination.               *)
  queryFails,  (* Does the query for case sensitivity fail?                 *)
  caps,        (* The capabilities the probe found.                         *)
  phase,       (* Where run_workload_pipeline is.                           *)
  files, dirs, (* What validation left in the workload.                     *)
  out,         (* The outcome under construction.                           *)
  dirsFailed,  (* out.directories_failed.                                   *)
  todo, making,   (* Directories the pass has to create, and tasks at it.   *)
  destFiles, destDirs,   (* What is at the destination.                     *)
  moded,       (* Directories whose mode was applied.                       *)
  identical    (* Files the action found identical and left alone.          *)

options == <<strategy, skipIdentical, preserve, mount, queryFails>>
world   == <<destFiles, destDirs, moded, identical>>
vars == <<options, phase, files, dirs, out, dirsFailed, caps, todo, making, world>>

Init ==
  /\ strategy \in Strategies /\ skipIdentical \in BOOLEAN /\ preserve \in BOOLEAN
  /\ mount \in Mounts /\ queryFails \in BOOLEAN /\ caps = {}
  /\ phase = "probe"
  /\ files = File /\ dirs = Dir
  /\ out = EmptyOutcome /\ dirsFailed = {} /\ todo = {} /\ making = {}
  /\ destFiles = {} /\ destDirs = {} /\ moded = {} /\ identical = {}

-----------------------------------------------------------------------------
(* run_copy_pipeline: scan and probe, on the nearest ancestor that exists;  *)
(* either may fail the call.                                                *)
Probe ==
  /\ phase = "probe"
  /\ \/ phase' = "error" /\ UNCHANGED caps
     \/ phase' = "validate" /\ caps' = Probed(mount.host, mount.volume, queryFails)
  /\ UNCHANGED <<options, files, dirs, out, dirsFailed, todo, making, world>>

(* reject_case_collisions: every member of a group of equal keys goes.      *)
Collides(x) == \E y \in Item : y # x /\ Key[y] = Key[x]
Colliding_KeepsOne ==
  {x \in Item : Collides(x) /\ x # CHOOSE w \in Item : Key[w] = Key[x]}
Colliding == {x \in Item : Collides(x)}

Violating ==
  (IF caps.sizeLimit THEN TooLarge ELSE {}) \cup (IF caps.windowsNames THEN Reserved ELSE {})

Rejected == (IF caps.caseSensitive THEN {} ELSE Colliding) \cup Violating

(* directories_covered_by_files: dispatch creates the others by copying.    *)
Uncovered_ByScannedFiles(fs, ds) == ds \ UNION {Above[f] : f \in File}
Uncovered(fs, ds) == ds \ UNION {Above[f] : f \in fs}

StopsOnRejection == Rejected # {} /\ StrategyReason(strategy) # None

(* An Err aborts the whole call; rejections stop it or shrink the workload. *)
Validate ==
  /\ phase = "validate"
  /\ \E riskAllowed \in BOOLEAN :
     IF caps.integrityRisk /\ ~riskAllowed
     THEN phase' = "error" /\ UNCHANGED <<files, dirs, out, dirsFailed, todo>>
     ELSE /\ files' = File \ Rejected /\ dirs' = Dir \ Rejected
          /\ dirsFailed' = Dir \cap Rejected
          /\ out' = [out EXCEPT !.failed = File \cap Rejected,
                                !.stoppedEarly = IF StopsOnRejection
                                                 THEN StrategyReason(strategy) ELSE None]
          /\ phase' = IF StopsOnRejection THEN "returned" ELSE "mkdirs"
          /\ todo' = IF StopsOnRejection THEN {} ELSE Uncovered(files', dirs')
  /\ UNCHANGED <<options, caps, making, world>>

(* ensure_directories_exist: a task for each, one permit each, none of      *)
(* which looks at the token or stops the others.                            *)
SpawnDirectory(d) ==
  /\ phase = "mkdirs" /\ d \in todo
  /\ Cardinality(making) < (IF Concurrency = 0 THEN 1 ELSE Concurrency)
  /\ todo' = todo \ {d} /\ making' = making \cup {d}
  /\ UNCHANGED <<options, caps, phase, files, dirs, out, dirsFailed, world>>

(* create_dir_all: a failure may leave directories above it behind.         *)
EndDirectory(d) ==
  /\ d \in making
  /\ making' = making \ {d}
  /\ \/ destDirs' = destDirs \cup Above[d] \cup {d} /\ UNCHANGED dirsFailed
     \/ destDirs' \in {destDirs, destDirs \cup Above[d]} /\ dirsFailed' = dirsFailed \cup {d}
  /\ UNCHANGED <<options, caps, phase, files, dirs, out, todo, destFiles, moded, identical>>

AllMade_NotJoined == todo = {}
AllMade == todo = {} /\ making = {}

EndDirectoryPass ==
  /\ phase = "mkdirs" /\ AllMade
  /\ phase' = "dispatch"
  /\ UNCHANGED <<options, caps, files, dirs, out, dirsFailed, todo, making, world>>

DirectoryPass == EndDirectoryPass \/ \E d \in Dir : SpawnDirectory(d) \/ EndDirectory(d)

(* The outcome was created by validation; dispatch's lists are added to it. *)
AllFailed_Replaced(o) == o.failed
AllFailed(o) == out.failed \cup o.failed

(* plan() and dispatch(): of its outcome, skipped is not copied over.       *)
Dispatch ==
  /\ phase = "dispatch"
  /\ \E o \in DispatchOutcomes(files, strategy), reached \in SUBSET files :
       /\ o.succeeded \cup o.skipped \subseteq reached
       /\ o.skipped # {} => skipIdentical
       /\ destFiles' = destFiles \cup o.succeeded \cup o.skipped
       /\ destDirs' = destDirs \cup UNION {Above[f] : f \in reached}
       /\ identical' = o.skipped
       /\ out' = [succeeded |-> o.succeeded, failed |-> AllFailed(o),
                  skipped |-> out.skipped, stoppedEarly |-> o.stoppedEarly]
  /\ phase' = "modes"
  /\ UNCHANGED <<options, caps, files, dirs, dirsFailed, todo, making, moded>>

AppliesModes == preserve /\ out.stoppedEarly = None

(* A directory that is not there cannot be given a mode.                    *)
Missing == dirs \ destDirs

(* apply_directory_permissions over the directories the validation left.    *)
ApplyModes ==
  /\ phase = "modes"
  /\ IF AppliesModes
     THEN \E broken \in SUBSET dirs :
            /\ Missing \subseteq broken
            /\ moded' = dirs \ broken
            /\ dirsFailed' = dirsFailed \cup broken
     ELSE UNCHANGED <<moded, dirsFailed>>
  /\ phase' = "returned"
  /\ UNCHANGED <<options, caps, files, dirs, out, todo, making, destFiles, destDirs, identical>>

Finished == phase \in {"returned", "error"} /\ UNCHANGED vars

Next == Probe \/ Validate \/ DirectoryPass \/ Dispatch \/ ApplyModes \/ Finished

Spec == Init /\ [][Next]_vars

-----------------------------------------------------------------------------
(* No directory is lost because a file that would have created it was       *)
(* rejected: it exists, or its failure is reported, or that of a file in it *)
(* which dispatch was given.                                                *)
EveryDirAccounted ==
  phase = "returned" /\ out.stoppedEarly = None =>
    \A d \in Dir : \/ d \in destDirs \cup dirsFailed
                   \/ \E f \in out.failed \ Rejected : d \in Above[f]

(* On a volume that folds case, however it is mounted, no file is written   *)
(* under a name that another scanned file claims: none silently replaces    *)
(* another, and none is silently preferred to another.  It takes a probe    *)
(* that can tell: a volume of unknown type, or whose query failed, counts   *)
(* as case-sensitive, and is not protected.                                 *)
NoSilentReplacement ==
  mount.volume.folds /\ TellsCase(mount.host, mount.volume, queryFails) =>
    \A f \in destFiles, g \in File : Key[f] = Key[g] => f = g

(* The outcome a pipeline answers, with the files it found identical, obeys *)
(* for the whole scan what dispatch promises for the files it was given:    *)
(* each is in one list, and a rejected file counts as a failure towards the *)
(* strategy too.                                                            *)
KeepsPromise ==
  phase = "returned" => IsCopyOutcome([out EXCEPT !.skipped = identical], File, strategy)
=============================================================================

--------------------------- MODULE PipelineProofs ---------------------------
(***************************************************************************)
(* What the phases around dispatch keep true for any tree, destination,     *)
(* strategy and concurrency: no directory is forgotten, no file silently    *)
(* replaces another, and the answer is as good as dispatch's own.           *)
(***************************************************************************)
EXTENDS Pipeline, TLAPS

Accounted(d) ==
  \/ d \in destDirs \cup dirsFailed
  \/ \E f \in out.failed \ Rejected : d \in Above[f]

(* The answer so far, with the files found identical as the skipped ones.   *)
Answer == [out EXCEPT !.skipped = identical]

(* Before validation nothing was rejected and nothing is at the destination. *)
StartInv ==
  phase \in {"probe", "validate"} =>
    /\ files = File /\ dirs = Dir /\ out = EmptyOutcome /\ todo = {} /\ making = {}

(* From then on the workload is what was not rejected, on the capabilities  *)
(* probed, and a rejection under a stopping strategy ended the call.        *)
ShrunkInv ==
  phase \notin {"probe", "validate", "error"} =>
    /\ files = File \ Rejected /\ dirs = Dir \ Rejected
    /\ Dir \cap Rejected \subseteq dirsFailed
    /\ StopsOnRejection => phase = "returned"

(* The files of the destination are those dispatch reached.                 *)
FilesInv ==
  /\ phase \in {"probe", "validate", "mkdirs", "dispatch"} => destFiles = {} /\ identical = {}
  /\ destFiles # {} => phase \in {"modes", "returned"}
  /\ destFiles \subseteq files

(* The pass has each directory no file will create in its hands, until it   *)
(* exists or is reported.                                                   *)
PassInv ==
  /\ phase \in {"mkdirs", "dispatch"} =>
       out = [succeeded |-> {}, skipped |-> {}, failed |-> File \cap Rejected,
              stoppedEarly |-> None]
  /\ phase = "mkdirs" =>
       Uncovered(files, dirs) \subseteq todo \cup making \cup destDirs \cup dirsFailed
  /\ phase = "dispatch" => Uncovered(files, dirs) \subseteq destDirs \cup dirsFailed
  /\ making # {} => phase = "mkdirs"

(* What the last phases hand on.                                            *)
AnswerInv ==
  /\ phase \in {"modes", "returned"} =>
       IsCopyOutcome(Answer, File, strategy) /\ (out.stoppedEarly = None => \A d \in Dir : Accounted(d))

PipelineInv ==
  /\ strategy \in Strategies /\ mount \in Mounts
  /\ phase \in {"probe", "validate", "mkdirs", "dispatch", "modes", "returned", "error"}
  /\ phase \notin {"probe", "error"} => caps = Probed(mount.host, mount.volume, queryFails)
  /\ StartInv /\ ShrunkInv /\ FilesInv /\ PassInv /\ AnswerInv

-----------------------------------------------------------------------------
LEMMA PipelineInit == ASSUME Init PROVE PipelineInv
  BY DEF Init, PipelineInv, StartInv, ShrunkInv, FilesInv, PassInv, AnswerInv

LEMMA ProbeStep == ASSUME PipelineInv, Probe PROVE PipelineInv'
  BY DEF Probe, options, world, PipelineInv, StartInv, ShrunkInv, FilesInv, PassInv, AnswerInv

(* An outcome made of rejected files alone is one a pipeline may answer.    *)
LEMMA RejectionIsAnswer ==
  ASSUME strategy \in Strategies, StopsOnRejection, NEW R \in SUBSET File
  PROVE  IsCopyOutcome([succeeded |-> {}, skipped |-> {}, failed |-> R,
                        stoppedEarly |-> StrategyReason(strategy)], File, strategy)
<1>1. StrategyReason(strategy) = strategy /\ strategy \in {"AbortOnError", "Undo"}
  BY DEF StopsOnRejection, StrategyReason, Strategies
<1>2. CASE R = {}
  BY <1>1, <1>2 DEF IsCopyOutcome, EmptyOutcome, None
<1>3. CASE R # {}
  BY <1>1, <1>3 DEF IsCopyOutcome, IsDispatchOutcome, None
<1> QED
  BY <1>2, <1>3

LEMMA ValidateStep == ASSUME PipelineInv, Validate PROVE PipelineInv'
<1>1. /\ phase = "validate" /\ out = EmptyOutcome /\ making = {} /\ destFiles = {} /\ identical = {}
      /\ caps = Probed(mount.host, mount.volume, queryFails)
      /\ UNCHANGED <<options, caps, making, world>>
  BY DEF Validate, PipelineInv, StartInv, FilesInv
<1>2. Rejected' = Rejected /\ StopsOnRejection' = StopsOnRejection
  BY <1>1 DEF Rejected, Violating, StopsOnRejection, options
<1>3. CASE phase' = "error"
  BY <1>1, <1>3 DEF options, world, PipelineInv, StartInv, ShrunkInv, FilesInv, PassInv, AnswerInv
<1>4. CASE phase' # "error"
  <2>1. /\ files' = File \ Rejected /\ dirs' = Dir \ Rejected
        /\ dirsFailed' = Dir \cap Rejected
        /\ out' = [EmptyOutcome EXCEPT !.failed = File \cap Rejected,
                     !.stoppedEarly = IF StopsOnRejection THEN StrategyReason(strategy) ELSE None]
        /\ phase' = IF StopsOnRejection THEN "returned" ELSE "mkdirs"
        /\ todo' = IF StopsOnRejection THEN {} ELSE Uncovered(files', dirs')
    BY <1>1, <1>4 DEF Validate
  <2>2. CASE StopsOnRejection
    <3>1. out' = [succeeded |-> {}, skipped |-> {}, failed |-> File \cap Rejected,
                  stoppedEarly |-> StrategyReason(strategy)]
      BY <2>1, <2>2 DEF EmptyOutcome
    <3>2. Answer' = out'
      <4>1. identical' = {}
        BY <1>1 DEF world
      <4> QED
        BY <3>1, <4>1 DEF Answer
    <3>3. IsCopyOutcome(Answer, File, strategy)'
      BY <1>1, <2>2, <3>1, <3>2, RejectionIsAnswer DEF options, PipelineInv
    <3>4. out'.stoppedEarly # None
      BY <2>2, <3>1 DEF StopsOnRejection
    <3> QED
      BY <1>1, <1>2, <2>1, <2>2, <3>3, <3>4
         DEF options, world, PipelineInv, StartInv, ShrunkInv, FilesInv, PassInv, AnswerInv
  <2>3. CASE ~StopsOnRejection
    <3>1. out' = [succeeded |-> {}, skipped |-> {}, failed |-> File \cap Rejected,
                  stoppedEarly |-> None]
      BY <2>1, <2>3 DEF EmptyOutcome
    <3> QED
      BY <1>1, <1>2, <2>1, <2>3, <3>1
         DEF options, world, PipelineInv, StartInv, ShrunkInv, FilesInv, PassInv, AnswerInv
  <2> QED
    BY <2>2, <2>3
<1> QED
  BY <1>3, <1>4

(* The directory pass drops nothing it was given.                           *)
LEMMA DirectoryStep == ASSUME PipelineInv, DirectoryPass PROVE PipelineInv'
<1>1. /\ phase = "mkdirs" /\ ~StopsOnRejection
      /\ UNCHANGED <<options, caps, files, dirs, out, destFiles, identical>>
  <2>1. phase = "mkdirs"
    BY DEF DirectoryPass, EndDirectoryPass, SpawnDirectory, EndDirectory, PipelineInv, PassInv
  <2> QED
    BY <2>1 DEF DirectoryPass, EndDirectoryPass, SpawnDirectory, EndDirectory, world,
                PipelineInv, ShrunkInv, PassInv
<1>2. Rejected' = Rejected /\ StopsOnRejection' = StopsOnRejection
      /\ Uncovered(files, dirs)' = Uncovered(files, dirs)
  BY <1>1 DEF Rejected, Violating, StopsOnRejection, Uncovered, options
<1> DEFINE HandedOn ==
      /\ phase' \in {"mkdirs", "dispatch"} /\ dirsFailed \subseteq dirsFailed'
      /\ phase' = "mkdirs" =>
           Uncovered(files, dirs) \subseteq todo' \cup making' \cup destDirs' \cup dirsFailed'
      /\ phase' = "dispatch" => Uncovered(files, dirs) \subseteq destDirs' \cup dirsFailed'
      /\ making' # {} => phase' = "mkdirs"
<1>3. HandedOn
  <2>1. CASE EndDirectoryPass
    BY <1>1, <2>1 DEF EndDirectoryPass, AllMade, world, PipelineInv, PassInv
  <2>2. ASSUME NEW d \in Dir, SpawnDirectory(d) \/ EndDirectory(d)
        PROVE  HandedOn
    BY <1>1, <2>2 DEF SpawnDirectory, EndDirectory, world, PipelineInv, PassInv
  <2> QED
    BY <2>1, <2>2 DEF DirectoryPass
<1> QED
  BY <1>1, <1>2, <1>3
     DEF options, PipelineInv, StartInv, ShrunkInv, FilesInv, PassInv, AnswerInv

-----------------------------------------------------------------------------
(* Rejected files, where they did not stop the call, add to what dispatch   *)
(* answers for the others without breaking its promise.                     *)
LEMMA AnswerWithRejected ==
  ASSUME ~StopsOnRejection, strategy \in Strategies,
         NEW o, IsDispatchOutcome(o, File \ Rejected, strategy)
  PROVE  IsDispatchOutcome([succeeded |-> o.succeeded, skipped |-> o.skipped,
                            failed |-> (File \cap Rejected) \cup o.failed,
                            stoppedEarly |-> o.stoppedEarly], File, strategy)
<1>1. strategy = "ContinueAndCollect" \/ File \cap Rejected = {}
  BY DEF StopsOnRejection, StrategyReason, Strategies, None
<1> QED
  BY <1>1 DEF IsDispatchOutcome, None

LEMMA DispatchStep == ASSUME PipelineInv, Dispatch PROVE PipelineInv'
<1>1. /\ phase = "dispatch" /\ phase' = "modes" /\ ~StopsOnRejection
      /\ files = File \ Rejected /\ dirs = Dir \ Rejected /\ making = {}
      /\ out.failed = File \cap Rejected
      /\ UNCHANGED <<options, files, dirs, dirsFailed, caps, todo, making>>
  BY DEF Dispatch, PipelineInv, ShrunkInv, PassInv
<1>2. Rejected' = Rejected /\ StopsOnRejection' = StopsOnRejection
  BY <1>1 DEF Rejected, Violating, StopsOnRejection, options
<1>3. PICK o \in DispatchOutcomes(files, strategy), reached \in SUBSET files :
        /\ o.succeeded \cup o.skipped \subseteq reached
        /\ destFiles' = destFiles \cup o.succeeded \cup o.skipped
        /\ destDirs' = destDirs \cup UNION {Above[f] : f \in reached}
        /\ identical' = o.skipped
        /\ out' = [succeeded |-> o.succeeded, failed |-> AllFailed(o),
                   skipped |-> out.skipped, stoppedEarly |-> o.stoppedEarly]
  BY DEF Dispatch
<1>4. IsDispatchOutcome(o, files, strategy)
  BY DEF DispatchOutcomes
<1>5. AllFailed(o) = (File \cap Rejected) \cup o.failed
  BY <1>1 DEF AllFailed
<1>6. Answer' = [succeeded |-> o.succeeded, skipped |-> o.skipped,
                 failed |-> (File \cap Rejected) \cup o.failed, stoppedEarly |-> o.stoppedEarly]
  BY <1>3, <1>5 DEF Answer
<1>7. IsCopyOutcome(Answer, File, strategy)'
  BY <1>1, <1>4, <1>6, AnswerWithRejected DEF IsCopyOutcome, options, PipelineInv
<1>8. ASSUME out'.stoppedEarly = None, NEW d \in Dir PROVE Accounted(d)'
  <2>1. o.succeeded \cup o.skipped \cup o.failed = files
    BY <1>3, <1>4, <1>8 DEF IsDispatchOutcome
  <2>2. CASE d \in Rejected
    BY <1>1, <2>2 DEF Accounted, PipelineInv, ShrunkInv
  <2>3. CASE d \in Uncovered(files, dirs)
    BY <1>1, <1>3, <2>3 DEF Accounted, PipelineInv, PassInv
  <2>4. CASE d \notin Rejected /\ d \notin Uncovered(files, dirs)
    <3>1. PICK f \in files : d \in Above[f]
      BY <1>1, <2>4 DEF Uncovered
    <3>2. CASE f \in reached
      BY <1>3, <3>1, <3>2 DEF Accounted
    <3>3. CASE f \notin reached
      <4>1. f \in o.failed /\ f \notin Rejected'
        BY <1>1, <1>2, <1>3, <2>1, <3>3
      <4> QED
        BY <1>3, <1>5, <3>1, <4>1 DEF Accounted
    <3> QED
      BY <3>2, <3>3
  <2> QED
    BY <2>2, <2>3, <2>4
<1>9. destFiles' \subseteq files
  BY <1>3 DEF PipelineInv, FilesInv
<1> QED
  BY <1>1, <1>2, <1>7, <1>8, <1>9
     DEF options, PipelineInv, StartInv, ShrunkInv, FilesInv, PassInv, AnswerInv

LEMMA ModesStep == ASSUME PipelineInv, ApplyModes PROVE PipelineInv'
<1>1. /\ phase = "modes" /\ phase' = "returned" /\ dirsFailed \subseteq dirsFailed'
      /\ UNCHANGED <<options, caps, files, dirs, out, todo, making, destFiles, destDirs, identical>>
  BY DEF ApplyModes
<1>2. Rejected' = Rejected /\ StopsOnRejection' = StopsOnRejection /\ Answer' = Answer
  BY <1>1 DEF Rejected, Violating, StopsOnRejection, Answer, options
<1>3. ASSUME NEW d \in Dir, Accounted(d) PROVE Accounted(d)'
  BY <1>1, <1>2, <1>3 DEF Accounted
<1> QED
  BY <1>1, <1>2, <1>3
     DEF options, PipelineInv, StartInv, ShrunkInv, FilesInv, PassInv, AnswerInv

LEMMA PipelineStutter == ASSUME PipelineInv, UNCHANGED vars PROVE PipelineInv'
  BY DEF vars, options, world, PipelineInv, StartInv, ShrunkInv, FilesInv, PassInv, AnswerInv,
         Accounted, Answer, Rejected, Violating, StopsOnRejection

(* The phases hand on what each needs of those before it: the workload left *)
(* by validation, the directories in the pass's hands, dispatch's answer.   *)
THEOREM PipelineInvariant == Spec => []PipelineInv
<1>1. Init => PipelineInv
  BY PipelineInit
<1>2. PipelineInv /\ [Next]_vars => PipelineInv'
  BY ProbeStep, ValidateStep, DirectoryStep, DispatchStep, ModesStep, PipelineStutter
     DEF Next, Finished
<1> QED
  BY <1>1, <1>2, PTL DEF Spec

-----------------------------------------------------------------------------
(* Every scanned directory is at the destination or in the report, directly *)
(* or through a file of it that dispatch could not copy.                    *)
THEOREM DirectoriesAccounted == Spec => []EveryDirAccounted
<1>1. PipelineInv => EveryDirAccounted
  BY DEF PipelineInv, AnswerInv, Accounted, EveryDirAccounted
<1> QED
  BY <1>1, PipelineInvariant, PTL

(* A pipeline answers for the whole scan as dispatch does for its files.    *)
THEOREM PipelinePromise == Spec => []KeepsPromise
<1>1. PipelineInv => KeepsPromise
  BY DEF PipelineInv, AnswerInv, Answer, KeepsPromise
<1> QED
  BY <1>1, PipelineInvariant, PTL

(* Where the probe can tell that a volume folds case, both files of a       *)
(* colliding pair are rejected, so that neither replaces the other.         *)
THEOREM NoneReplaced == Spec => []NoSilentReplacement
<1>1. PipelineInv => NoSilentReplacement
  <2> SUFFICES ASSUME PipelineInv, mount.volume.folds,
                      TellsCase(mount.host, mount.volume, queryFails),
                      NEW f \in destFiles, NEW g \in File, Key[f] = Key[g], f # g
               PROVE  FALSE
    BY DEF NoSilentReplacement
  <2>1. phase \in {"modes", "returned"} /\ f \in File \ Rejected
    BY DEF PipelineInv, FilesInv, ShrunkInv
  <2>2. ~caps.caseSensitive
    <3>1. caps.caseSensitive = CaseSensitive(mount.host, mount.volume, queryFails)
      BY <2>1 DEF PipelineInv, Probed
    <3>2. mount.host = "linux" => NameOnLinux(mount.volume.name) \in FatFamily \cup {"exfat", "ntfs", "unknown"}
      BY MountAssumption DEF PipelineInv
    <3> QED
      BY <3>1, <3>2 DEF CaseSensitive, TellsCase, Folding
  <2>3. f \in Colliding
    BY <2>1 DEF Colliding, Collides, Item
  <2> QED
    BY <2>1, <2>2, <2>3 DEF Rejected
<1> QED
  BY <1>1, PipelineInvariant, PTL
=============================================================================

-------------------------------- MODULE Sync --------------------------------
(***************************************************************************)
(* operations/sync.rs and diff.rs: mirror a source into a destination.  A   *)
(* diff of two scans yields the entries to copy and the orphans to delete;  *)
(* the copy pipeline runs first and the delete sweep only if it was not     *)
(* stopped.  Meanwhile the source may be edited.  Runs are repeated, as     *)
(* mirrors are.                                                             *)
(*                                                                          *)
(* Files are kept by name at the source, by slot at the destination: names  *)
(* the destination's filesystem does not distinguish share a slot.          *)
(***************************************************************************)
EXTENDS Outcomes, FsCaps

CONSTANTS
  Name,          (* Relative paths.                                         *)
  Nfc, Key,      (* The NFC form of each, and that form in lower case.      *)
  Mounts,        (* Hosts and volumes a destination may be on; of each also *)
                 (* what its filesystem does: slots, the file each name     *)
                 (* denotes, and resolution, the step of its timestamps.    *)
  Data, SizeOf,  (* File contents; their sizes, and a truncated copy's.     *)
  Sources0,      (* Sources a run may start from.                           *)
  Dests0,        (* Destinations a run may start from.                      *)
  MaxTime,       (* Bound: the clock.                                       *)
  MaxEdits,      (* Bound: edits of the source.                             *)
  MaxRounds      (* Bound: calls of sync.                                   *)

Partial == "partial"
NoFile == [name |-> "none", data |-> "none", mtime |-> 0]
FileOf(n, d, t) == [name |-> n, data |-> d, mtime |-> t]
IsFile(f) == f # NoFile
Held(files) == {k \in DOMAIN files : IsFile(files[k])}

(* What may be in a tree; a destination may hold a copy cut short before.   *)
Trees(data) == [Name -> {NoFile} \cup [name : Name, data : data, mtime : Nat]]

ASSUME SyncAssumption ==
  /\ DOMAIN Nfc = Name /\ "none" \notin Name
  /\ \A m \in Mounts : m.slots \in [Name -> Name] /\ m.resolution \in Nat
  /\ SizeOf \in [Data \cup {Partial} -> Nat]
  /\ \A d \in Data : SizeOf[d] # SizeOf[Partial]
  /\ \A files \in Sources0 : files \in Trees(Data) /\ \A n \in Held(files) : files[n].name = n
  /\ \A files \in Dests0 : files \in Trees(Data \cup {Partial})
  /\ MaxTime \in Nat /\ MaxEdits \in Nat /\ MaxRounds \in Nat

VARIABLES
  strategy, overwrite, checksum,   (* Options.                              *)
  slotOf, resolution,              (* The destination's filesystem,         *)
  granularity, caseSensitive,      (* and what the probe says of it.        *)
  phase,       (* Where sync is.                                            *)
  source, dest,
  clock, edits, rounds,
  scanned,     (* Names the diff found at the source.                       *)
  toCopy, delLeft,
  copyOut,     (* SyncOutcome.copy                                          *)
  delOut,      (* SyncOutcome.delete                                        *)
  quiet        (* History: no edit since the diff of the last answered call.*)

options == <<strategy, overwrite, checksum, slotOf, resolution, granularity, caseSensitive>>
plan    == <<scanned, toCopy>>
vars == <<options, phase, source, dest, clock, edits, rounds, plan, delLeft, copyOut, delOut, quiet>>

(* No two of the names denote one file of the destination.                  *)
OnePerSlot(names) == \A m, n \in names : slotOf[m] = slotOf[n] => m = n

Init ==
  /\ strategy \in Strategies /\ overwrite \in BOOLEAN /\ checksum \in BOOLEAN
  /\ \E m \in Mounts, queryFails \in BOOLEAN :
       LET caps == Probed(m.host, m.volume, queryFails) IN
       /\ slotOf = m.slots /\ resolution = m.resolution
       /\ granularity = caps.granularity /\ caseSensitive = caps.caseSensitive
  /\ source \in Sources0
  /\ dest \in Dests0 /\ \A s \in Held(dest) : slotOf[dest[s].name] = s
  /\ phase = "diff" /\ clock = 1 /\ edits = 0 /\ rounds = 1
  /\ scanned = {} /\ toCopy = {} /\ delLeft = {}
  /\ copyOut = EmptyOutcome /\ delOut = EmptyOutcome /\ quiet = FALSE

-----------------------------------------------------------------------------
(* The world: time passes, and somebody rewrites, creates or removes a file *)
(* of the source, with the time of the edit or with a preserved, older one. *)
Tick ==
  /\ clock < MaxTime
  /\ clock' = clock + 1
  /\ UNCHANGED <<options, phase, source, dest, edits, rounds, plan, delLeft, copyOut, delOut, quiet>>

Edit(n, f) ==
  /\ edits < MaxEdits /\ source[n] # f
  /\ source' = [source EXCEPT ![n] = f]
  /\ edits' = edits + 1 /\ quiet' = FALSE
  /\ UNCHANGED <<options, phase, dest, clock, rounds, plan, delLeft, copyOut, delOut>>

-----------------------------------------------------------------------------
(* diff(): entries are matched by the normalized form of their names.       *)
MatchKey_Raw(n) == n
MatchKey(n) == Nfc[n]

Tolerance_None == 0
Tolerance == granularity

(* The filesystem rounds a timestamp down.                                  *)
Stored(t) == IF resolution = 0 THEN t ELSE (t \div resolution) * resolution

Changed_NewerOnly(s, d) == IF checksum THEN s.data # d.data ELSE s.mtime > d.mtime + Tolerance
Changed(s, d) ==
  IF checksum THEN s.data # d.data
  ELSE SizeOf[s.data] # SizeOf[d.data] \/ s.mtime > d.mtime + Tolerance

(* A map keyed by name keeps one entry per key, and one may match it.       *)
SubsetsOnePerKey(files) ==
  LET key(k) == MatchKey(files[k].name) IN
  {K \in SUBSET Held(files) : \A k \in Held(files) : Cardinality({m \in K : key(m) = key(k)}) = 1}

(* A probe, a scan or a hash that fails ends the call.                      *)
Diff ==
  /\ phase = "diff"
  /\ \/ \E matching \in SubsetsOnePerKey(source), map \in SubsetsOnePerKey(dest) :
          LET Same(n, s) == MatchKey(n) = MatchKey(dest[s].name)
              uptodate == {n \in matching : \E s \in map : Same(n, s) /\ ~Changed(source[n], dest[s])}
          IN /\ scanned' = Held(source)
             /\ toCopy' = Held(source) \ uptodate
             /\ delLeft' = {s \in map : \A n \in matching : ~Same(n, s)}
             /\ phase' = "copy" /\ quiet' = TRUE
     \/ phase' = "error" /\ quiet' = FALSE /\ UNCHANGED <<plan, delLeft>>
  /\ copyOut' = EmptyOutcome /\ delOut' = EmptyOutcome
  /\ UNCHANGED <<options, source, dest, clock, edits, rounds>>

-----------------------------------------------------------------------------
(* Validation rejects entries that collide, where the probe found that the  *)
(* volume folds case; it looks at the entries to copy alone.                *)
Rejected ==
  IF caseSensitive THEN {} ELSE {n \in toCopy : \E m \in toCopy \ {n} : Key[m] = Key[n]}
StopsOnRejection == Rejected # {} /\ StrategyReason(strategy) # None

Writable(n) == overwrite \/ ~IsFile(dest[slotOf[n]])

(* A file that is written over keeps its name.  fs::copy stamps the copy    *)
(* with the current time or with the source's, by platform.                 *)
Written(n, data, t) ==
  FileOf(IF IsFile(dest[slotOf[n]]) THEN dest[slotOf[n]].name ELSE n, data, Stored(t))
Copies(n) == {Written(n, source[n].data, t) : t \in {clock, source[n].mtime}}

(* What the destination file of n may be after a pipeline that answered o:  *)
(* a failed copy may be truncated, a rollback may fail to remove its copy.  *)
AfterCopy(n, o) ==
  LET old == dest[slotOf[n]]
      began == Writable(n) /\ IsFile(source[n]) /\ ~StopsOnRejection /\ n \notin Rejected
  IN CASE n \in o.succeeded -> Copies(n)
       [] n \in o.failed /\ began -> {old, Written(n, Partial, clock)}
       [] n \notin o.failed /\ began /\ strategy = "Undo" /\ o.stoppedEarly # None ->
            {old, NoFile} \cup Copies(n)
       [] OTHER -> {old}

(* A file that several names denote is left as one of them wrote it, or as  *)
(* a mixture if two tasks wrote it at once.                                 *)
Writers(s) == {n \in toCopy : slotOf[n] = s}
Racing(s, o) == {n \in Writers(s) \cap o.succeeded : Writers(s) # {n}}
MayLeave(s, o) ==
  (UNION {AfterCopy(n, o) : n \in Writers(s)}) \cup {Written(n, Partial, clock) : n \in Racing(s, o)}
SlotAfter(s, o) ==
  IF Writers(s) = {} THEN {dest[s]}
  ELSE {f \in MayLeave(s, o) : f = dest[s] => \A n \in Writers(s) : f \in AfterCopy(n, o)}

MayDelete_Always(reason) == TRUE
MayDelete(reason) == reason = None

CopyPhase ==
  /\ phase = "copy"
  /\ \/ \E o \in {c \in CopyOutcomes(toCopy, strategy) : c.skipped = {}} :
          /\ \A n \in o.succeeded : Writable(n) /\ IsFile(source[n])
          /\ Rejected \subseteq o.failed
          /\ StopsOnRejection => o.succeeded = {} /\ o.stoppedEarly = strategy
          /\ dest' \in {d \in [Name -> UNION {SlotAfter(s, o) : s \in Name}] :
                        \A s \in Name : d[s] \in SlotAfter(s, o)}
          /\ copyOut' = o
          /\ phase' = IF MayDelete(o.stoppedEarly) THEN "delete" ELSE "returned"
          /\ UNCHANGED quiet
     \/ phase' = "error" /\ quiet' = FALSE /\ UNCHANGED <<dest, copyOut>>  \* integrity risk
  /\ UNCHANGED <<options, source, clock, edits, rounds, plan, delLeft, delOut>>

-----------------------------------------------------------------------------
(* delete_sweep: a file that is gone already counts as removed, Undo is     *)
(* treated as AbortOnError, and the token is not looked at.                 *)
Remove(s) ==
  /\ phase = "delete" /\ s \in delLeft
  /\ dest' = [dest EXCEPT ![s] = NoFile]
  /\ delLeft' = delLeft \ {s}
  /\ delOut' = [delOut EXCEPT !.succeeded = @ \cup {s}]
  /\ UNCHANGED <<options, phase, source, clock, edits, rounds, plan, copyOut, quiet>>

SweepReason(fatal) ==
  IF fatal THEN "Fatal" ELSE IF StrategyReason(strategy) = None THEN None ELSE "AbortOnError"

RemoveFails(s, fatal) ==
  /\ phase = "delete" /\ s \in delLeft
  /\ delLeft' = IF SweepReason(fatal) = None THEN delLeft \ {s} ELSE {}
  /\ delOut' = [delOut EXCEPT !.failed = @ \cup {s}, !.stoppedEarly = SweepReason(fatal)]
  /\ UNCHANGED <<options, phase, source, dest, clock, edits, rounds, plan, copyOut, quiet>>

SweepDone ==
  /\ phase = "delete" /\ delLeft = {}
  /\ phase' = "returned"
  /\ UNCHANGED <<options, source, dest, clock, edits, rounds, plan, delLeft, copyOut, delOut, quiet>>

(* The caller mirrors again, with the same options.                         *)
Again ==
  /\ phase \in {"returned", "error"} /\ rounds < MaxRounds
  /\ phase' = "diff" /\ rounds' = rounds + 1
  /\ UNCHANGED <<options, source, dest, clock, edits, plan, delLeft, copyOut, delOut, quiet>>

Finished == phase \in {"returned", "error"} /\ rounds = MaxRounds /\ UNCHANGED vars

Next ==
  \/ Tick \/ Diff \/ CopyPhase \/ SweepDone \/ Again \/ Finished
  \/ \E n \in Name : \E f \in {NoFile} \cup {FileOf(n, d, t) : d \in Data, t \in {0, clock}} : Edit(n, f)
  \/ \E s \in Name : Remove(s) \/ \E fatal \in BOOLEAN : RemoveFails(s, fatal)

Spec == Init /\ [][Next]_vars

-----------------------------------------------------------------------------
Clean ==
  /\ copyOut.stoppedEarly = None /\ copyOut.failed = {}
  /\ delOut.stoppedEarly = None /\ delOut.failed = {}

(* The destination identifies exactly the names the diff identifies, and    *)
(* no two names of the source are one file there.                           *)
FoldsLikeDiff == \A m, n \in Name : slotOf[m] = slotOf[n] <=> Nfc[m] = Nfc[n]
Distinct == FoldsLikeDiff /\ OnePerSlot(scanned)

(* The sweep never removes the file of a name the source had at the diff,   *)
(* however the two filesystems spell it.                                    *)
LiveKept ==
  [][\A s \in Name : phase = "delete" /\ IsFile(dest[s]) /\ ~IsFile(dest'[s])
       => \A n \in scanned : slotOf[n] # s]_vars

(* Orphans are removed only once every file that had to be copied is whole  *)
(* at the destination or was reported, and was tolerated, as failed; unless *)
(* two of them are one file there (README, section 6.18).                   *)
SweepOnlyWhenWhole ==
  phase = "delete" /\ OnePerSlot(toCopy) =>
    \A n \in toCopy :
      \/ n \in copyOut.failed /\ strategy = "ContinueAndCollect"
      \/ IsFile(dest[slotOf[n]]) /\ dest[slotOf[n]].data # Partial

(* After a clean call with the source left alone, the destination holds     *)
(* exactly the source's files, at the source's sizes, and under the         *)
(* checksum strategy with the source's bytes.                               *)
MirrorsAfterClean ==
  phase = "returned" /\ Clean /\ quiet /\ Distinct =>
    /\ Held(dest) = {slotOf[n] : n \in Held(source)}
    /\ \A n \in Held(source) :
         LET copy == dest[slotOf[n]].data IN
         /\ SizeOf[copy] = SizeOf[source[n].data]
         /\ checksum => copy = source[n].data

(* A call after a clean call finds nothing to do if the source was left     *)
(* alone, provided that the probe knows how the destination rounds: what it *)
(* says (granularity) covers what the filesystem does (resolution).  Where  *)
(* it does not, files are copied again (README, section 6.19).              *)
Converges ==
  [][phase = "diff" /\ rounds > 1 /\ Clean /\ quiet /\ Distinct /\ resolution <= granularity
       /\ phase' = "copy" => toCopy' = {} /\ delLeft' = {}]_vars

(* sync.rs: "sync's delete phase acts on dest-only orphans, a genuinely     *)
(* different entry set from what the copy phase touched".                   *)
PhasesDisjoint == {slotOf[n] : n \in copyOut.succeeded} \cap delOut.succeeded = {}
=============================================================================

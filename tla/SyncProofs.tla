------------------------------ MODULE SyncProofs ------------------------------
(***************************************************************************)
(* A mirror, for every tree, every filesystem at the destination and any    *)
(* edits of the source: what the sweep may remove, when it may start, and   *)
(* what a clean call leaves behind.                                         *)
(***************************************************************************)
EXTENDS Sync, FiniteSetTheorems, TLAPS

(* The destination tells apart whatever the diff tells apart.  A filesystem *)
(* that ignores case does not (SyncCase).                                   *)
FoldsNoMore == \A m, n \in Name : slotOf[m] = slotOf[n] => Nfc[m] = Nfc[n]
SlotMaps    == {m.slots : m \in Mounts}
ExactDests  == \A f \in SlotMaps : \A m, n \in Name : f[m] = f[n] => Nfc[m] = Nfc[n]

(* No file of the first source is from the future.                          *)
InTime == \A files \in Sources0 : \A n \in Name : files[n].mtime <= 1

SourceFile == [name : Name, data : Data, mtime : Nat]
DestFile   == [name : Name, data : Data \cup {Partial}, mtime : Nat]
Phases     == {"diff", "copy", "delete", "returned", "error"}
OutType    == [succeeded : SUBSET Name, skipped : SUBSET Name, failed : SUBSET Name,
               stoppedEarly : Reasons \cup {None}]

TypeInv ==
  /\ strategy \in Strategies /\ resolution \in Nat /\ granularity \in Nat /\ checksum \in BOOLEAN
  /\ slotOf \in SlotMaps /\ phase \in Phases /\ clock \in Nat /\ delOut \in OutType
  /\ source \in [Name -> {NoFile} \cup SourceFile]
  /\ \A n \in Held(source) : source[n].name = n
  /\ dest \in [Name -> {NoFile} \cup DestFile]
  /\ \A s \in Held(dest) : slotOf[dest[s].name] = s
  /\ InTime => \A n \in Name : source[n].mtime <= clock

(* What the diff decided.                                                   *)
PlanInv ==
  /\ scanned \subseteq Name /\ toCopy \subseteq scanned
  /\ delLeft \subseteq Name
  /\ FoldsNoMore => \A s \in delLeft : \A n \in scanned : slotOf[n] # s

Whole(n) == IsFile(dest[slotOf[n]]) /\ dest[slotOf[n]].data # Partial

SweepInv ==
  phase = "delete" /\ FoldsNoMore /\ OnePerSlot(toCopy) =>
    \A n \in toCopy : (n \in copyOut.failed /\ strategy = "ContinueAndCollect") \/ Whole(n)

(* The destination has what the source has, by size or by content; and by   *)
(* timestamps no file of the source is newer.                               *)
Mirrored(n) ==
  /\ IsFile(dest[slotOf[n]])
  /\ SizeOf[dest[slotOf[n]].data] = SizeOf[source[n].data]
  /\ checksum => dest[slotOf[n]].data = source[n].data
Fresh(n) == checksum \/ source[n].mtime <= dest[slotOf[n]].mtime + granularity
Good(n) == Mirrored(n) /\ (InTime /\ resolution <= granularity => Fresh(n))

MirrorInv ==
  /\ phase = "error" => ~quiet
  /\ phase = "copy" => delOut.failed = {}
  /\ phase \in {"returned", "diff"} /\ quiet /\ copyOut.stoppedEarly = None /\ delOut.failed = {} =>
       delLeft = {}
  /\ quiet => scanned = Held(source)
  /\ quiet /\ Distinct =>
       /\ delOut.failed = {} => Held(dest) \subseteq {slotOf[n] : n \in scanned} \cup delLeft
       /\ phase = "copy" => \A n \in scanned \ toCopy : Good(n)
       /\ phase \in {"delete", "returned", "diff"} /\ copyOut.stoppedEarly = None /\ copyOut.failed = {} =>
            \A n \in scanned : Good(n)

SyncInv == TypeInv /\ PlanInv /\ SweepInv /\ MirrorInv

-----------------------------------------------------------------------------
LEMMA NothingIsOut == EmptyOutcome \in OutType /\ EmptyOutcome.failed = {}
  BY DEF EmptyOutcome, OutType

LEMMA FileFacts ==
  /\ \A f \in SourceFile \cup DestFile : IsFile(f) /\ f.name \in Name /\ f.mtime \in Nat
  /\ Partial \notin Data /\ ~IsFile(NoFile) /\ NoFile.mtime = 0
  /\ \A d \in Data \cup {Partial} : SizeOf[d] \in Nat
  /\ \A f \in SlotMaps : f \in [Name -> Name]
<1>1. NoFile.name = "none" /\ NoFile.mtime = 0
  BY DEF NoFile
<1>2. \A f \in SourceFile \cup DestFile : f.name \in Name /\ f.mtime \in Nat
  BY DEF SourceFile, DestFile
<1> QED
  BY <1>1, <1>2, SyncAssumption DEF IsFile, SlotMaps

(* The filesystem rounds a timestamp down by less than its granularity.     *)
LEMMA DivFacts ==
  ASSUME NEW t \in Nat, NEW g \in Nat, g > 0
  PROVE  (t \div g) * g \in Nat /\ t <= (t \div g) * g + g
<1>1. t \div g \in Nat
  OBVIOUS
<1>2. (t \div g) * g \in Nat
  BY <1>1
<1>3. t < (t \div g) * g + g
  OBVIOUS
<1> QED
  BY <1>2, <1>3

LEMMA StoredFacts ==
  ASSUME NEW t \in Nat, resolution \in Nat
  PROVE  Stored(t) \in Nat /\ t <= Stored(t) + resolution
<1>1. CASE resolution = 0
  BY <1>1 DEF Stored
<1>2. CASE resolution # 0
  BY <1>2, DivFacts DEF Stored
<1> QED
  BY <1>1, <1>2

(* One entry of a map stands for every file of its key.                     *)
LEMMA OnePerKey ==
  ASSUME NEW files, NEW K \in SubsetsOnePerKey(files), NEW k \in Held(files)
  PROVE  K \subseteq Held(files) /\ \E m \in K : MatchKey(files[m].name) = MatchKey(files[k].name)
<1> DEFINE same == {m \in K : MatchKey(files[m].name) = MatchKey(files[k].name)}
<1>1. K \subseteq Held(files) /\ Cardinality(same) = 1
  BY DEF SubsetsOnePerKey
<1>2. Cardinality({}) = 0
  BY FS_EmptySet
<1>3. same # {}
  <2> HIDE DEF same
  <2> QED
    BY <1>1, <1>2
<1> QED
  BY <1>1, <1>3

(* What an unstopped pipeline answers.                                      *)
LEMMA UnstoppedCopy ==
  ASSUME NEW W, NEW s, NEW o \in CopyOutcomes(W, s), o.skipped = {}, o.stoppedEarly = None
  PROVE  /\ o.succeeded \cup o.failed = W /\ o.succeeded \cap o.failed = {}
         /\ s = "ContinueAndCollect" \/ o.failed = {}
<1>1. CASE o \in DispatchOutcomes(W, s)
  BY <1>1 DEF DispatchOutcomes, IsDispatchOutcome
<1>2. CASE o \notin DispatchOutcomes(W, s)
  <2>1. PICK r : r # None /\ o = [EmptyOutcome EXCEPT !.stoppedEarly = r]
    BY <1>2 DEF CopyOutcomes
  <2>2. o.stoppedEarly = r
    BY <2>1 DEF EmptyOutcome
  <2> QED
    BY <2>1, <2>2
<1> QED
  BY <1>1, <1>2

-----------------------------------------------------------------------------
LEMMA SyncInit == ASSUME Init PROVE SyncInv
<1>1. TypeInv
  <2>1. strategy \in Strategies /\ checksum \in BOOLEAN /\ phase = "diff" /\ clock = 1
    BY DEF Init
  <2>6. resolution \in Nat /\ granularity \in Nat /\ slotOf \in SlotMaps
    <3>1. PICK m \in Mounts, fails \in BOOLEAN :
            /\ slotOf = m.slots /\ resolution = m.resolution
            /\ granularity = Probed(m.host, m.volume, fails).granularity
      BY DEF Init
    <3>2. granularity \in Nat
      BY <3>1 DEF Probed, Second
    <3> QED
      BY <3>1, <3>2, SyncAssumption DEF SlotMaps
  <2>2. source \in [Name -> {NoFile} \cup SourceFile] /\ \A n \in Held(source) : source[n].name = n
    BY SyncAssumption DEF Init, Trees, SourceFile
  <2>3. dest \in [Name -> {NoFile} \cup DestFile] /\ \A s \in Held(dest) : slotOf[dest[s].name] = s
    BY SyncAssumption DEF Init, Trees, DestFile
  <2>4. InTime => \A n \in Name : source[n].mtime <= clock
    BY <2>1 DEF Init, InTime
  <2>5. delOut \in OutType
    BY NothingIsOut DEF Init
  <2> QED
    BY <2>1, <2>2, <2>3, <2>4, <2>5, <2>6 DEF TypeInv, Phases
<1>2. PlanInv /\ SweepInv /\ MirrorInv
  BY DEF Init, PlanInv, SweepInv, MirrorInv
<1> QED
  BY <1>1, <1>2 DEF SyncInv

(* What the diff compares: the file a name has at the destination.          *)
LEMMA DiffFacts ==
  ASSUME TypeInv,
         NEW matching \in SubsetsOnePerKey(source), NEW map \in SubsetsOnePerKey(dest)
  PROVE  /\ matching \subseteq Held(source) /\ map \subseteq Held(dest)
         /\ FoldsNoMore => \A s \in map : \A n \in Held(source) : slotOf[n] = s =>
              \E m \in matching : MatchKey(m) = MatchKey(dest[s].name)
         /\ FoldsLikeDiff /\ OnePerSlot(Held(source)) =>
              /\ matching = Held(source) /\ map = Held(dest)
              /\ \A n \in Name, s \in map : MatchKey(n) = MatchKey(dest[s].name) <=> slotOf[n] = s
<1>1. /\ matching \subseteq Held(source) /\ map \subseteq Held(dest)
      /\ Held(source) \subseteq Name /\ Held(dest) \subseteq Name
  BY DEF SubsetsOnePerKey, Held, TypeInv
<1>2. \A n \in Held(source) : source[n].name = n
  BY DEF TypeInv
<1>3. \A s \in Held(dest) : dest[s].name \in Name /\ slotOf[dest[s].name] = s
  BY FileFacts DEF TypeInv, Held, IsFile
<1>4. \A n \in Held(source) : \E m \in matching : MatchKey(m) = MatchKey(n)
  BY <1>1, <1>2, OnePerKey
<1>5. ASSUME FoldsNoMore, NEW s \in map, NEW n \in Held(source), slotOf[n] = s
      PROVE  \E m \in matching : MatchKey(m) = MatchKey(dest[s].name)
  <2>1. MatchKey(n) = MatchKey(dest[s].name)
    BY <1>1, <1>3, <1>5 DEF FoldsNoMore, MatchKey
  <2> QED
    BY <1>4, <2>1
<1>6. ASSUME FoldsLikeDiff, OnePerSlot(Held(source))
      PROVE  /\ matching = Held(source) /\ map = Held(dest)
             /\ \A n \in Name, s \in map : MatchKey(n) = MatchKey(dest[s].name) <=> slotOf[n] = s
  <2>1. \A m, n \in Name : MatchKey(m) = MatchKey(n) <=> slotOf[m] = slotOf[n]
    BY <1>6 DEF FoldsLikeDiff, MatchKey
  <2>2. Held(source) \subseteq matching
    BY <1>1, <1>4, <1>6, <2>1 DEF OnePerSlot
  <2>3. Held(dest) \subseteq map
    <3> SUFFICES ASSUME NEW s \in Held(dest) PROVE s \in map
      OBVIOUS
    <3>1. PICK m \in map : MatchKey(dest[m].name) = MatchKey(dest[s].name)
      BY OnePerKey
    <3>2. m = s
      BY <1>1, <1>3, <2>1, <3>1
    <3> QED
      BY <3>2
  <2> QED
    BY <1>1, <1>3, <2>1, <2>2, <2>3
<1> QED
  BY <1>1, <1>5, <1>6

-----------------------------------------------------------------------------
LEMMA DiffStep == ASSUME SyncInv, Diff PROVE SyncInv'
<1>0. /\ TypeInv /\ PlanInv /\ phase = "diff"
      /\ UNCHANGED <<strategy, overwrite, checksum, granularity, slotOf, resolution, source, dest, clock, edits, rounds>>
  BY DEF SyncInv, Diff, options
<1>1. TypeInv'
  <2>1. phase' \in Phases
    BY DEF Diff, Phases
  <2>2. delOut' \in OutType
    BY NothingIsOut DEF Diff
  <2> QED
    BY <1>0, <2>1, <2>2 DEF TypeInv, Held
<1>2. copyOut' = EmptyOutcome /\ delOut' = EmptyOutcome /\ delOut'.failed = {}
  BY DEF Diff, EmptyOutcome
<1>3. CASE phase' = "error"
  <2>1. ~quiet' /\ UNCHANGED <<scanned, toCopy, delLeft>>
    BY <1>3 DEF Diff, plan
  <2>2. PlanInv'
    BY <1>0, <2>1 DEF PlanInv, FoldsNoMore
  <2> QED
    BY <1>1, <1>3, <2>1, <2>2 DEF SyncInv, SweepInv, MirrorInv
<1>4. CASE phase' # "error"
  <2>1. PICK matching \in SubsetsOnePerKey(source), map \in SubsetsOnePerKey(dest) :
          LET Same(n, s) == MatchKey(n) = MatchKey(dest[s].name)
              uptodate == {n \in matching : \E s \in map : Same(n, s) /\ ~Changed(source[n], dest[s])}
          IN /\ scanned' = Held(source)
             /\ toCopy' = Held(source) \ uptodate
             /\ delLeft' = {s \in map : \A n \in matching : ~Same(n, s)}
             /\ phase' = "copy" /\ quiet' = TRUE
    BY <1>4 DEF Diff
  <2>2. /\ scanned' = Held(source) /\ phase' = "copy" /\ quiet' = TRUE
        /\ toCopy' \subseteq scanned'
        /\ \A n \in scanned' \ toCopy' : /\ n \in matching
             /\ \E s \in map : MatchKey(n) = MatchKey(dest[s].name) /\ ~Changed(source[n], dest[s])
        /\ \A s : s \in delLeft' <=> s \in map /\ \A n \in matching : MatchKey(n) # MatchKey(dest[s].name)
    BY <2>1
  <2>3. /\ Held(source) \subseteq Name /\ Held(dest) \subseteq Name
        /\ matching \subseteq Held(source) /\ map \subseteq Held(dest)
    BY <1>0, DiffFacts DEF TypeInv, Held
  <2>4. PlanInv'
    <3>2. ASSUME FoldsNoMore, NEW s \in delLeft', NEW n \in scanned' PROVE slotOf[n] # s
      BY <1>0, <2>2, <3>2, DiffFacts
    <3>3. FoldsNoMore' = FoldsNoMore
      BY <1>0 DEF FoldsNoMore
    <3> QED
      BY <1>0, <2>2, <2>3, <3>2, <3>3 DEF PlanInv
  <2>5. ASSUME FoldsLikeDiff, OnePerSlot(Held(source))
        PROVE  /\ Held(dest) \subseteq {slotOf[n] : n \in scanned'} \cup delLeft'
               /\ \A n \in scanned' \ toCopy' : Good(n)
    <3>1. /\ matching = Held(source) /\ map = Held(dest)
          /\ \A n \in Name, s \in map : MatchKey(n) = MatchKey(dest[s].name) <=> slotOf[n] = s
      BY <1>0, <2>5, DiffFacts
    <3>2. \A s \in Held(dest) : s \in delLeft' \/ \E n \in scanned' : slotOf[n] = s
      BY <2>2, <2>3, <3>1
    <3>3. ASSUME NEW n \in scanned' \ toCopy' PROVE Good(n)
      <4>1. slotOf[n] \in Held(dest) /\ ~Changed(source[n], dest[slotOf[n]])
        BY <2>2, <2>3, <3>1
      <4>2. IsFile(dest[slotOf[n]]) /\ slotOf[n] \in Name
        BY <2>3, <4>1 DEF Held
      <4>3. source[n] \in SourceFile /\ dest[slotOf[n]] \in DestFile
        BY <1>0, <2>2, <2>3, <4>2, FileFacts DEF TypeInv, Held
      <4>4. CASE checksum
        BY <4>1, <4>2, <4>4 DEF Changed, Good, Mirrored, Fresh
      <4>5. CASE ~checksum
        <5>1. granularity \in Nat /\ source[n].mtime \in Nat /\ dest[slotOf[n]].mtime \in Nat
          BY <1>0, <4>3 DEF TypeInv, SourceFile, DestFile
        <5> QED
          BY <4>1, <4>2, <4>5, <5>1 DEF Changed, Good, Mirrored, Fresh, Tolerance
      <4> QED
        BY <4>4, <4>5
    <3> QED
      BY <3>2, <3>3
  <2>6. /\ Distinct' => FoldsLikeDiff /\ OnePerSlot(Held(source))
        /\ Held(source)' = Held(source) /\ Held(dest)' = Held(dest)
    BY <1>0, <2>2 DEF Distinct, FoldsLikeDiff, OnePerSlot, Held
  <2>7. \A n : Good(n)' = Good(n)
    BY <1>0 DEF Good, Mirrored, Fresh
  <2>8. MirrorInv'
    BY <1>0, <1>2, <2>2, <2>5, <2>6, <2>7 DEF MirrorInv
  <2> QED
    BY <1>1, <2>2, <2>4, <2>8 DEF SyncInv, SweepInv
<1> QED
  BY <1>3, <1>4

(* A file at the destination is as one of its writers left it.              *)
LEMMA LeftBehind ==
  ASSUME NEW s, NEW o, NEW f \in MayLeave(s, o)
  PROVE  \/ f \in UNION {AfterCopy(n, o) : n \in Writers(s)}
         \/ \E n \in Writers(s) : f = Written(n, Partial, clock)
<1>1. \/ f \in UNION {AfterCopy(n, o) : n \in Writers(s)}
      \/ f \in {Written(n, Partial, clock) : n \in Racing(s, o)}
  BY DEF MayLeave
<1>2. Racing(s, o) \subseteq Writers(s)
  BY DEF Racing
<1> QED
  BY <1>1, <1>2

(* What the pipeline writes, where a file is that of one name alone too.    *)
LEMMA CopyWrites ==
  ASSUME SyncInv, phase = "copy", NEW o,
         \A n \in o.succeeded : Writable(n) /\ IsFile(source[n]),
         dest' \in {d \in [Name -> UNION {SlotAfter(s, o) : s \in Name}] :
                     \A s \in Name : d[s] \in SlotAfter(s, o)}
  PROVE  /\ dest' \in [Name -> {NoFile} \cup DestFile]
         /\ \A s \in Held(dest') : slotOf[dest'[s].name] = s
         /\ OnePerSlot(toCopy) => \A n \in toCopy : dest'[slotOf[n]] \in AfterCopy(n, o)
         /\ \A s \in Name : (\A n \in toCopy : slotOf[n] # s) => dest'[s] = dest[s]
<1>1. /\ TypeInv /\ toCopy \subseteq Name /\ slotOf \in [Name -> Name]
      /\ DOMAIN dest' = Name /\ \A s \in Name : dest'[s] \in SlotAfter(s, o)
  BY FileFacts DEF SyncInv, TypeInv, PlanInv
<1>2. ASSUME OnePerSlot(toCopy), NEW n \in toCopy PROVE dest'[slotOf[n]] \in AfterCopy(n, o)
  <2>1. Writers(slotOf[n]) = {n} /\ slotOf[n] \in Name
    BY <1>1, <1>2 DEF OnePerSlot, Writers
  <2>2. dest'[slotOf[n]] \in MayLeave(slotOf[n], o)
    BY <1>1, <2>1 DEF SlotAfter
  <2>3. dest'[slotOf[n]] \in UNION {AfterCopy(m, o) : m \in Writers(slotOf[n])}
    BY <2>1, <2>2 DEF MayLeave, Racing
  <2> QED
    BY <2>1, <2>3
<1>3. ASSUME NEW s \in Name, \A n \in toCopy : slotOf[n] # s PROVE dest'[s] = dest[s]
  <2>1. Writers(s) = {}
    BY <1>3 DEF Writers
  <2>2. SlotAfter(s, o) = {dest[s]}
    BY <2>1 DEF SlotAfter
  <2> QED
    BY <1>1, <2>2
<1>4. ASSUME NEW n \in toCopy, NEW f, f \in AfterCopy(n, o) \/ (f = Written(n, Partial, clock))
      PROVE  f \in {NoFile} \cup DestFile /\ (IsFile(f) => slotOf[f.name] = slotOf[n])
  <2> DEFINE old == dest[slotOf[n]]
  <2>1. n \in Name /\ slotOf[n] \in Name /\ old \in {NoFile} \cup DestFile
        /\ (IsFile(old) => slotOf[old.name] = slotOf[n] /\ old.name \in Name)
    BY <1>1, FileFacts DEF TypeInv, Held
  <2>2. ASSUME NEW data \in Data \cup {Partial}, NEW t \in Nat, f = Written(n, data, t)
        PROVE  f \in DestFile /\ slotOf[f.name] = slotOf[n]
    <3>1. Stored(t) \in Nat
      BY <1>1, StoredFacts DEF TypeInv
    <3>2. f.name \in {n, old.name} /\ f.name = (IF IsFile(old) THEN old.name ELSE n)
      BY <2>2 DEF Written, FileOf
    <3>3. f = [name |-> f.name, data |-> data, mtime |-> Stored(t)]
      BY <2>2 DEF Written, FileOf
    <3> QED
      BY <2>1, <3>1, <3>2, <3>3 DEF DestFile
  <2>3. clock \in Nat /\ (IsFile(source[n]) => source[n].data \in Data /\ source[n].mtime \in Nat)
    BY <1>1, <2>1, FileFacts DEF TypeInv, SourceFile, IsFile
  <2>4. ASSUME IsFile(source[n]), f \in Copies(n) PROVE f \in DestFile /\ slotOf[f.name] = slotOf[n]
    BY <2>2, <2>3, <2>4 DEF Copies
  <2>5. /\ f = old \/ f = NoFile \/ (f = Written(n, Partial, clock)) \/ f \in Copies(n)
        /\ f \in Copies(n) => f \in {old, NoFile} \/ (f = Written(n, Partial, clock)) \/ IsFile(source[n])
    BY <1>4 DEF AfterCopy
  <2> QED
    BY <2>1, <2>2, <2>3, <2>4, <2>5, FileFacts
<1>5. ASSUME NEW s \in Name PROVE dest'[s] \in {NoFile} \cup DestFile
                               /\ (IsFile(dest'[s]) => slotOf[dest'[s].name] = s)
  <2>1. CASE \E n \in toCopy : slotOf[n] = s
    <3>1. PICK n \in toCopy : slotOf[n] = s /\ (dest'[s] \in AfterCopy(n, o)
                                               \/ (dest'[s] = Written(n, Partial, clock)))
      <4>1. Writers(s) # {}
        BY <2>1 DEF Writers
      <4>2. dest'[s] \in MayLeave(s, o)
        BY <1>1, <4>1 DEF SlotAfter
      <4>3. dest'[s] \in UNION {AfterCopy(n, o) : n \in Writers(s)}
            \/ \E n \in Writers(s) : dest'[s] = Written(n, Partial, clock)
        BY <4>2, LeftBehind
      <4> QED
        BY <4>3 DEF Writers
    <3> QED
      BY <1>4, <3>1
  <2>2. CASE ~\E n \in toCopy : slotOf[n] = s
    BY <1>1, <1>3, <2>2 DEF TypeInv, Held
  <2> QED
    BY <2>1, <2>2
<1>6. dest' \in [Name -> {NoFile} \cup DestFile]
  BY <1>1, <1>5
<1> QED
  BY <1>2, <1>3, <1>5, <1>6 DEF Held

LEMMA CopyStep == ASSUME SyncInv, CopyPhase PROVE SyncInv'
<1>0. /\ TypeInv /\ PlanInv /\ phase = "copy" /\ phase' \in {"delete", "returned", "error"}
      /\ UNCHANGED <<strategy, checksum, granularity, slotOf, resolution, source, clock, scanned, toCopy,
                     delLeft, delOut>>
  BY DEF SyncInv, CopyPhase, options, plan
<1>1. PlanInv'
  BY <1>0 DEF PlanInv, FoldsNoMore
<1>2. CASE phase' = "error"
  <2>1. ~quiet' /\ dest' = dest
    BY <1>2 DEF CopyPhase, MayDelete
  <2>2. TypeInv'
    BY <1>0, <2>1 DEF TypeInv, Held, Phases
  <2> QED
    BY <1>1, <1>2, <2>1, <2>2 DEF SyncInv, SweepInv, MirrorInv
<1>3. CASE phase' # "error"
  <2>1. PICK o \in CopyOutcomes(toCopy, strategy) :
          /\ o.skipped = {}
          /\ \A n \in o.succeeded : Writable(n) /\ IsFile(source[n])
          /\ dest' \in {d \in [Name -> UNION {SlotAfter(s, o) : s \in Name}] :
                        \A s \in Name : d[s] \in SlotAfter(s, o)}
          /\ copyOut' = o
          /\ phase' = IF o.stoppedEarly = None THEN "delete" ELSE "returned"
          /\ quiet' = quiet
    BY <1>3 DEF CopyPhase, MayDelete
  <2>3. /\ dest' \in [Name -> {NoFile} \cup DestFile]
        /\ \A s \in Held(dest') : slotOf[dest'[s].name] = s
        /\ OnePerSlot(toCopy) => \A n \in toCopy : dest'[slotOf[n]] \in AfterCopy(n, o)
        /\ \A s \in Name : (\A n \in toCopy : slotOf[n] # s) => dest'[s] = dest[s]
    BY <1>0, <2>1, CopyWrites
  <2>4. TypeInv'
    <3>1. Held(source)' = Held(source)
      BY <1>0 DEF Held
    <3>2. (\A s \in Held(dest) : slotOf[dest[s].name] = s)'
      BY <1>0, <2>3 DEF Held
    <3> QED
      BY <1>0, <2>3, <3>1, <3>2 DEF TypeInv, Phases
  <2>5. ASSUME o.stoppedEarly = None
        PROVE  /\ o.succeeded \cup o.failed = toCopy /\ o.succeeded \cap o.failed = {}
               /\ strategy = "ContinueAndCollect" \/ o.failed = {}
    BY <2>1, <2>5, UnstoppedCopy
  <2>6. ASSUME o.stoppedEarly = None, OnePerSlot(toCopy), NEW n \in o.succeeded
        PROVE  /\ n \in toCopy /\ n \in Name /\ slotOf[n] \in Name
               /\ IsFile(dest'[slotOf[n]]) /\ dest'[slotOf[n]].data = source[n].data
               /\ source[n].data \in Data
               /\ InTime /\ resolution <= granularity =>
                    source[n].mtime <= dest'[slotOf[n]].mtime + granularity
    <3>1. n \in toCopy /\ n \in Name /\ slotOf[n] \in Name
      BY <1>0, <2>5, <2>6, FileFacts DEF TypeInv, PlanInv
    <3>2. dest'[slotOf[n]] \in Copies(n)
      <4>1. AfterCopy(n, o) = Copies(n)
        BY <2>5, <2>6 DEF AfterCopy
      <4> QED
        BY <2>3, <2>6, <3>1, <4>1
    <3>3. PICK t \in {clock, source[n].mtime} : dest'[slotOf[n]] = Written(n, source[n].data, t)
      BY <3>2 DEF Copies
    <3>4. dest'[slotOf[n]].data = source[n].data /\ dest'[slotOf[n]].mtime = Stored(t)
      BY <3>3 DEF Written, FileOf
    <3>5. source[n] \in SourceFile /\ source[n].data \in Data /\ source[n].mtime \in Nat
      BY <1>0, <2>1, <3>1, FileFacts DEF TypeInv, SourceFile
    <3>6. IsFile(dest'[slotOf[n]])
      <4>1. dest'[slotOf[n]].data # "none" \/ dest'[slotOf[n]].name \in Name
        <5>1. IsFile(dest[slotOf[n]]) => dest[slotOf[n]].name \in Name
          BY <1>0, <3>1, FileFacts DEF TypeInv, IsFile
        <5> QED
          BY <3>1, <3>3, <5>1 DEF Written, FileOf
      <4>2. dest'[slotOf[n]].name \in Name
        <5>1. IsFile(dest[slotOf[n]]) => dest[slotOf[n]].name \in Name
          BY <1>0, <3>1, FileFacts DEF TypeInv, IsFile
        <5> QED
          BY <3>1, <3>3, <5>1 DEF Written, FileOf
      <4> QED
        BY <4>2, SyncAssumption DEF IsFile, NoFile
    <3>7. InTime /\ resolution <= granularity =>
            source[n].mtime <= dest'[slotOf[n]].mtime + granularity
      <4>1. /\ t \in Nat /\ granularity \in Nat /\ resolution \in Nat
            /\ InTime => source[n].mtime <= t
        BY <1>0, <3>1, <3>3, <3>5 DEF TypeInv
      <4>2. Stored(t) \in Nat /\ t <= Stored(t) + resolution
        BY <4>1, StoredFacts
      <4> QED
        BY <3>4, <3>5, <4>1, <4>2
    <3> QED
      BY <3>1, <3>4, <3>5, <3>6, <3>7
  <2>7. SweepInv'
    <3>1. ASSUME phase' = "delete", OnePerSlot(toCopy), NEW n \in toCopy
          PROVE  (n \in o.failed /\ strategy = "ContinueAndCollect")
                 \/ (IsFile(dest'[slotOf[n]]) /\ dest'[slotOf[n]].data # Partial)
      <4>1. o.stoppedEarly = None
        BY <2>1, <3>1
      <4> QED
        BY <2>5, <2>6, <3>1, <4>1, FileFacts
    <3>2. slotOf' = slotOf /\ toCopy' = toCopy /\ strategy' = strategy /\ copyOut' = o
      BY <1>0, <2>1
    <3> QED
      BY <3>1, <3>2 DEF SweepInv, Whole, OnePerSlot
  <2>8. ASSUME quiet', Distinct' PROVE
          /\ delOut'.failed = {} => Held(dest') \subseteq {slotOf'[n] : n \in scanned'} \cup delLeft'
    <3>1. quiet /\ Distinct
      BY <1>0, <2>1, <2>8 DEF Distinct, FoldsLikeDiff, OnePerSlot
    <3>2. delOut.failed = {} => Held(dest) \subseteq {slotOf[n] : n \in scanned} \cup delLeft
      BY <3>1 DEF SyncInv, MirrorInv
    <3>3. \A s \in Held(dest') : s \in Held(dest) \/ \E n \in toCopy : slotOf[n] = s
      BY <1>0, <2>3 DEF Held, TypeInv
    <3>4. toCopy \subseteq scanned
      BY <1>0 DEF PlanInv
    <3> QED
      BY <1>0, <3>1, <3>2, <3>3, <3>4
  <2>9. ASSUME quiet', Distinct', o.stoppedEarly = None, o.failed = {}, NEW n \in scanned
        PROVE  Good(n)'
    <3>1. /\ quiet /\ Distinct /\ OnePerSlot(scanned) /\ OnePerSlot(toCopy)
          /\ n \in Name /\ slotOf[n] \in Name
      BY <1>0, <2>1, <2>9, FileFacts DEF Distinct, FoldsLikeDiff, OnePerSlot, PlanInv, TypeInv
    <3>2. CASE n \in toCopy
      <4>1. n \in o.succeeded
        BY <2>5, <2>9, <3>2
      <4> QED
        BY <1>0, <2>6, <2>9, <3>1, <4>1 DEF Good, Mirrored, Fresh
    <3>3. CASE n \notin toCopy
      <4>1. \A m \in toCopy : slotOf[m] # slotOf[n]
        BY <1>0, <3>1, <3>3 DEF PlanInv, OnePerSlot
      <4>2. dest'[slotOf[n]] = dest[slotOf[n]]
        BY <2>3, <3>1, <4>1
      <4>3. Good(n)
        BY <1>0, <3>1, <3>3 DEF SyncInv, MirrorInv
      <4> QED
        BY <1>0, <4>2, <4>3 DEF Good, Mirrored, Fresh
    <3> QED
      BY <3>2, <3>3
  <2>10. MirrorInv'
    <3>1. phase' \in {"delete", "returned"} /\ (phase' = "delete" <=> o.stoppedEarly = None)
          /\ copyOut' = o /\ scanned' = scanned
      BY <1>0, <2>1
    <3>2. quiet' => scanned' = Held(source)'
      BY <1>0, <2>1 DEF SyncInv, MirrorInv, Held
    <3> QED
      BY <2>8, <2>9, <3>1, <3>2 DEF MirrorInv
  <2> QED
    BY <1>1, <2>4, <2>7, <2>10 DEF SyncInv
<1> QED
  BY <1>2, <1>3

-----------------------------------------------------------------------------
(* The sweep touches no slot of a name the source had.                      *)
LEMMA RemoveStep == ASSUME SyncInv, NEW s \in Name, Remove(s) PROVE SyncInv'
<1>0. /\ TypeInv /\ PlanInv /\ phase = "delete" /\ s \in delLeft
      /\ delLeft' = delLeft \ {s} /\ dest' = [dest EXCEPT ![s] = NoFile]
      /\ UNCHANGED <<strategy, checksum, granularity, slotOf, resolution, phase, source, clock, scanned, toCopy,
                     copyOut, quiet>>
  BY DEF SyncInv, Remove, options, plan
<1>1. delOut' \in OutType /\ delOut'.failed = delOut.failed
  BY <1>0 DEF Remove, TypeInv, OutType
<1>2. /\ dest' \in [Name -> {NoFile} \cup DestFile] /\ dest'[s] = NoFile
      /\ \A x \in Name : x # s => dest'[x] = dest[x]
  BY <1>0 DEF TypeInv
<1>3. Held(dest') = Held(dest) \ {s} /\ Held(source)' = Held(source)
  BY <1>0, <1>2, FileFacts DEF Held, TypeInv
<1>4. TypeInv'
  <2>1. (\A x \in Held(dest) : slotOf[dest[x].name] = x)'
    BY <1>0, <1>2, <1>3 DEF TypeInv, Held
  <2> QED
    BY <1>0, <1>1, <1>2, <1>3, <2>1 DEF TypeInv
<1>5. PlanInv'
  BY <1>0 DEF PlanInv, FoldsNoMore
<1>6. ASSUME FoldsNoMore, NEW n \in scanned
      PROVE  slotOf[n] \in Name /\ dest'[slotOf[n]] = dest[slotOf[n]]
  <2>1. slotOf[n] # s /\ slotOf[n] \in Name
    BY <1>0, <1>6, FileFacts DEF PlanInv, TypeInv
  <2> QED
    BY <1>2, <2>1
<1>7. FoldsNoMore' = FoldsNoMore /\ Distinct' = Distinct /\ (Distinct => FoldsNoMore)
  BY <1>0 DEF FoldsNoMore, FoldsLikeDiff, Distinct, OnePerSlot
<1>11. toCopy' = toCopy /\ (OnePerSlot(toCopy))' = OnePerSlot(toCopy)
  BY <1>0 DEF OnePerSlot
<1>8. SweepInv'
  <2>1. ASSUME FoldsNoMore, NEW n \in toCopy PROVE Whole(n)' = Whole(n)
    BY <1>0, <1>6, <2>1 DEF Whole, PlanInv
  <2> QED
    BY <1>0, <1>7, <1>11, <2>1 DEF SyncInv, SweepInv
<1>9. ASSUME FoldsNoMore, NEW n \in scanned PROVE Good(n) => Good(n)'
  BY <1>0, <1>6, <1>9 DEF Good, Mirrored, Fresh
<1>10. MirrorInv'
  BY <1>0, <1>1, <1>3, <1>7, <1>9 DEF SyncInv, MirrorInv
<1> QED
  BY <1>4, <1>5, <1>8, <1>10 DEF SyncInv

(* A step that leaves files, the plan and the copy as they are.             *)
LEMMA SameFiles ==
  ASSUME SyncInv, UNCHANGED <<strategy, checksum, granularity, slotOf, resolution, source, dest, scanned, toCopy>>,
         phase' \in Phases, clock' \in Nat, clock <= clock', delOut' \in OutType,
         delLeft' \subseteq delLeft, phase' = "delete" => phase = "delete" /\ copyOut' = copyOut
  PROVE  /\ TypeInv' /\ PlanInv' /\ SweepInv'
         /\ Distinct' = Distinct /\ Held(source)' = Held(source) /\ Held(dest)' = Held(dest)
         /\ \A n : Good(n)' = Good(n)
<1>0. TypeInv /\ PlanInv /\ SweepInv
  BY DEF SyncInv
<1>1. /\ Distinct' = Distinct /\ FoldsNoMore' = FoldsNoMore
      /\ (OnePerSlot(toCopy))' = OnePerSlot(toCopy)
      /\ Held(source)' = Held(source) /\ Held(dest)' = Held(dest)
  BY DEF Distinct, OnePerSlot, FoldsLikeDiff, FoldsNoMore, Held
<1>2. \A n : Good(n)' = Good(n) /\ Whole(n)' = Whole(n)
  BY DEF Good, Mirrored, Fresh, Whole
<1>3. TypeInv'
  <2>1. \A n \in Name : source[n].mtime \in Nat
    BY <1>0, FileFacts DEF TypeInv
  <2>2. InTime => \A n \in Name : source'[n].mtime <= clock'
    BY <1>0, <2>1 DEF TypeInv
  <2> QED
    BY <1>0, <1>1, <2>2 DEF TypeInv
<1>4. PlanInv'
  BY <1>0, <1>1 DEF PlanInv
<1>5. SweepInv'
  BY <1>0, <1>1, <1>2 DEF SweepInv
<1> QED
  BY <1>1, <1>2, <1>3, <1>4, <1>5

LEMMA QuietStep ==
  ASSUME SyncInv, \/ Tick \/ SweepDone \/ Again \/ Finished \/ UNCHANGED vars
                  \/ \E s \in Name, fatal \in BOOLEAN : RemoveFails(s, fatal)
  PROVE  SyncInv'
<1> USE DEF options, plan
<1>0. TypeInv /\ PlanInv /\ MirrorInv
  BY DEF SyncInv
<1>1. CASE \/ Tick \/ SweepDone \/ Again \/ Finished \/ UNCHANGED vars
  <2>1. /\ UNCHANGED <<strategy, checksum, granularity, slotOf, resolution, source, dest, scanned, toCopy, delLeft,
                       copyOut, delOut, quiet>>
        /\ phase' = phase \/ (phase = "delete" /\ phase' = "returned" /\ delLeft = {})
           \/ (phase \in {"returned", "error"} /\ phase' = "diff")
        /\ clock' \in {clock, clock + 1}
    BY <1>1 DEF Tick, SweepDone, Again, Finished, vars
  <2>2. phase' \in Phases /\ clock' \in Nat /\ clock <= clock' /\ delOut' \in OutType
    BY <1>0, <2>1 DEF TypeInv, Phases
  <2>3. /\ TypeInv' /\ PlanInv' /\ SweepInv'
        /\ Distinct' = Distinct /\ Held(source)' = Held(source) /\ Held(dest)' = Held(dest)
        /\ \A n : Good(n)' = Good(n)
    BY <2>1, <2>2, SameFiles
  <2>4. MirrorInv'
    BY <1>0, <2>1, <2>3 DEF MirrorInv
  <2> QED
    BY <2>3, <2>4 DEF SyncInv
<1>2. ASSUME NEW s \in Name, NEW fatal \in BOOLEAN, RemoveFails(s, fatal) PROVE SyncInv'
  <2>1. /\ phase = "delete" /\ delLeft' \subseteq delLeft
        /\ UNCHANGED <<strategy, checksum, granularity, slotOf, resolution, phase, source, dest, clock, scanned,
                       toCopy, copyOut, quiet>>
    BY <1>2 DEF RemoveFails
  <2>2. delOut' \in OutType /\ delOut'.failed # {}
    <3>1. SweepReason(fatal) \in Reasons \cup {None}
      BY DEF SweepReason, Reasons
    <3>2. delOut' = [delOut EXCEPT !.failed = @ \cup {s}, !.stoppedEarly = SweepReason(fatal)]
      BY <1>2 DEF RemoveFails
    <3> QED
      BY <1>0, <3>1, <3>2 DEF TypeInv, OutType
  <2>3. /\ TypeInv' /\ PlanInv' /\ SweepInv'
        /\ Distinct' = Distinct /\ Held(source)' = Held(source) /\ Held(dest)' = Held(dest)
        /\ \A n : Good(n)' = Good(n)
    <3>1. phase' \in Phases /\ clock' \in Nat /\ clock <= clock'
      BY <1>0, <2>1 DEF TypeInv
    <3> QED
      BY <2>1, <2>2, <3>1, SameFiles
  <2>4. MirrorInv'
    BY <1>0, <2>1, <2>2, <2>3 DEF MirrorInv
  <2> QED
    BY <2>3, <2>4 DEF SyncInv
<1> QED
  BY <1>1, <1>2

LEMMA EditStep ==
  ASSUME SyncInv, NEW n \in Name,
         NEW f \in {NoFile} \cup {FileOf(n, d, t) : d \in Data, t \in {0, clock}}, Edit(n, f)
  PROVE  SyncInv'
<1>0. /\ TypeInv /\ PlanInv /\ SweepInv /\ MirrorInv /\ source' = [source EXCEPT ![n] = f] /\ ~quiet'
      /\ UNCHANGED <<strategy, checksum, granularity, slotOf, resolution, phase, dest, clock, scanned, toCopy,
                     delLeft, copyOut, delOut>>
  BY DEF SyncInv, Edit, options, plan
<1>1. f = NoFile \/ (f \in SourceFile /\ f.name = n)
  BY <1>0 DEF TypeInv, FileOf, SourceFile
<1>2. f.mtime <= clock
  BY <1>0, FileFacts DEF TypeInv, FileOf
<1>3. source' \in [Name -> {NoFile} \cup SourceFile] /\ source'[n] = f
      /\ \A m \in Name : m # n => source'[m] = source[m]
  BY <1>0, <1>1 DEF TypeInv
<1>5. TypeInv'
  <2>1. (\A m \in Held(source) : source[m].name = m)'
    <3>1. \A m \in Held(source') : m \in Name /\ IsFile(source'[m])
      BY <1>3 DEF Held
    <3>2. \A m \in Name : m # n /\ IsFile(source'[m]) => source'[m].name = m
      BY <1>0, <1>3 DEF TypeInv, Held
    <3>3. IsFile(source'[n]) => source'[n].name = n
      BY <1>1, <1>3, FileFacts
    <3> QED
      BY <3>1, <3>2, <3>3
  <2>3. (InTime => \A m \in Name : source[m].mtime <= clock)'
    <3>1. InTime => \A m \in Name : source'[m].mtime <= clock
      BY <1>0, <1>2, <1>3 DEF TypeInv
    <3> QED
      BY <1>0, <3>1
  <2>4. (\A s \in Held(dest) : slotOf[dest[s].name] = s)'
    BY <1>0 DEF TypeInv, Held
  <2>5. /\ (strategy \in Strategies /\ checksum \in BOOLEAN)'
        /\ (resolution \in Nat /\ granularity \in Nat)'
        /\ (slotOf \in SlotMaps /\ phase \in Phases /\ clock \in Nat /\ delOut \in OutType)'
        /\ (dest \in [Name -> {NoFile} \cup DestFile])'
    BY <1>0 DEF TypeInv
  <2>6. (source \in [Name -> {NoFile} \cup SourceFile])'
    BY <1>3
  <2> QED
    BY <2>1, <2>3, <2>4, <2>5, <2>6 DEF TypeInv
<1>6. PlanInv' /\ SweepInv'
  <2>1. FoldsNoMore' = FoldsNoMore /\ (OnePerSlot(toCopy))' = OnePerSlot(toCopy)
        /\ \A m : Whole(m)' = Whole(m)
    BY <1>0 DEF OnePerSlot, FoldsNoMore, Whole
  <2> QED
    BY <1>0, <2>1 DEF PlanInv, SweepInv
<1>7. MirrorInv'
  BY <1>0 DEF MirrorInv
<1> QED
  BY <1>5, <1>6, <1>7 DEF SyncInv

-----------------------------------------------------------------------------
LEMMA SyncStep == ASSUME SyncInv, [Next]_vars PROVE SyncInv'
  BY DiffStep, CopyStep, RemoveStep, QuietStep, EditStep DEF Next

(* The phases of any number of calls: what the diff decided, what the copy  *)
(* left, and what may still be removed.                                     *)
THEOREM SyncInvariant == Spec => []SyncInv
<1>1. Init => SyncInv
  BY SyncInit
<1>2. SyncInv /\ [Next]_vars => SyncInv'
  BY SyncStep
<1> QED
  BY <1>1, <1>2, PTL DEF Spec

(* Sync!SweepOnlyWhenWhole for every tree and every destination that tells  *)
(* apart what the diff does: no orphan goes while a copy is missing unsaid. *)
THEOREM OrphansAfterCopies == ASSUME ExactDests PROVE Spec => []SweepOnlyWhenWhole
<1>1. SyncInv => SweepOnlyWhenWhole
  BY DEF SyncInv, SweepInv, SweepOnlyWhenWhole, Whole, TypeInv, FoldsNoMore, ExactDests
<1> QED
  BY <1>1, SyncInvariant, PTL

(* Sync!LiveKept for the same destinations: the sweep never removes the     *)
(* file of a name the source had, in whichever Unicode form it is spelled.  *)
THEOREM LiveIsKept == ASSUME ExactDests PROVE Spec => LiveKept
<1>1. ASSUME SyncInv, [Next]_vars, NEW s \in Name, phase = "delete", IsFile(dest[s]), ~IsFile(dest'[s])
      PROVE  \A n \in scanned : slotOf[n] # s
  <2>1. PICK x \in Name : Remove(x)
    <3>1. ~CopyPhase /\ ~Diff /\ dest' # dest
      BY <1>1 DEF CopyPhase, Diff
    <3>2. ~(Tick \/ SweepDone \/ Again \/ Finished \/ UNCHANGED vars)
      BY <3>1 DEF Tick, SweepDone, Again, Finished, vars
    <3>3. \A n \in Name : \A f : ~Edit(n, f)
      BY <3>1 DEF Edit
    <3>4. \A x \in Name, fatal \in BOOLEAN : ~RemoveFails(x, fatal)
      BY <3>1 DEF RemoveFails
    <3> QED
      BY <1>1, <3>1, <3>2, <3>3, <3>4 DEF Next
  <2>2. x = s /\ s \in delLeft
    BY <1>1, <2>1 DEF Remove, SyncInv, TypeInv
  <2> QED
    BY <1>1, <2>2 DEF SyncInv, PlanInv, TypeInv, FoldsNoMore, ExactDests
<1>2. SyncInv /\ [Next]_vars =>
        [\A s \in Name : phase = "delete" /\ IsFile(dest[s]) /\ ~IsFile(dest'[s])
           => \A n \in scanned : slotOf[n] # s]_vars
  BY <1>1
<1> QED
  BY <1>2, SyncInvariant, PTL DEF Spec, LiveKept

(* Sync!MirrorsAfterClean for every tree: after a clean call with the       *)
(* source left alone the destination is the source.                         *)
THEOREM CleanIsMirror == Spec => []MirrorsAfterClean
<1>1. ASSUME SyncInv, phase = "returned", Clean, quiet, Distinct
      PROVE  /\ Held(dest) = {slotOf[n] : n \in Held(source)}
             /\ \A n \in Held(source) : Mirrored(n)
  <2>1. /\ delLeft = {} /\ scanned = Held(source)
        /\ Held(dest) \subseteq {slotOf[n] : n \in scanned} /\ \A n \in scanned : Mirrored(n)
    BY <1>1 DEF SyncInv, MirrorInv, Clean, Good
  <2>2. \A n \in scanned : slotOf[n] \in Held(dest)
    <3>1. scanned \subseteq Name /\ slotOf \in [Name -> Name] /\ DOMAIN dest = Name
      BY <1>1, FileFacts DEF SyncInv, TypeInv, PlanInv
    <3> QED
      BY <2>1, <3>1 DEF Held, Mirrored
  <2> QED
    BY <2>1, <2>2
<1>2. SyncInv => MirrorsAfterClean
  BY <1>1 DEF MirrorsAfterClean, Mirrored
<1> QED
  BY <1>2, SyncInvariant, PTL

(* Sync!Converges for every tree without files from the future: the call    *)
(* after a clean one finds nothing to do, however coarse the destination's  *)
(* timestamps are, as long as the probe knows of it.                        *)
THEOREM MirrorConverges == ASSUME InTime PROVE Spec => Converges
<1>1. ASSUME SyncInv, [Next]_vars, resolution <= granularity,
             phase = "diff", Clean, quiet, Distinct, phase' = "copy"
      PROVE  toCopy' = {} /\ delLeft' = {}
  <2>1. Diff /\ TypeInv
    BY <1>1 DEF SyncInv, Next, Tick, CopyPhase, SweepDone, Again, Finished, Edit, Remove, RemoveFails, vars
  <2>2. PICK matching \in SubsetsOnePerKey(source), map \in SubsetsOnePerKey(dest) :
          LET Same(n, s) == MatchKey(n) = MatchKey(dest[s].name)
              uptodate == {n \in matching : \E s \in map : Same(n, s) /\ ~Changed(source[n], dest[s])}
          IN /\ toCopy' = Held(source) \ uptodate
             /\ delLeft' = {s \in map : \A n \in matching : ~Same(n, s)}
    BY <1>1, <2>1 DEF Diff
  <2>3. /\ matching = Held(source) /\ map = Held(dest)
        /\ \A n \in Name, s \in map : MatchKey(n) = MatchKey(dest[s].name) <=> slotOf[n] = s
    <3>1. FoldsLikeDiff /\ OnePerSlot(Held(source))
      BY <1>1 DEF Distinct, SyncInv, MirrorInv
    <3> QED
      BY <2>1, <2>2, <3>1, DiffFacts
  <2>4. /\ scanned = Held(source) /\ delLeft = {}
        /\ Held(dest) \subseteq {slotOf[n] : n \in scanned} /\ \A n \in scanned : Good(n)
    BY <1>1 DEF SyncInv, MirrorInv, Clean
  <2>5. scanned \subseteq Name /\ slotOf \in [Name -> Name] /\ DOMAIN dest = Name
    BY <1>1, FileFacts DEF SyncInv, TypeInv, PlanInv
  <2>6. ASSUME NEW n \in Held(source) PROVE slotOf[n] \in map /\ ~Changed(source[n], dest[slotOf[n]])
    <3>1. n \in Name /\ slotOf[n] \in Name /\ Good(n) /\ IsFile(dest[slotOf[n]])
      BY <2>4, <2>5, <2>6 DEF Good, Mirrored
    <3>2. slotOf[n] \in map
      BY <2>3, <2>5, <3>1 DEF Held
    <3>3. granularity \in Nat /\ source[n].mtime \in Nat /\ dest[slotOf[n]].mtime \in Nat
      BY <2>1, <3>1, FileFacts DEF TypeInv
    <3> QED
      BY <1>1, <3>1, <3>2, <3>3 DEF Good, Mirrored, Fresh, Changed, Tolerance
  <2>7. toCopy' = {}
    BY <2>2, <2>3, <2>4, <2>5, <2>6
  <2>8. delLeft' = {}
    BY <2>2, <2>3, <2>4, <2>5
  <2> QED
    BY <2>7, <2>8
<1>2. SyncInv /\ [Next]_vars =>
        [phase = "diff" /\ rounds > 1 /\ Clean /\ quiet /\ Distinct /\ resolution <= granularity
           /\ phase' = "copy" => toCopy' = {} /\ delLeft' = {}]_vars
  BY <1>1
<1> QED
  BY <1>2, SyncInvariant, PTL DEF Spec, Converges
=============================================================================

------------------------------ MODULE Analysis ------------------------------
(***************************************************************************)
(* analysis/: analyze() walks the tree, tallies what matches, keeps the     *)
(* largest files in a bounded heap, then reads candidates of equal size to  *)
(* find duplicates.  Errors are collected up to a cap, or end the call; a   *)
(* cancellation gives no report at all.                                     *)
(***************************************************************************)
EXTENDS Selection, SequencesExt

CONSTANT Now             \* The clock when the walk starts, in days.

VARIABLES
  params,     (* [topN, estimate, duplicates, abort, maxErrors, maxGroups,   *)
              (*  workers] of the running or last call.                      *)
  estimate,   (* Entries counted by the pass before the walk.                *)
  acc,        (* The Aggregator, and the errors of the walk.                 *)
  unread,     (* Directories whose entries the running pass could not read.  *)
  hashes,     (* State of each candidate's hash task.                        *)
  read,       (* What each task read: a content, or an error.                *)
  report      (* The part of the report that duplicate detection fills.      *)

analysisVars == <<params, estimate, acc, unread, hashes, read, report>>

NoTally  == <<>>
NewAggregator ==
  [files |-> 0, dirs |-> 0, bytes |-> 0, top |-> {}, byExtension |-> NoTally,
   ages |-> NoTally, seen |-> {}, errors |-> <<>>, errorsTotal |-> 0]
NoGroups == [groups |-> {}, total |-> 0, wasted |-> 0]
Failed   == "failed"

ASSUME AnalysisAssumption == Failed \notin Content

NoParams ==
  [topN |-> 0, estimate |-> FALSE, duplicates |-> FALSE, abort |-> FALSE,
   maxErrors |-> 0, maxGroups |-> 0, workers |-> 0]

AnalysisInit ==
  /\ params = NoParams /\ estimate = 0 /\ acc = NewAggregator /\ unread = {}
  /\ hashes = <<>> /\ read = <<>> /\ report = NoGroups

(* The caller drops the report.                                             *)
ForgetReport ==
  /\ params' = NoParams /\ estimate' = 0 /\ acc' = NewAggregator /\ unread' = {}
  /\ hashes' = <<>> /\ read' = <<>> /\ report' = NoGroups

StartAnalysis(p) ==
  /\ pc = "idle" /\ calls < Calls
  /\ calls' = calls + 1 /\ at' = 1 /\ cancelled' = FALSE
  /\ params' = p /\ estimate' = 0 /\ acc' = NewAggregator /\ unread' = {}
  /\ hashes' = <<>> /\ read' = <<>> /\ report' = NoGroups
  /\ IF ~Compiles THEN Resolve("InvalidGlobPattern")
     ELSE pc' = (IF p.estimate /\ ~Single THEN "count" ELSE "walk") /\ UNCHANGED answer
  /\ UNCHANGED <<world, query>>

-----------------------------------------------------------------------------
(* The walkers of both passes: an excluded directory is not descended into. *)
(* One that cannot be read is yielded like any other and nobody looks at    *)
(* the error it carries, so what is inside of it is silently left out.      *)
Pruned(i) == ~Single /\ \E x \in {i} \cup Above[i] : IsExcluded(x)
Yields(i) == Met(i) /\ ~Pruned(i) /\ Above[i] \cap unread = {}
Unread(broken) == IF broken /\ Opened(Here) THEN unread \cup {Here} ELSE unread

(* The root's own metadata is read first; no strategy tolerates an error.   *)
RootFails ==
  /\ pc = (IF params.estimate THEN "count" ELSE "walk")
  /\ ~Single /\ at = 1 /\ ~Walked /\ Here \in Flaky
  /\ Resolve("io")
  /\ UNCHANGED <<world, query, calls, at, cancelled, analysisVars>>

GivesUp == cancelled /\ ~Single

(* The loop of either pass looks at the token once per item it is given.    *)
GiveUp ==
  /\ pc \in {"count", "walk"} /\ ~Walked /\ Yields(Here) /\ GivesUp
  /\ Resolve("Cancelled")
  /\ UNCHANGED <<world, query, calls, at, cancelled, analysisVars>>

PassOver ==
  /\ pc \in {"count", "walk"} /\ ~Walked /\ ~Yields(Here)
  /\ at' = at + 1
  /\ UNCHANGED <<world, query, calls, pc, cancelled, answer, analysisVars>>

(* count_matching_entries swallows errors.                                  *)
CountItem(broken) ==
  /\ pc = "count" /\ ~Walked /\ Yields(Here) /\ ~GivesUp
  /\ broken => Here \in Flaky
  /\ at' = at + 1
  /\ estimate' = IF ~broken /\ TypeOf(Here) = "file" /\ Passes(EntryAt(Here))
                 THEN estimate + 1 ELSE estimate
  /\ unread' = Unread(broken)
  /\ UNCHANGED <<world, query, calls, pc, cancelled, answer, params, acc, hashes, read, report>>

StartWalk ==
  /\ pc = "count" /\ Walked
  /\ pc' = "walk" /\ at' = 1 /\ unread' = {}
  /\ UNCHANGED <<world, query, calls, cancelled, answer, params, estimate, acc, hashes, read, report>>

-----------------------------------------------------------------------------
(* Aggregator::record.                                                      *)
Tally(table, key, size) ==
  [k \in DOMAIN table \cup {key} |->
     LET tally == IF k \in DOMAIN table THEN table[k] ELSE [count |-> 0, size |-> 0]
     IN IF k = key THEN [count |-> tally.count + 1, size |-> tally.size + size] ELSE tally]

Smallest(top) == CHOOSE e \in top : \A f \in top : e.size <= f.size

(* keep_in_heap, and the eviction it causes.                                *)
Kept_WithoutLooking(top, e) == params.topN > 0
Kept(top, e) ==
  params.topN > 0 /\ (Cardinality(top) < params.topN \/ e.size > Smallest(top).size)
Evicted(top) == IF Cardinality(top) >= params.topN THEN top \ {Smallest(top)} ELSE top

Bucket(i) ==
  LET Age == CHOOSE d \in {IF t > Now THEN 0 ELSE Now - t : t \in Modified[i]} : TRUE
  IN IF Modified[i] = {} THEN "unknown"
     ELSE CASE Age < 1 -> "under_1_day" [] Age >= 1 /\ Age < 7 -> "under_1_week"
            [] Age >= 7 /\ Age < 30 -> "under_1_month" [] Age >= 30 /\ Age < 365 -> "under_1_year"
            [] OTHER -> "older"

Recorded(a, e) ==
  [a EXCEPT !.files = @ + 1, !.bytes = @ + e.size,
            !.top = IF Kept(@, e) THEN Evicted(@) \cup {e} ELSE @,
            !.byExtension = Tally(@, Ext[e.item], e.size),
            !.ages = Tally(@, Bucket(e.item), 0),
            !.seen = @ \cup {e}]

WithError(a, i) ==
  [a EXCEPT !.errorsTotal = @ + 1,
            !.errors = IF Len(@) < params.maxErrors THEN Append(@, i) ELSE @]

(* One item of walk_blocking; broken is a failing read of a file's metadata *)
(* or of a directory's entries.                                             *)
WalkItem(broken) ==
  LET failing == TypeOf(Here) = "error" \/ (broken /\ TypeOf(Here) = "file") IN
  /\ pc = "walk" /\ ~Walked /\ Yields(Here) /\ ~GivesUp
  /\ broken => Here \in Flaky
  /\ at' = at + 1 /\ unread' = Unread(broken)
  /\ IF failing /\ (params.abort \/ Single) THEN Resolve("io") /\ UNCHANGED acc
     ELSE /\ acc' = CASE failing -> WithError(acc, Here)
                      [] ~failing /\ TypeOf(Here) = "dir" -> [acc EXCEPT !.dirs = @ + 1]
                      [] ~failing /\ TypeOf(Here) = "file" /\ Passes(EntryAt(Here)) ->
                           Recorded(acc, EntryAt(Here))
                      [] OTHER -> acc
          /\ UNCHANGED <<pc, answer>>
  /\ UNCHANGED <<world, query, calls, cancelled, params, estimate, hashes, read, report>>

-----------------------------------------------------------------------------
(* detect_duplicates: the candidates are all the entries the walk recorded. *)
Alike(e) == {f \in acc.seen : f.size = e.size}
ToHash == {e \in acc.seen : e.size # 0 /\ Cardinality(Alike(e)) > 1}
EmptyGroup == {e \in acc.seen : e.size = 0}

EndWalk ==
  /\ pc = "walk" /\ Walked
  /\ IF params.duplicates
     THEN pc' = "spawn" /\ hashes' = [e \in ToHash |-> "unspawned"]
          /\ read' = [e \in ToHash |-> Failed] /\ UNCHANGED answer
     ELSE Resolve("ok") /\ UNCHANGED <<hashes, read>>
  /\ UNCHANGED <<world, query, calls, at, cancelled, params, estimate, acc, unread, report>>

InState(s) == {e \in DOMAIN hashes : hashes[e] = s}
SetHash(e, s) == hashes' = [hashes EXCEPT ![e] = s]

(* Semaphore::new(concurrency.max(1))                                       *)
Workers_Unclamped == params.workers
Workers == IF params.workers = 0 THEN 1 ELSE params.workers

SpawnHash(e) ==
  /\ pc = "spawn" /\ e \in InState("unspawned")
  /\ IF cancelled THEN Resolve("Cancelled") /\ hashes' = <<>>
     ELSE SetHash(e, "waiting") /\ UNCHANGED <<pc, answer>>
  /\ UNCHANGED <<world, query, calls, at, cancelled, params, estimate, acc, unread, read, report>>

AllSpawned ==
  /\ pc = "spawn" /\ InState("unspawned") = {}
  /\ pc' = "join"
  /\ UNCHANGED <<world, query, calls, at, cancelled, answer, analysisVars>>

TakePermit(e) ==
  /\ e \in InState("waiting") /\ Cardinality(InState("reading")) < Workers
  /\ SetHash(e, "reading")
  /\ UNCHANGED <<world, callVars, params, estimate, acc, unread, read, report>>

(* The file is read now, whatever it was when the walk measured it.         *)
ReadFile(e, broken) ==
  LET content == disk[Target[e.item]]
      readable == There(e.item) /\ content # Gone
  IN
  /\ e \in InState("reading")
  /\ IF broken THEN e.item \in Flaky \/ ~readable ELSE readable
  /\ read' = [read EXCEPT ![e] = IF broken THEN Failed ELSE content]
  /\ SetHash(e, "ready")
  /\ UNCHANGED <<world, callVars, params, estimate, acc, unread, report>>

(* join_next: cancelled, an error under AbortOnError, or one more result.   *)
(* Returning drops the tasks that are left.                                 *)
JoinHash(e) ==
  /\ pc = "join" /\ e \in InState("ready")
  /\ CASE cancelled -> Resolve("Cancelled") /\ hashes' = <<>> /\ UNCHANGED acc
       [] ~cancelled /\ read[e] = Failed /\ params.abort ->
            Resolve("io") /\ hashes' = <<>> /\ UNCHANGED acc
       [] OTHER -> /\ SetHash(e, "joined")
                   /\ acc' = IF read[e] = Failed THEN WithError(acc, e.item) ELSE acc
                   /\ UNCHANGED <<pc, answer>>
  /\ UNCHANGED <<world, query, calls, at, cancelled, params, estimate, unread, read, report>>

(* by_hash: keyed by the size the walk saw and the content that was read.   *)
Hashed == {e \in DOMAIN read : read[e] # Failed}
SameKey(e) == {f \in Hashed : e.size = f.size /\ read[e] = read[f]}
Groups == {g \in {EmptyGroup} \cup {SameKey(e) : e \in Hashed} : Cardinality(g) > 1}
Waste(groups) == MapThenSumSet(LAMBDA g : (CHOOSE e \in g : TRUE).size * (Cardinality(g) - 1), groups)

(* The totals are of all groups, not of those kept for the report.          *)
Tallied_Kept(groups, kept) == kept
Tallied(groups, kept) == groups

(* Which groups a truncated list keeps depends on the order of a hash map.  *)
ReportDuplicates ==
  /\ pc = "join" /\ \A e \in DOMAIN hashes : hashes[e] = "joined"
  /\ \E kept \in SUBSET Groups :
       /\ Cardinality(kept) = IF Cardinality(Groups) < params.maxGroups
                              THEN Cardinality(Groups) ELSE params.maxGroups
       /\ report' = [groups |-> kept, total |-> Cardinality(Tallied(Groups, kept)),
                     wasted |-> Waste(Tallied(Groups, kept))]
  /\ Resolve("ok")
  /\ UNCHANGED <<world, query, calls, at, cancelled, params, estimate, acc, unread, hashes, read>>

Hashing == \E e \in DOMAIN hashes :
  \/ SpawnHash(e) \/ TakePermit(e) \/ JoinHash(e)
  \/ \E broken \in BOOLEAN : ReadFile(e, broken)

AnalysisStep ==
  \/ RootFails \/ GiveUp \/ PassOver \/ StartWalk \/ EndWalk
  \/ \E broken \in BOOLEAN : CountItem(broken) \/ WalkItem(broken)
  \/ Hashing \/ AllSpawned \/ ReportDuplicates

-----------------------------------------------------------------------------
Reported == pc = "idle" /\ answer = "ok"
AtMost(n, cap) == IF n < cap THEN n ELSE cap
Total(table, field) == SumFunction([k \in DOMAIN table |-> table[k][field]])

(* A report's figures are those of the entries it counted, however many of  *)
(* them were tied, evicted or failing: the largest are the largest, each    *)
(* table adds up, and a truncated list of errors keeps its count.           *)
ReportIsExact ==
  Reported =>
    /\ acc.files = Cardinality(acc.seen)
    /\ acc.bytes = SumFunction([e \in acc.seen |-> e.size])
    /\ Cardinality(acc.top) = AtMost(acc.files, params.topN)
    /\ \A e \in acc.top, f \in acc.seen \ acc.top : e.size >= f.size
    /\ Total(acc.byExtension, "count") = acc.files /\ Total(acc.byExtension, "size") = acc.bytes
    /\ Total(acc.ages, "count") = acc.files
    /\ Len(acc.errors) = AtMost(acc.errorsTotal, params.maxErrors)

(* Files reported as duplicates of each other had the same size in the walk *)
(* and the same bytes when they were read; truncating the list of groups    *)
(* does not change the totals.  On a disk nobody changes they are all the   *)
(* sets of equal files, although unique sizes and empty files are not read. *)
DuplicatesAreTrue ==
  Reported /\ params.duplicates =>
    /\ \A g \in report.groups : \A e, f \in g :
         e.size = f.size /\ (e.size # 0 => read[e] = read[f] /\ read[e] # Failed)
    /\ Cardinality(report.groups) = AtMost(report.total, params.maxGroups)
    /\ edits = 0 /\ acc.errorsTotal = 0 =>
         LET Equal(e) == {f \in acc.seen : disk[Target[f.item]] = disk[Target[e.item]]}
             sets == {g \in {Equal(e) : e \in acc.seen} : Cardinality(g) > 1}
         IN report.total = Cardinality(sets) /\ report.wasted = Waste(sets)

(* A report covers all that matches in the directories that could be read,  *)
(* or counts an error, a cancellation that comes too late to be seen        *)
(* included; and only a cancellation, a bad pattern, an error of the root,  *)
(* or one that was to abort the call withholds it.                          *)
ReportIsWhole ==
  LET Due == {i \in Item : Yields(i) /\ TypeOf(i) = "file" /\ Passes(EntryAt(i))} IN
  pc = "idle" =>
    /\ answer = "ok" /\ edits = 0 /\ acc.errorsTotal = 0 => ItemsOf(acc.seen) = Due
    /\ answer = "Cancelled" => cancelled
    /\ answer = "io" => params.abort \/ Single \/ at = 1
=============================================================================

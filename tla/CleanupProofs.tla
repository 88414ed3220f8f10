---------------------------- MODULE CleanupProofs ----------------------------
(***************************************************************************)
(* What a session of analyses, previews and removals keeps true for any     *)
(* tree, criteria, options and number of calls, whatever another process    *)
(* changes meanwhile.                                                       *)
(***************************************************************************)
EXTENDS Cleanup, SumTheorems, FiniteSetTheorems, TLAPS

OutType == [succeeded : SUBSET Item, previewed : SUBSET Item, failed : SUBSET Item,
            stoppedEarly : Reasons \cup {None}]

RemovePhases  == {"scan", "delete"}
AnalyzePhases == {"count", "walk", "spawn", "join"}

(* No task reads or waits when its call does not hash files.                *)
NoTaskLeft == pc \notin {"spawn", "join"} => \A e \in DOMAIN hashes : hashes[e] = "joined"

TypeInv ==
  /\ disk \in [Objects -> Content \cup {Gone}] /\ query \in Queries
  /\ at \in 1 .. Len(Order) + 1 /\ calm \in BOOLEAN /\ edits \in Nat
  /\ pc \in {"idle"} \cup RemovePhases \cup AnalyzePhases
  /\ pc \in RemovePhases => kind = "remove"
  /\ pc \in AnalyzePhases => kind = "analyze"
  /\ outcome \in OutType /\ opts.strategy \in Strategies /\ DOMAIN acc = DOMAIN NewAggregator
  /\ acc.errorsTotal \in Nat /\ IsFiniteSet(acc.seen)
  /\ kind = "analyze" /\ edits = 0 => calm
  /\ NoTaskLeft

-----------------------------------------------------------------------------
(* The part of the tree a call can reach, whatever the disk holds, and what *)
(* of it the scan found and no criterion rules out.                         *)
Reachable == {i \in Item : Single \/ (Within(i) /\ (Follow \/ (Kind[i] = "file" /\ ~Behind(i))))}
Selectable == {i \in Reachable : \E e \in found : e.item = i /\ ~RulesOut(query.filter, e)}

RemoveInv ==
  /\ kind # "remove" => unlinked = {}
  /\ \A e \in found : e.item \in Reachable /\ e.size \in Nat
  /\ todo \cup unlinked \subseteq Selectable
  /\ pc = "scan" => todo = {} /\ unlinked = {} /\ outcome = NoOutcome
  /\ pc \in RemovePhases \/ unlinked # {} => ~CriteriaMissing(opts)
  /\ pc = "delete" \/ unlinked # {} => ~opts.dry
  /\ pc = "delete" => /\ outcome.succeeded = unlinked /\ outcome.failed \cap unlinked = {}
                      /\ todo \cap (unlinked \cup outcome.failed) = {}
  /\ RemovalTold

-----------------------------------------------------------------------------
(* What the two walks find on the disk as it is, and the walk so far.       *)
Files      == {i \in Item : Met(i) /\ TypeOf(i) = "file"}
DueNow     == {i \in Files : Passes(EntryAt(i)) /\ ~IsExcluded(i)}
AllCounted == {i \in Files : ~Pruned(i) /\ Passes(EntryAt(i))}
Counted(hidden) == {i \in AllCounted : Above[i] \cap hidden = {}}
CountedNow == Counted(unread)
EntriesOf(items) == {EntryAt(i) : i \in items}
Walking == {Order[n] : n \in 1 .. at - 1}

(* As long as nobody changes the disk, what a call gathers is what is there.*)
CalmInv ==
  /\ previewed # {} \/ counted # {} => calm
  /\ \A p \in previewed : p = DueNow
  /\ \A c \in counted : c = AllCounted
  /\ pc = "scan" /\ calm => found = EntriesOf(Files \cap Walking)
  /\ pc = "delete" => \A p \in previewed : todo \cup outcome.failed = p
  /\ calm /\ acc.errorsTotal = 0 =>
       /\ pc = "walk" => acc.seen = EntriesOf(CountedNow \cap Walking)
       /\ pc \in {"spawn", "join"} \/ (kind = "analyze" /\ Reported) => acc.seen = EntriesOf(CountedNow)
  /\ pc = "count" => acc = NewAggregator

(* Why an analysis gives no report.                                         *)
AnswerInv ==
  kind = "analyze" /\ pc = "idle" =>
    (answer = "Cancelled" => cancelled) /\ (answer = "io" => params.abort \/ Single \/ at = 1)

-----------------------------------------------------------------------------
LEMMA ItemFacts ==
  /\ Len(Order) \in Nat /\ DOMAIN Order = 1 .. Len(Order)
  /\ \A n \in 1 .. Len(Order) : Order[n] \in Item
  /\ Item = {Order[n] : n \in 1 .. Len(Order)}
  /\ \A m, n \in 1 .. Len(Order) : Order[m] = Order[n] => m = n
<1>1. Order \in Seq(Item)
  BY SelectionAssumption
<1>2. Len(Order) \in Nat /\ DOMAIN Order = 1 .. Len(Order)
  BY <1>1
<1> QED
  BY <1>1, <1>2, SelectionAssumption DEF Item

LEMMA ReasonFacts ==
  ASSUME NEW s \in Strategies, NEW fatal \in BOOLEAN PROVE FailureReason(s, fatal) \in Reasons \cup {None}
  BY DEF FailureReason, StrategyReason, Reasons, Strategies

LEMMA NothingIsOut == NoOutcome \in OutType /\ NewAggregator.errorsTotal = 0 /\ NewAggregator.seen = {}
  BY DEF NoOutcome, OutType, None, NewAggregator

(* What the walks find depends on the disk and the criteria alone.          *)
LEMMA SameDisk ==
  ASSUME disk' = disk, query' = query
  PROVE  /\ Files' = Files /\ DueNow' = DueNow /\ AllCounted' = AllCounted
         /\ CountedNow' = Counted(unread')
         /\ Reachable' = Reachable /\ Single' = Single
         /\ \A S : EntriesOf(S)' = EntriesOf(S)
         /\ \A i : EntryAt(i)' = EntryAt(i)
<1>1. \A i : EntryAt(i)' = EntryAt(i)
  BY DEF EntryAt
<1>2. Single' = Single /\ Follow' = Follow
  BY DEF Single, Follow
<1>3. \A i : (Met(i)' <=> Met(i)) /\ TypeOf(i)' = TypeOf(i)
  BY <1>2 DEF Met, TypeOf, Within, There, Behind
<1>4. \A i : (IsExcluded(i)' <=> IsExcluded(i)) /\ (Passes(EntryAt(i))' <=> Passes(EntryAt(i)))
  BY <1>1 DEF IsExcluded, Passes
<1>5. \A i : Pruned(i)' <=> Pruned(i)
  BY <1>2, <1>4 DEF Pruned
<1>6. Files' = Files
  BY <1>3 DEF Files
<1>7. Reachable' = Reachable
  BY <1>2 DEF Reachable, Within, Behind
<1>8. DueNow' = DueNow /\ AllCounted' = AllCounted
  BY <1>4, <1>5, <1>6 DEF DueNow, AllCounted
<1>9. CountedNow' = Counted(unread')
  BY <1>8 DEF CountedNow, Counted
<1>10. \A S : EntriesOf(S)' = EntriesOf(S)
  BY <1>1 DEF EntriesOf
<1> QED
  BY <1>1, <1>2, <1>6, <1>7, <1>8, <1>9, <1>10

LEMMA CriteriaStay ==
  ASSUME query' = query
  PROVE  Reachable' = Reachable /\ (found' = found => Selectable' = Selectable)
<1>1. Reachable' = Reachable
  BY DEF Reachable, Single, Follow, Within, Behind
<1> QED
  BY <1>1 DEF Selectable

(* What passes and no pattern excludes is not ruled out by any criterion.   *)
LEMMA PassingIsAskedFor ==
  ASSUME TypeInv, NEW e, e.item \in Item, e.size \in Nat, Passes(e), ~IsExcluded(e.item)
  PROVE  ~RulesOut(query.filter, e)
<1>1. /\ Modified[e.item] \subseteq Int
      /\ query.filter.min \cup query.filter.max \subseteq Nat
      /\ query.filter.after \cup query.filter.before \subseteq Int
  BY SelectionAssumption DEF TypeInv
<1>2. /\ \A S \in query.filter.extensions : Ext[e.item] \in S \ {""}
      /\ \A min \in query.filter.min : ~(e.size < min)
      /\ \A max \in query.filter.max : ~(e.size > max)
  <2>1. \A S \in query.filter.extensions : Ext[e.item] # "" /\ Ext[e.item] \in S
    BY DEF Passes
  <2>2. InRange(e.size, query.filter.min, query.filter.max)
    BY DEF Passes
  <2>3. \A S \in query.filter.extensions : Ext[e.item] \in S \ {""}
    BY <2>1, Zenon
  <2>4. \A min \in query.filter.min : min \in Nat /\ e.size >= min
    BY <1>1, <2>2 DEF InRange
  <2>5. \A max \in query.filter.max : max \in Nat /\ e.size <= max
    BY <1>1, <2>2 DEF InRange
  <2>6. /\ \A min \in query.filter.min : ~(e.size < min)
        /\ \A max \in query.filter.max : ~(e.size > max)
    BY <2>4, <2>5
  <2> QED
    BY <2>3, <2>6
<1>3. \A p \in query.filter.patterns : e.item \notin Excluded[p]
  BY DEF IsExcluded
<1>4. \A t \in query.filter.after \cup query.filter.before : Modified[e.item] # {}
  BY DEF Passes
<1>5. ASSUME NEW time \in Modified[e.item]
      PROVE  /\ \A t \in query.filter.after : ~(time < t)
             /\ \A t \in query.filter.before : ~(time > t)
  <2>1. query.filter.after \cup query.filter.before # {} =>
          \E t \in Modified[e.item] : InRange(t, query.filter.after, query.filter.before)
    BY DEF Passes
  <2>2. \A t \in Modified[e.item] : t = time
    BY SelectionAssumption
  <2> QED
    BY <1>1, <2>1, <2>2 DEF InRange
<1> QED
  BY <1>2, <1>3, <1>4, <1>5 DEF RulesOut

LEMMA Gathered == ASSUME NEW S PROVE ItemsOf(EntriesOf(S)) = S
<1>1. \A i : EntryAt(i).item = i
  BY DEF EntryAt
<1> QED
  BY <1>1 DEF ItemsOf, EntriesOf

(* A step of a walk, and where it starts and ends.                          *)
LEMMA WalkFacts ==
  ASSUME TypeInv
  PROVE  /\ at = 1 => Walking = {}
         /\ Walked => Walking = Item
         /\ ~Walked => /\ Here \in Item /\ at + 1 \in 1 .. Len(Order) + 1
                       /\ at' = at + 1 => Walking' = Walking \cup {Here}
                       /\ \A i \in Walking \cup {Here} : Here \notin Above[i]
<1>1. at \in 1 .. Len(Order) + 1 /\ Len(Order) \in Nat
  BY ItemFacts DEF TypeInv
<1>2. Walked => Walking = Item
  <2>1. Walked => at - 1 = Len(Order)
    BY <1>1 DEF Walked
  <2> QED
    BY <2>1, ItemFacts DEF Walking
<1>3. ASSUME ~Walked PROVE Here \in Item /\ at + 1 \in 1 .. Len(Order) + 1
  BY <1>1, <1>3, ItemFacts DEF Walked, Here
<1>4. ASSUME ~Walked, at' = at + 1 PROVE Walking' = Walking \cup {Here}
  <2>1. 1 .. at' - 1 = (1 .. at - 1) \cup {at}
    BY <1>1, <1>4
  <2> QED
    BY <2>1 DEF Walking, Here
<1>5. ASSUME ~Walked, NEW i \in Walking \cup {Here} PROVE Here \notin Above[i]
  <2>1. PICK n \in 1 .. at : i = Order[n]
    BY <1>1 DEF Walking, Here
  <2>2. at \in DOMAIN Order /\ n \in DOMAIN Order /\ \A m \in 1 .. n - 1 : m \in DOMAIN Order /\ m # at
    BY <1>1, <1>5, <2>1, ItemFacts DEF Walked
  <2>3. Above[i] \subseteq {Order[m] : m \in 1 .. n - 1}
    BY <2>1, <2>2, SelectionAssumption
  <2> QED
    BY <2>2, <2>3, SelectionAssumption DEF Here
<1>6. at = 1 => Walking = {}
  BY DEF Walking
<1> QED
  BY <1>2, <1>3, <1>4, <1>5, <1>6

(* A regular file the walk met can be reached by the criteria, and is there.*)
LEMMA FileFacts ==
  ASSUME TypeInv, NEW i \in Files
  PROVE  i \in Reachable /\ disk[Target[i]] \in Content
<1>1. i \in Item /\ Met(i) /\ TypeOf(i) = "file"
  BY DEF Files
<1>2. CASE Single
  <2>1. i \in query.single /\ There(i)
    BY <1>1, <1>2 DEF Met, TypeOf
  <2>2. Kind[i] = "file" /\ Object[i] = Target[i]
    BY <1>1, <2>1, SelectionAssumption DEF TypeInv
  <2> QED
    BY <1>1, <1>2, <2>1, <2>2 DEF Reachable, There, TypeInv, Objects
<1>3. CASE ~Single
  <2>1. \/ Kind[i] = "file" /\ disk[Object[i]] # Gone
        \/ Kind[i] = "link" /\ Follow /\ disk[Target[i]] # Gone
    BY <1>1, <1>3 DEF Met, TypeOf, There
  <2>2. disk[Target[i]] # Gone
    BY <1>1, <2>1, SelectionAssumption
  <2>3. i \in Reachable
    BY <1>1, <1>3, <2>1 DEF Met, Reachable
  <2> QED
    BY <1>1, <2>2, <2>3 DEF TypeInv, Objects
<1> QED
  BY <1>2, <1>3
-----------------------------------------------------------------------------
(* The aggregator when a file is recorded, and when an error is counted.    *)
LEMMA AggregatorFacts ==
  ASSUME NEW a, DOMAIN a = DOMAIN NewAggregator, NEW e, NEW i
  PROVE  /\ DOMAIN Recorded(a, e) = DOMAIN a /\ DOMAIN WithError(a, i) = DOMAIN a
         /\ Recorded(a, e).seen = a.seen \cup {e}
         /\ Recorded(a, e).errorsTotal = a.errorsTotal
         /\ WithError(a, i).seen = a.seen /\ WithError(a, i).errorsTotal = a.errorsTotal + 1
<1>1. {"seen", "errorsTotal"} \subseteq DOMAIN a
  BY DEF NewAggregator
<1> QED
  BY <1>1 DEF Recorded, WithError

(* What a step of an analysis may do, whichever it is.                      *)
LEMMA AnalysisFacts ==
  ASSUME TypeInv, AnalysisStep
  PROVE  /\ UNCHANGED <<disk, edits, query, calls, cancelled, params>>
         /\ pc \in AnalyzePhases /\ pc' \in {"idle"} \cup AnalyzePhases
         /\ at' \in 1 .. Len(Order) + 1
         /\ DOMAIN acc' = DOMAIN NewAggregator /\ acc'.errorsTotal \in Nat /\ IsFiniteSet(acc'.seen)
         /\ NoTaskLeft'
<1> USE DEF Resolve, world, callVars, analysisVars
<1>0. /\ at \in 1 .. Len(Order) + 1 /\ DOMAIN acc = DOMAIN NewAggregator
      /\ acc.errorsTotal \in Nat /\ IsFiniteSet(acc.seen)
      /\ Len(Order) \in Nat /\ NoTaskLeft
  BY ItemFacts DEF TypeInv
<1>a. DOMAIN <<>> = {}
  OBVIOUS
<1> USE DEF NoTaskLeft
<1>1. CASE GiveUp \/ RootFails
  BY <1>0, <1>1 DEF GiveUp, RootFails, AnalyzePhases
<1>2. CASE PassOver
  BY <1>0, <1>2, WalkFacts DEF PassOver, AnalyzePhases
<1>3. CASE StartWalk
  BY <1>0, <1>3 DEF StartWalk, AnalyzePhases
<1>4. CASE EndWalk
  BY <1>0, <1>4 DEF EndWalk, AnalyzePhases
<1>6. CASE \E broken \in BOOLEAN : CountItem(broken)
  BY <1>0, <1>6, WalkFacts DEF CountItem, AnalyzePhases
<1>7. CASE \E broken \in BOOLEAN : WalkItem(broken)
  <2>1. /\ pc = "walk" /\ ~Walked /\ at' = at + 1
        /\ UNCHANGED <<disk, edits, query, calls, cancelled, params, hashes>>
        /\ pc' \in {"walk", "idle"}
        /\ \/ acc' = acc \/ acc' = WithError(acc, Here) \/ acc' = [acc EXCEPT !.dirs = @ + 1]
           \/ acc' = Recorded(acc, EntryAt(Here))
    BY <1>7 DEF WalkItem
  <2>2. /\ DOMAIN acc' = DOMAIN NewAggregator /\ acc'.errorsTotal \in Nat
        /\ acc'.seen = acc.seen \/ acc'.seen = acc.seen \cup {EntryAt(Here)}
    <3>1. CASE acc' = acc
      BY <1>0, <3>1
    <3>2. CASE acc' = WithError(acc, Here)
      BY <1>0, <3>2, AggregatorFacts
    <3>3. CASE acc' = [acc EXCEPT !.dirs = @ + 1]
      BY <1>0, <3>3 DEF NewAggregator
    <3>4. CASE acc' = Recorded(acc, EntryAt(Here))
      BY <1>0, <3>4, AggregatorFacts
    <3> QED
      BY <2>1, <3>1, <3>2, <3>3, <3>4
  <2>3. IsFiniteSet(acc'.seen)
    BY <1>0, <2>2, FS_AddElement
  <2> QED
    BY <1>0, <2>1, <2>2, <2>3, WalkFacts DEF AnalyzePhases
<1>8. CASE Hashing
  <2>1. PICK e \in DOMAIN hashes :
          SpawnHash(e) \/ TakePermit(e) \/ JoinHash(e) \/ \E broken \in BOOLEAN : ReadFile(e, broken)
    BY <1>8 DEF Hashing
  <2>2. /\ UNCHANGED <<disk, edits, query, calls, at, cancelled, params>>
        /\ pc \in {"spawn", "join"} /\ pc' \in {"idle", pc}
        /\ acc' = acc \/ acc' = WithError(acc, e.item)
        /\ pc' = "idle" => hashes' = <<>>
    <3>1. pc \in {"spawn", "join"}
      BY <1>0, <2>1 DEF SpawnHash, TakePermit, JoinHash, ReadFile, InState
    <3> QED
      BY <2>1, <3>1 DEF SpawnHash, TakePermit, JoinHash, ReadFile
  <2>3. DOMAIN acc' = DOMAIN NewAggregator /\ acc'.errorsTotal \in Nat /\ IsFiniteSet(acc'.seen)
    BY <1>0, <2>2, AggregatorFacts
  <2> QED
    BY <1>0, <1>a, <2>2, <2>3 DEF AnalyzePhases
<1>9. CASE AllSpawned
  BY <1>0, <1>9 DEF AllSpawned, AnalyzePhases
<1>10. CASE ReportDuplicates
  BY <1>0, <1>10 DEF ReportDuplicates, AnalyzePhases
<1> QED
  BY <1>1, <1>2, <1>3, <1>4, <1>6, <1>7, <1>8, <1>9, <1>10 DEF AnalysisStep
-----------------------------------------------------------------------------
(* The steps of a removal, of others, and between calls.                    *)
LEMMA RemovalFacts ==
  ASSUME TypeInv, RemoveInv, RemoveStep
  PROVE  /\ UNCHANGED <<query, edits, calls, cancelled, opts>>
         /\ disk' \in [Objects -> Content \cup {Gone}] /\ at' \in 1 .. Len(Order) + 1
         /\ pc \in RemovePhases /\ pc' \in {"idle"} \cup RemovePhases
         /\ outcome' \in OutType
<1> USE DEF Resolve, world, callVars
<1>0. /\ disk \in [Objects -> Content \cup {Gone}] /\ at \in 1 .. Len(Order) + 1 /\ outcome \in OutType
      /\ todo \subseteq Item
  BY DEF TypeInv, RemoveInv, Selectable, Reachable
<1>1. CASE \E broken \in BOOLEAN : ScanItem(broken)
  BY <1>0, <1>1, WalkFacts DEF ScanItem, RemovePhases
<1>2. CASE MatchEntries
  <2>1. pc = "scan" /\ Walked /\ UNCHANGED <<query, edits, calls, cancelled, opts, disk, at>>
        /\ pc' \in {"idle", "delete"}
    BY <1>2 DEF MatchEntries
  <2>2. ItemsOf(Matched) \subseteq Item
    BY DEF RemoveInv, Reachable, ItemsOf, Matched
  <2>3. outcome' \in OutType
    BY <1>0, <1>2, <2>2 DEF MatchEntries, OutType
  <2> QED
    BY <1>0, <2>1, <2>3 DEF RemovePhases
<1>3. ASSUME NEW i \in todo, NEW r \in {"Written", "Error", "Fatal"}, RemoveEntry(i, r)
      PROVE  /\ UNCHANGED <<query, edits, calls, cancelled, opts, pc, at>> /\ pc = "delete"
             /\ disk' \in [Objects -> Content \cup {Gone}] /\ outcome' \in OutType
  <2>1. /\ UNCHANGED <<query, edits, calls, cancelled, opts, pc, at>> /\ pc = "delete"
        /\ disk' = disk \/ disk' = [disk EXCEPT ![Object[i]] = Gone]
    BY <1>3 DEF RemoveEntry
  <2>2. FailureReason(opts.strategy, r = "Fatal") \in Reasons \cup {None}
    BY ReasonFacts DEF TypeInv
  <2>3. outcome' \in OutType
    <3>1. CASE r = "Written"
      BY <1>0, <1>3, <3>1 DEF RemoveEntry, OutType
    <3>2. CASE r # "Written"
      <4>1. outcome' = [outcome EXCEPT !.failed = @ \cup {i},
                          !.stoppedEarly = IF @ = None THEN FailureReason(opts.strategy, r = "Fatal") ELSE @]
        BY <1>3, <3>2 DEF RemoveEntry
      <4> QED
        BY <1>0, <2>2, <4>1 DEF OutType
    <3> QED
      BY <3>1, <3>2
  <2> QED
    BY <1>0, <2>1, <2>3
<1>4. CASE EndRemove
  <2>1. UNCHANGED <<query, edits, calls, cancelled, opts, disk, at>> /\ pc = "delete" /\ pc' = "idle"
    BY <1>4 DEF EndRemove
  <2>2. PICK reason \in Reasons \cup {None} :
          outcome' = [outcome EXCEPT !.stoppedEarly = reason,
                        !.succeeded = IF opts.strategy = "Undo" /\ reason # None THEN {} ELSE @]
    BY <1>0, <1>4 DEF EndRemove, OutType, Reasons
  <2>3. outcome' \in OutType
    BY <1>0, <2>2 DEF OutType
  <2> QED
    BY <1>0, <2>1, <2>3 DEF RemovePhases
<1> QED
  BY <1>0, <1>1, <1>2, <1>3, <1>4 DEF RemoveStep, RemovePhases

(* The kinds of step a session takes.                                       *)
LEMMA Steps ==
  ASSUME TypeInv, RemoveInv, [Next]_allVars
  PROVE  \/ UNCHANGED allVars
         \/ /\ pc = "idle" /\ calm' /\ UNCHANGED <<disk, edits, query, counted, previewed>>
            /\ \/ \E o \in RemoveOptions : StartRemove(o) /\ kind' = "remove" /\ ForgetReport
               \/ \E p \in AnalysisOptions : StartAnalysis(p) /\ kind' = "analyze" /\ ForgetRemoval
         \/ kind = "remove" /\ kind' = "remove" /\ RemoveStep /\ Remember /\ UNCHANGED analysisVars
         \/ kind = "analyze" /\ kind' = "analyze" /\ AnalysisStep /\ Remember /\ UNCHANGED removeVars
         \/ /\ UNCHANGED <<kind, query, calls, pc, at, answer, removeVars, analysisVars>> /\ Remember
            /\ \/ pc # "idle" /\ cancelled' /\ UNCHANGED <<disk, edits>>
               \/ /\ edits' = edits + 1 /\ UNCHANGED cancelled
                  /\ disk' \in [Objects -> Content \cup {Gone}] /\ disk' # disk
<1> USE DEF world, callVars
<1>1. CASE StartCall /\ calm' = TRUE /\ UNCHANGED <<counted, previewed>>
  BY <1>1 DEF StartCall, StartRemove, StartAnalysis
<1>2. CASE CallStep /\ UNCHANGED kind /\ Remember
  BY <1>2 DEF CallStep
<1>3. CASE Cancel /\ UNCHANGED <<removeVars, analysisVars>> /\ UNCHANGED kind /\ Remember
  BY <1>3 DEF Cancel
<1>4. ASSUME NEW o \in Objects, NEW c \in Content \cup {Gone}, Edit(o, c),
             UNCHANGED <<removeVars, analysisVars>>, UNCHANGED kind, Remember
      PROVE  /\ UNCHANGED <<kind, query, calls, pc, at, answer, cancelled>> /\ edits' = edits + 1
             /\ disk' \in [Objects -> Content \cup {Gone}] /\ disk' # disk
  BY <1>4 DEF Edit, TypeInv
<1>5. CASE Waits
  BY <1>5 DEF Waits
<1> QED
  BY <1>1, <1>2, <1>3, <1>4, <1>5 DEF Next, Others

LEMMA TypeStep ==
  ASSUME TypeInv, RemoveInv, [Next]_allVars
  PROVE  TypeInv'
<1> USE DEF RemovePhases, AnalyzePhases, Resolve
<1>0. TypeInv /\ calm \in BOOLEAN /\ edits \in Nat
  BY DEF TypeInv
<1>a. DOMAIN <<>> = {} /\ IsFiniteSet({})
  BY FS_EmptySet
<1>1. CASE UNCHANGED allVars
  BY <1>0, <1>1 DEF TypeInv, NoTaskLeft, allVars, world, callVars, removeVars, analysisVars, history
<1>2. ASSUME NEW o \in RemoveOptions, StartRemove(o), kind' = "remove", ForgetReport, calm',
             UNCHANGED <<disk, edits, query, counted, previewed>>
      PROVE  TypeInv'
  <2>1. /\ at' = 1 /\ outcome' = NoOutcome /\ opts' = o /\ acc' = NewAggregator /\ hashes' = <<>>
        /\ pc' \in {"idle", "scan"}
    BY <1>2 DEF StartRemove, ForgetReport
  <2>2. o.strategy \in Strategies
    BY CleanupAssumption
  <2> QED
    BY <1>0, <1>a, <1>2, <2>1, <2>2, ItemFacts, NothingIsOut DEF TypeInv, NoTaskLeft
<1>3. ASSUME NEW p \in AnalysisOptions, StartAnalysis(p), kind' = "analyze", ForgetRemoval, calm',
             UNCHANGED <<disk, edits, query, counted, previewed>>
      PROVE  TypeInv'
  <2>1. /\ at' = 1 /\ outcome' = NoOutcome /\ opts' = DefaultOptions /\ acc' = NewAggregator
        /\ hashes' = <<>> /\ pc' \in {"idle", "count", "walk"}
    BY <1>3 DEF StartAnalysis, ForgetRemoval
  <2>2. opts'.strategy \in Strategies
    BY <2>1 DEF DefaultOptions, Strategies
  <2> QED
    BY <1>0, <1>a, <1>3, <2>1, <2>2, ItemFacts, NothingIsOut DEF TypeInv, NoTaskLeft
<1>4. CASE kind = "remove" /\ kind' = "remove" /\ RemoveStep /\ Remember /\ UNCHANGED analysisVars
  <2>1. calm' \in BOOLEAN
    BY <1>4 DEF Remember
  <2>2. NoTaskLeft'
    BY <1>0, <1>4, RemovalFacts DEF TypeInv, NoTaskLeft, analysisVars
  <2> QED
    BY <1>0, <1>4, <2>1, <2>2, RemovalFacts DEF TypeInv, analysisVars
<1>5. CASE kind = "analyze" /\ kind' = "analyze" /\ AnalysisStep /\ Remember /\ UNCHANGED removeVars
  <2>1. calm' = calm
    BY <1>0, <1>5, AnalysisFacts DEF Remember
  <2> QED
    BY <1>0, <1>5, <2>1, AnalysisFacts DEF TypeInv, removeVars
<1>6. CASE /\ UNCHANGED <<kind, query, calls, pc, at, answer, removeVars, analysisVars>> /\ Remember
           /\ \/ pc # "idle" /\ cancelled' /\ UNCHANGED <<disk, edits>>
              \/ /\ edits' = edits + 1 /\ UNCHANGED cancelled
                 /\ disk' \in [Objects -> Content \cup {Gone}] /\ disk' # disk
  <2>1. calm' \in BOOLEAN /\ (edits' = 0 => calm' = calm)
    BY <1>0, <1>6 DEF Remember
  <2>2. edits' \in Nat /\ (edits' = 0 => edits = 0) /\ disk' \in [Objects -> Content \cup {Gone}]
    BY <1>0, <1>6 DEF TypeInv
  <2> QED
    BY <1>0, <1>6, <2>1, <2>2 DEF TypeInv, NoTaskLeft, removeVars, analysisVars
<1> QED
  BY <1>1, <1>2, <1>3, <1>4, <1>5, <1>6, Steps
-----------------------------------------------------------------------------
(* One lemma for each action of a removal.                                  *)
LEMMA ScanKeepsRemoval ==
  ASSUME TypeInv, RemoveInv, NEW broken \in BOOLEAN, ScanItem(broken), UNCHANGED kind
  PROVE  RemoveInv'
<1>0. /\ pc = "scan" /\ ~Walked /\ kind = "remove"
      /\ UNCHANGED <<disk, query, opts, todo, outcome, unlinked, kind>>
      /\ Reachable' = Reachable /\ todo = {} /\ unlinked = {}
  BY CriteriaStay DEF RemoveInv, TypeInv, RemovePhases, ScanItem, world
<1>1. found' = found \/ (Met(Here) /\ TypeOf(Here) = "file" /\ found' = found \cup {EntryAt(Here)})
  BY DEF ScanItem
<1>2. pc' = "scan" \/ (pc' = "idle" /\ answer' = "io")
  BY <1>0 DEF ScanItem, Resolve
<1>3. \A e \in found' : e.item \in Reachable /\ e.size \in Nat
  <2>1. Met(Here) /\ TypeOf(Here) = "file" => Here \in Reachable /\ disk[Target[Here]] \in Content
    BY <1>0, WalkFacts, FileFacts DEF Files
  <2>2. EntryAt(Here).item = Here /\ EntryAt(Here).size = SizeOf[disk[Target[Here]]]
    BY DEF EntryAt
  <2> QED
    BY <1>1, <2>1, <2>2, SelectionAssumption DEF RemoveInv
<1>4. CriteriaMissing(opts)' = CriteriaMissing(opts)
  BY <1>0 DEF CriteriaMissing
<1>5. RemovalTold'
  BY <1>0, <1>2 DEF RemovalTold, RemovalIsTold
<1> QED
  BY <1>0, <1>2, <1>3, <1>4, <1>5 DEF RemoveInv, RemovePhases

LEMMA MatchKeepsRemoval ==
  ASSUME TypeInv, RemoveInv, MatchEntries, UNCHANGED kind
  PROVE  RemoveInv'
<1>0. /\ pc = "scan" /\ kind = "remove" /\ UNCHANGED <<disk, query, opts, found, unlinked, kind>>
      /\ Reachable' = Reachable /\ Selectable' = Selectable
      /\ CriteriaMissing(opts)' = CriteriaMissing(opts)
  BY CriteriaStay DEF TypeInv, RemovePhases, MatchEntries, world, CriteriaMissing
<1>1. ItemsOf(Matched) \subseteq Selectable
  <2>1. ASSUME NEW e \in Matched PROVE e.item \in Selectable
    <3>1. /\ e \in found /\ e.item \in Reachable /\ e.item \in Item /\ e.size \in Nat
          /\ ~IsExcluded(e.item) /\ Passes(e)
      BY DEF Matched, RemoveInv, Reachable
    <3>2. ~RulesOut(query.filter, e)
      BY <3>1, PassingIsAskedFor
    <3> QED
      BY <3>1, <3>2 DEF Selectable
  <2> QED
    BY <2>1 DEF ItemsOf
<1>2. todo = {} /\ unlinked = {} /\ outcome = NoOutcome /\ ~CriteriaMissing(opts)
  BY <1>0 DEF RemoveInv, RemovePhases
<1>3. \/ pc' = "idle" /\ answer' = "InvalidGlobPattern" /\ todo' = {}
      \/ pc' = "idle" /\ opts.dry /\ todo' = {}
      \/ pc' = "delete" /\ ~opts.dry /\ todo' = ItemsOf(Matched) /\ outcome' = outcome
  BY <1>2 DEF MatchEntries, Previews, Resolve
<1>4. RemovalTold'
  BY <1>0, <1>3 DEF RemovalTold, RemovalIsTold
<1>5. NoOutcome.succeeded = {} /\ NoOutcome.failed = {}
  BY DEF NoOutcome
<1> QED
  BY <1>0, <1>1, <1>2, <1>3, <1>4, <1>5 DEF RemoveInv, RemovePhases

LEMMA RemoveEntryKeepsRemoval ==
  ASSUME TypeInv, RemoveInv, UNCHANGED kind,
         NEW i \in todo, NEW r \in {"Written", "Error", "Fatal"}, RemoveEntry(i, r)
  PROVE  RemoveInv'
<1>0. /\ pc = "delete" /\ kind = "remove" /\ UNCHANGED <<query, pc, opts, found, kind>>
      /\ todo' = todo \ {i} /\ CanResult(i, r)
      /\ Reachable' = Reachable /\ Selectable' = Selectable
      /\ CriteriaMissing(opts)' = CriteriaMissing(opts)
  BY CriteriaStay DEF TypeInv, RemovePhases, RemoveEntry, callVars, CriteriaMissing
<1>1. /\ outcome \in OutType /\ outcome.succeeded = unlinked /\ outcome.failed \cap unlinked = {}
      /\ todo \cap (unlinked \cup outcome.failed) = {}
  BY <1>0 DEF RemoveInv, TypeInv
<1>2. \/ /\ unlinked' = unlinked \cup {i} /\ outcome'.succeeded = outcome.succeeded \cup {i}
         /\ outcome'.failed = outcome.failed
      \/ /\ unlinked' = unlinked /\ outcome'.succeeded = outcome.succeeded
         /\ outcome'.failed = outcome.failed \cup {i}
  <2>1. CASE r = "Written"
    BY <1>0, <1>1, <2>1 DEF RemoveEntry, CanResult, OutType
  <2>2. CASE r # "Written"
    BY <1>0, <1>1, <2>2 DEF RemoveEntry, OutType
  <2> QED
    BY <2>1, <2>2
<1>3. RemovalTold'
  BY <1>0 DEF RemovalTold, RemovalIsTold
<1>4. /\ todo' \cup unlinked' \subseteq Selectable
      /\ outcome'.succeeded = unlinked' /\ outcome'.failed \cap unlinked' = {}
      /\ todo' \cap (unlinked' \cup outcome'.failed) = {}
  BY <1>0, <1>1, <1>2 DEF RemoveInv
<1> QED
  BY <1>0, <1>3, <1>4 DEF RemoveInv, RemovePhases

LEMMA EndKeepsRemoval ==
  ASSUME TypeInv, RemoveInv, EndRemove, UNCHANGED kind
  PROVE  RemoveInv'
<1>0. /\ pc = "delete" /\ kind = "remove" /\ pc' = "idle"
      /\ UNCHANGED <<disk, query, opts, found, todo, unlinked, kind>>
      /\ Reachable' = Reachable /\ Selectable' = Selectable
      /\ CriteriaMissing(opts)' = CriteriaMissing(opts)
  BY CriteriaStay DEF TypeInv, RemovePhases, EndRemove, world, Resolve, CriteriaMissing
<1>1. /\ outcome \in OutType /\ outcome.succeeded = unlinked /\ outcome.failed \cap unlinked = {}
  BY <1>0 DEF RemoveInv, TypeInv
<1>2. /\ outcome'.failed = outcome.failed
      /\ outcome'.succeeded = IF opts.strategy = "Undo" /\ outcome'.stoppedEarly # None
                              THEN {} ELSE outcome.succeeded
      /\ outcome'.stoppedEarly = None => todo = {}
  BY <1>1 DEF EndRemove, OutType, None
<1>3. RemovalTold'
  BY <1>0, <1>1, <1>2 DEF RemovalTold, RemovalIsTold
<1> QED
  BY <1>0, <1>3 DEF RemoveInv, RemovePhases

LEMMA RemoveInvStep ==
  ASSUME TypeInv, RemoveInv, [Next]_allVars
  PROVE  RemoveInv'
<1>1. CASE UNCHANGED allVars
  BY <1>1 DEF RemoveInv, allVars, world, callVars, removeVars, analysisVars, history, Reachable, Selectable,
              RemovalTold, RemovalIsTold, CriteriaMissing, Single, Follow, Within, Behind
<1>2. ASSUME NEW o \in RemoveOptions, StartRemove(o), kind' = "remove"
      PROVE  RemoveInv'
  <2>1. /\ opts' = o /\ found' = {} /\ todo' = {} /\ outcome' = NoOutcome /\ unlinked' = {}
        /\ UNCHANGED query /\ CriteriaMissing(o)' = CriteriaMissing(o)
        /\ IF CriteriaMissing(o) THEN pc' = "idle" /\ answer' = "RemoveCriteriaRequired" ELSE pc' = "scan"
    BY <1>2 DEF StartRemove, Resolve, CriteriaMissing
  <2>2. CriteriaMissing(opts)' = CriteriaMissing(o)
    BY <2>1 DEF CriteriaMissing
  <2>3. RemovalTold'
    BY <2>1 DEF RemovalTold, RemovalIsTold
  <2> QED
    BY <1>2, <2>1, <2>2, <2>3 DEF RemoveInv, RemovePhases
<1>3. ASSUME NEW p \in AnalysisOptions, StartAnalysis(p), kind' = "analyze", ForgetRemoval
      PROVE  RemoveInv'
  BY <1>3 DEF StartAnalysis, ForgetRemoval, Resolve, RemoveInv, RemovalTold, RemovePhases
<1>4. CASE RemoveStep /\ UNCHANGED kind
  BY <1>4, ScanKeepsRemoval, MatchKeepsRemoval, RemoveEntryKeepsRemoval, EndKeepsRemoval DEF RemoveStep
<1>5. CASE kind = "analyze" /\ kind' = "analyze" /\ AnalysisStep /\ UNCHANGED removeVars
  <2>1. query' = query /\ pc' \notin RemovePhases /\ unlinked = {}
    BY <1>5, AnalysisFacts DEF RemovePhases, AnalyzePhases, RemoveInv
  <2> QED
    BY <1>5, <2>1, CriteriaStay DEF RemoveInv, RemovalTold, removeVars, RemovePhases
<1>6. CASE UNCHANGED <<kind, query, calls, pc, at, answer, removeVars, analysisVars>>
  BY <1>6, CriteriaStay DEF RemoveInv, removeVars, RemovalTold, RemovalIsTold, CriteriaMissing
<1> QED
  BY <1>1, <1>2, <1>3, <1>4, <1>5, <1>6, Steps

LEMMA RemoveInvInit == ASSUME Init PROVE TypeInv /\ RemoveInv
<1>1. at = 1 /\ opts = DefaultOptions /\ outcome = NoOutcome /\ acc = NewAggregator /\ hashes = <<>>
  BY DEF Init, RemoveInit, AnalysisInit
<1>2. DOMAIN <<>> = {} /\ IsFiniteSet({}) /\ DefaultOptions.strategy \in Strategies
  BY FS_EmptySet DEF DefaultOptions, Strategies
<1>3. TypeInv
  BY <1>1, <1>2, ItemFacts, NothingIsOut, SelectionAssumption
  DEF Init, TypeInv, NoTaskLeft, RemovePhases, AnalyzePhases
<1> QED
  BY <1>3 DEF Init, RemoveInit, RemoveInv, RemovePhases, RemovalTold
-----------------------------------------------------------------------------
(* What a call gathers on a disk that nobody changes.                       *)
GatherInv == CalmInv /\ AnswerInv

LEMMA WalkGrows ==
  ASSUME TypeInv, ~Walked, at' = at + 1, NEW S
  PROVE  S \cap Walking' = (S \cap Walking) \cup (IF Here \in S THEN {Here} ELSE {})
  BY WalkFacts

LEMMA EntriesGrow ==
  ASSUME NEW S, NEW i PROVE /\ EntriesOf(S \cup {i}) = EntriesOf(S) \cup {EntryAt(i)}
                            /\ EntriesOf({}) = {}
  BY DEF EntriesOf

LEMMA StartGathers ==
  ASSUME GatherInv, TypeInv, calm', UNCHANGED <<disk, query, counted, previewed>>,
         \/ \E o \in RemoveOptions : StartRemove(o) /\ kind' = "remove" /\ ForgetReport
         \/ \E p \in AnalysisOptions : StartAnalysis(p) /\ kind' = "analyze" /\ ForgetRemoval
  PROVE  GatherInv'
<1> USE DEF Resolve
<1>1. /\ at' = 1 /\ acc' = NewAggregator /\ found' = {} /\ pc' \in {"idle", "scan", "count", "walk"}
      /\ kind' = "analyze" /\ pc' = "idle" => answer' = "InvalidGlobPattern"
  BY DEF StartRemove, ForgetReport, StartAnalysis, ForgetRemoval
<1>2. Walking' = {}
  BY <1>1 DEF Walking
<1>3. /\ DueNow' = DueNow /\ AllCounted' = AllCounted /\ Files' = Files
      /\ \A S : EntriesOf(S)' = EntriesOf(S)
  BY SameDisk
<1>4. (EntriesOf(Files \cap Walking))' = {} /\ (EntriesOf(CountedNow \cap Walking))' = {}
  BY <1>2, <1>3 DEF EntriesOf
<1>5. CalmInv'
  BY <1>1, <1>3, <1>4, NothingIsOut DEF GatherInv, CalmInv, Reported
<1>6. AnswerInv'
  BY <1>1 DEF AnswerInv
<1> QED
  BY <1>5, <1>6 DEF GatherInv

(* A changed disk forgets what earlier calls found.                         *)
LEMMA ChangeForgets ==
  ASSUME GatherInv, TypeInv, Remember, disk' # disk, UNCHANGED <<query, kind, acc>>,
         pc' = pc \/ kind = "remove", pc = "count" \/ pc' # "count",
         kind = "remove" \/ UNCHANGED <<answer, params, cancelled, at>>
  PROVE  GatherInv'
<1>1. ~calm' /\ counted' = {} /\ previewed' = {}
  BY DEF Remember
<1>2. CalmInv'
  BY <1>1 DEF GatherInv, CalmInv
<1>3. AnswerInv'
  BY DEF GatherInv, AnswerInv, Single
<1> QED
  BY <1>2, <1>3 DEF GatherInv

LEMMA ScanGathers ==
  ASSUME TypeInv, CalmInv, NEW broken \in BOOLEAN, ScanItem(broken), pc' = "scan", calm
  PROVE  found' = EntriesOf(Files \cap Walking')
<1>1. pc = "scan" /\ ~Walked /\ at' = at + 1 /\ found = EntriesOf(Files \cap Walking) /\ Here \in Item
  BY WalkFacts DEF ScanItem, CalmInv, TypeInv, RemovePhases
<1>2. CASE Here \in Files
  <2>1. Met(Here) /\ TypeOf(Here) = "file" /\ found' = found \cup {EntryAt(Here)}
    BY <1>1, <1>2 DEF ScanItem, Files, Resolve
  <2>2. Files \cap Walking' = (Files \cap Walking) \cup {Here}
    BY <1>1, <1>2, WalkGrows
  <2> QED
    BY <1>1, <2>1, <2>2, EntriesGrow
<1>3. CASE Here \notin Files
  <2>1. found' = found
    BY <1>1, <1>3 DEF ScanItem, Files, Resolve
  <2>2. Files \cap Walking' = Files \cap Walking
    BY <1>1, <1>3, WalkGrows
  <2> QED
    BY <1>1, <2>1, <2>2
<1> QED
  BY <1>2, <1>3

LEMMA MatchGathers ==
  ASSUME TypeInv, CalmInv, pc = "scan", Walked, calm
  PROVE  ItemsOf(Matched) = DueNow
<1>1. found = EntriesOf(Files)
  <2>1. Files \cap Walking = Files
    BY WalkFacts DEF Files
  <2> QED
    BY <2>1 DEF CalmInv
<1>2. Matched = EntriesOf(DueNow)
  <2>1. \A i : EntryAt(i).item = i
    BY DEF EntryAt
  <2> QED
    BY <1>1, <2>1 DEF Matched, EntriesOf, DueNow
<1> QED
  BY <1>2, Gathered

LEMMA RemoveGathers ==
  ASSUME TypeInv, RemoveInv, GatherInv, kind = "remove", kind' = "remove", RemoveStep, Remember,
         UNCHANGED analysisVars
  PROVE  GatherInv'
<1>0. /\ query' = query /\ pc \in RemovePhases /\ pc' \in {"idle"} \cup RemovePhases /\ acc' = acc
      /\ CalmInv
  BY RemovalFacts DEF analysisVars, GatherInv
<1>1. CASE disk' # disk
  BY <1>0, <1>1, ChangeForgets DEF RemovePhases
<1>2. CASE disk' = disk
  <2>1. calm' = calm /\ counted' = counted
    BY <1>2 DEF Remember, TypeInv
  <2>2. /\ DueNow' = DueNow /\ AllCounted' = AllCounted /\ Files' = Files
        /\ \A S : EntriesOf(S)' = EntriesOf(S)
    BY <1>0, <1>2, SameDisk
  <2>3. CASE \E broken \in BOOLEAN : ScanItem(broken)
    <3>1. previewed' = previewed /\ pc' # "delete"
      BY <1>2, <2>3 DEF Remember, Resolved, ScanItem, Resolve
    <3>2. pc' = "scan" /\ calm' => found' = EntriesOf(Files \cap Walking')
      BY <1>0, <2>1, <2>3, ScanGathers
    <3>3. pc' = "scan" /\ calm' => found' = (EntriesOf(Files \cap Walking))'
      BY <2>2, <3>2 DEF EntriesOf
    <3> QED
      BY <1>0, <2>1, <2>2, <3>1, <3>3 DEF GatherInv, CalmInv, AnswerInv, RemovePhases
  <2>4. CASE MatchEntries
    <3>1. pc = "scan" /\ Walked /\ pc' # "scan"
      BY <2>4 DEF MatchEntries, Resolve
    <3>2. calm => ItemsOf(Matched) = DueNow
      BY <1>0, <3>1, MatchGathers
    <3>3. outcome = NoOutcome /\ NoOutcome.failed = {} /\ "previewed" \in DOMAIN NoOutcome
      BY <3>1 DEF RemoveInv, NoOutcome
    <3>4. \/ previewed' = previewed /\ (pc' = "delete" => todo' = ItemsOf(Matched) /\ outcome' = outcome)
          \/ previewed' = {ItemsOf(Matched)} /\ calm /\ pc' = "idle"
      BY <1>2, <2>4, <3>3 DEF MatchEntries, Remember, Resolved, Resolve, Previews
    <3> QED
      BY <1>0, <2>1, <2>2, <3>1, <3>2, <3>3, <3>4 DEF GatherInv, CalmInv, AnswerInv, RemovePhases
  <2>5. ASSUME NEW i \in todo, NEW r \in {"Written", "Error", "Fatal"}, RemoveEntry(i, r)
        PROVE  GatherInv'
    <3>1. r # "Written"
      <4>1. i \in Item
        BY DEF RemoveInv, Selectable, Reachable
      <4>2. disk[Object[i]] # Gone /\ disk' = [disk EXCEPT ![Object[i]] = Gone] => disk' # disk
        BY <4>1 DEF TypeInv, Objects
      <4> QED
        BY <1>2, <2>5, <4>2 DEF RemoveEntry, CanResult
    <3>2. /\ pc = "delete" /\ pc' = "delete" /\ todo' = todo \ {i}
          /\ outcome'.failed = outcome.failed \cup {i}
      BY <2>5, <3>1 DEF RemoveEntry, callVars, TypeInv, OutType
    <3>3. previewed' = previewed /\ todo' \cup outcome'.failed = todo \cup outcome.failed
      BY <1>2, <3>2 DEF Remember, Resolved
    <3> QED
      BY <1>0, <2>1, <2>2, <3>2, <3>3 DEF GatherInv, CalmInv, AnswerInv
  <2>6. CASE EndRemove
    <3>1. pc = "delete" /\ pc' = "idle" /\ opts' = opts /\ ~opts.dry
      BY <2>6 DEF EndRemove, Resolve, RemoveInv
    <3>2. previewed' = previewed
      BY <1>2, <3>1 DEF Remember
    <3> QED
      BY <1>0, <2>1, <2>2, <3>1, <3>2 DEF GatherInv, CalmInv, AnswerInv
  <2> QED
    BY <2>3, <2>4, <2>5, <2>6 DEF RemoveStep
<1> QED
  BY <1>1, <1>2
-----------------------------------------------------------------------------
(* A directory that cannot be read hides nothing the walk has passed.       *)
LEMMA HiddenLater ==
  ASSUME TypeInv, ~Walked, at' = at + 1, unread' = unread \/ unread' = unread \cup {Here}
  PROVE  Counted(unread') \cap Walking' = CountedNow \cap Walking'
<1>1. \A i \in Walking' : Here \notin Above[i]
  BY WalkFacts
<1>2. \A i \in Walking' : Above[i] \cap unread' = Above[i] \cap unread
  BY <1>1
<1> QED
  BY <1>2 DEF Counted, CountedNow

(* What the walk has tallied after one more item.                           *)
LEMMA WalkGathers ==
  ASSUME TypeInv, CalmInv, NEW broken \in BOOLEAN, WalkItem(broken), pc' = "walk", calm,
         acc'.errorsTotal = 0
  PROVE  acc'.seen = EntriesOf(Counted(unread') \cap Walking')
<1> SUFFICES acc'.seen = EntriesOf(CountedNow \cap Walking')
  BY HiddenLater DEF WalkItem, Unread
<1>0. /\ pc = "walk" /\ ~Walked /\ at' = at + 1 /\ Here \in Item /\ Yields(Here)
      /\ DOMAIN acc = DOMAIN NewAggregator /\ acc.errorsTotal \in Nat
  BY WalkFacts DEF WalkItem, TypeInv
<1>1. PICK failing \in BOOLEAN :
        /\ failing <=> (TypeOf(Here) = "error" \/ (broken /\ TypeOf(Here) = "file"))
        /\ acc' = CASE failing -> WithError(acc, Here)
                    [] ~failing /\ TypeOf(Here) = "dir" -> [acc EXCEPT !.dirs = @ + 1]
                    [] ~failing /\ TypeOf(Here) = "file" /\ Passes(EntryAt(Here)) ->
                         Recorded(acc, EntryAt(Here))
                    [] OTHER -> acc
  BY <1>0 DEF WalkItem, Resolve
<1>2. ~failing
  BY <1>0, <1>1, AggregatorFacts
<1>3. Met(Here)
  BY <1>0 DEF Yields
<1>4. CASE TypeOf(Here) = "file" /\ Passes(EntryAt(Here))
  <2>1. acc' = Recorded(acc, EntryAt(Here))
    BY <1>1, <1>2, <1>4
  <2>2. acc'.seen = acc.seen \cup {EntryAt(Here)} /\ acc.errorsTotal = 0
    BY <1>0, <2>1, AggregatorFacts
  <2>3. CountedNow \cap Walking' = (CountedNow \cap Walking) \cup {Here}
    BY <1>0, <1>3, <1>4, WalkGrows DEF CountedNow, Counted, AllCounted, Yields, Files
  <2>4. acc.seen = EntriesOf(CountedNow \cap Walking)
    BY <1>0, <2>2 DEF CalmInv
  <2> QED
    BY <2>2, <2>3, <2>4, EntriesGrow
<1>5. CASE ~(TypeOf(Here) = "file" /\ Passes(EntryAt(Here)))
  <2>1. acc' = acc \/ acc' = [acc EXCEPT !.dirs = @ + 1]
    BY <1>1, <1>2, <1>5
  <2>2. acc'.seen = acc.seen /\ acc.errorsTotal = 0
    BY <1>0, <2>1 DEF NewAggregator
  <2>3. CountedNow \cap Walking' = CountedNow \cap Walking
    BY <1>0, <1>5, WalkGrows DEF CountedNow, Counted, AllCounted, Files
  <2> QED
    BY <1>0, <2>2, <2>3 DEF CalmInv
<1> QED
  BY <1>4, <1>5

(* Once the walk is over, what it tallied changes only by errors.           *)
LEMMA AnalysisStepGathers ==
  ASSUME TypeInv, CalmInv, AnalysisStep, kind = "analyze"
  PROVE  /\ pc' = "count" => acc' = NewAggregator
         /\ calm /\ acc'.errorsTotal = 0 =>
              /\ pc' = "walk" => acc'.seen = EntriesOf(Counted(unread') \cap Walking')
              /\ pc' \in {"spawn", "join"} \/ (pc' = "idle" /\ answer' = "ok") =>
                   acc'.seen = EntriesOf(Counted(unread'))
         /\ pc' = "idle" => /\ answer' = "Cancelled" => cancelled
                            /\ answer' = "io" => params.abort \/ Single \/ at' = 1
<1> USE DEF Resolve, world, callVars, analysisVars
<1>0. DOMAIN acc = DOMAIN NewAggregator /\ acc.errorsTotal \in Nat
  BY DEF TypeInv
<1>a. unread' = unread => Counted(unread') = CountedNow
  BY DEF CountedNow
<1>1. CASE GiveUp \/ RootFails
  BY <1>1 DEF GiveUp, GivesUp, RootFails
<1>2. CASE PassOver
  <2>1. CountedNow \cap Walking' = CountedNow \cap Walking
    BY <1>2, WalkGrows DEF PassOver, CountedNow, Counted, AllCounted, Yields, Files
  <2> QED
    BY <1>a, <1>2, <2>1 DEF PassOver, CalmInv
<1>3. CASE StartWalk
  <2>1. acc' = NewAggregator /\ pc' = "walk" /\ at' = 1
    BY <1>3 DEF StartWalk, CalmInv
  <2>2. Counted(unread') \cap Walking' = {}
    BY <2>1 DEF Walking
  <2> QED
    BY <2>1, <2>2, NothingIsOut, EntriesGrow
<1>4. CASE EndWalk
  <2>1. CountedNow \cap Walking = CountedNow
    BY <1>4, WalkFacts DEF EndWalk, CountedNow, Counted, AllCounted, Files
  <2> QED
    BY <1>a, <1>4, <2>1 DEF EndWalk, CalmInv
<1>5. CASE \E broken \in BOOLEAN : CountItem(broken)
  BY <1>5 DEF CountItem, CalmInv
<1>6. ASSUME NEW broken \in BOOLEAN, WalkItem(broken)
      PROVE  /\ pc' = "walk" /\ calm /\ acc'.errorsTotal = 0 =>
                  acc'.seen = EntriesOf(Counted(unread') \cap Walking')
             /\ pc' \in {"walk", "idle"}
             /\ pc' = "idle" => answer' = "io" /\ (params.abort \/ Single)
  <2>1. pc' = "walk" \/ (pc' = "idle" /\ answer' = "io" /\ (params.abort \/ Single))
    BY <1>6 DEF WalkItem
  <2> QED
    BY <1>6, <2>1, WalkGathers
<1>7. CASE Hashing
  <2>1. PICK e \in DOMAIN hashes :
          SpawnHash(e) \/ TakePermit(e) \/ JoinHash(e) \/ \E broken \in BOOLEAN : ReadFile(e, broken)
    BY <1>7 DEF Hashing
  <2>2. pc \in {"spawn", "join"}
    BY <2>1 DEF SpawnHash, TakePermit, JoinHash, ReadFile, InState, TypeInv, NoTaskLeft
  <2>3. /\ pc' = pc \/ (pc' = "idle" /\ answer' = "Cancelled" /\ cancelled)
                   \/ (pc' = "idle" /\ answer' = "io" /\ params.abort)
        /\ acc' = acc \/ acc' = WithError(acc, e.item)
        /\ unread' = unread
    BY <2>1 DEF SpawnHash, TakePermit, JoinHash, ReadFile
  <2>4. acc'.errorsTotal = 0 => acc' = acc
    BY <1>0, <2>3, AggregatorFacts
  <2> QED
    BY <1>a, <2>2, <2>3, <2>4 DEF CalmInv
<1>8. CASE AllSpawned
  BY <1>a, <1>8 DEF AllSpawned, CalmInv
<1>9. CASE ReportDuplicates
  BY <1>a, <1>9 DEF ReportDuplicates, CalmInv
<1> QED
  BY <1>1, <1>2, <1>3, <1>4, <1>5, <1>6, <1>7, <1>8, <1>9 DEF AnalysisStep

LEMMA AnalysisGathers ==
  ASSUME TypeInv, GatherInv, kind = "analyze", kind' = "analyze", AnalysisStep, Remember,
         UNCHANGED removeVars
  PROVE  GatherInv'
<1>0. /\ UNCHANGED <<disk, query, cancelled, params>> /\ pc' \in {"idle"} \cup AnalyzePhases
      /\ pc \in AnalyzePhases /\ CalmInv
  BY AnalysisFacts DEF GatherInv
<1>1. /\ calm' = calm /\ previewed' = previewed
      /\ counted' = counted
         \/ /\ counted' = {ItemsOf(acc'.seen)} /\ calm /\ acc'.errorsTotal = 0 /\ unread' = {}
            /\ pc' = "idle" /\ answer' = "ok"
  BY <1>0 DEF Remember, Resolved, TypeInv
<1>2. /\ DueNow' = DueNow /\ AllCounted' = AllCounted /\ Files' = Files /\ Single' = Single
      /\ CountedNow' = Counted(unread') /\ \A S : EntriesOf(S)' = EntriesOf(S)
  BY <1>0, SameDisk
<1>3. (EntriesOf(CountedNow))' = EntriesOf(Counted(unread'))
  BY <1>2 DEF EntriesOf
<1>4. (EntriesOf(CountedNow \cap Walking))' = EntriesOf(Counted(unread') \cap Walking')
  BY <1>2 DEF EntriesOf
<1>5. \A c \in counted' : c = AllCounted
  <2>1. Counted({}) = AllCounted
    BY DEF Counted
  <2>2. \/ counted' = counted
        \/ counted' = {ItemsOf(acc'.seen)} /\ acc'.seen = EntriesOf(Counted({}))
    BY <1>0, <1>1, AnalysisStepGathers
  <2> QED
    BY <1>0, <2>1, <2>2, Gathered DEF CalmInv
<1>6. CalmInv'
  BY <1>0, <1>1, <1>2, <1>3, <1>4, <1>5, AnalysisStepGathers DEF CalmInv, Reported, AnalyzePhases
<1>7. AnswerInv'
  BY <1>0, <1>2, AnalysisStepGathers DEF AnswerInv
<1> QED
  BY <1>6, <1>7 DEF GatherInv

LEMMA GatherStep ==
  ASSUME TypeInv, RemoveInv, GatherInv, [Next]_allVars
  PROVE  GatherInv'
<1>1. CASE UNCHANGED allVars
  <2>1. UNCHANGED <<disk, query, at, calm, previewed, counted, pc, found, todo, outcome, acc, unread, kind,
                    answer, params, cancelled>>
    BY <1>1 DEF allVars, world, callVars, removeVars, analysisVars, history
  <2>2. /\ DueNow' = DueNow /\ AllCounted' = AllCounted /\ CountedNow' = CountedNow /\ Files' = Files
        /\ Single' = Single /\ Walking' = Walking
    BY <2>1, SameDisk DEF Walking, CountedNow
  <2>3. /\ (EntriesOf(CountedNow))' = EntriesOf(CountedNow)
        /\ (EntriesOf(CountedNow \cap Walking))' = EntriesOf(CountedNow \cap Walking)
        /\ (EntriesOf(Files \cap Walking))' = EntriesOf(Files \cap Walking)
    BY <2>1, <2>2 DEF EntriesOf, EntryAt
  <2> QED
    BY <2>1, <2>2, <2>3 DEF GatherInv, CalmInv, AnswerInv, Reported
<1>2. CASE /\ UNCHANGED <<kind, query, calls, pc, at, answer, removeVars, analysisVars>> /\ Remember
           /\ pc # "idle" /\ cancelled' /\ UNCHANGED <<disk, edits>>
  <2>1. UNCHANGED <<disk, query, at, previewed, counted, pc, found, todo, outcome, acc, unread, kind, answer,
                    params>>
    BY <1>2 DEF removeVars, analysisVars, Remember, Resolved
  <2>2. calm' = calm
    BY <1>2 DEF Remember, TypeInv
  <2>3. /\ DueNow' = DueNow /\ AllCounted' = AllCounted /\ CountedNow' = CountedNow /\ Files' = Files
        /\ Single' = Single /\ Walking' = Walking
    BY <2>1, SameDisk DEF Walking, CountedNow
  <2>4. /\ (EntriesOf(CountedNow))' = EntriesOf(CountedNow)
        /\ (EntriesOf(CountedNow \cap Walking))' = EntriesOf(CountedNow \cap Walking)
        /\ (EntriesOf(Files \cap Walking))' = EntriesOf(Files \cap Walking)
    BY <2>1, <2>3 DEF EntriesOf, EntryAt
  <2> QED
    BY <1>2, <2>1, <2>2, <2>3, <2>4 DEF GatherInv, CalmInv, AnswerInv, Reported
<1>3. CASE /\ UNCHANGED <<kind, query, calls, pc, at, answer, removeVars, analysisVars>> /\ Remember
           /\ disk' # disk /\ UNCHANGED cancelled
  BY <1>3, ChangeForgets DEF analysisVars
<1> QED
  BY <1>1, <1>2, <1>3, Steps, StartGathers, RemoveGathers, AnalysisGathers
-----------------------------------------------------------------------------
(* The hash tasks, and the groups of a report.                              *)
Bytes(e) == disk[Target[e.item]]
EqualTo(e) == {f \in acc.seen : Bytes(f) = Bytes(e)}
EqualSets == {g \in {EqualTo(e) : e \in acc.seen} : Cardinality(g) > 1}

TasksInv ==
  pc \in {"spawn", "join"} =>
    /\ DOMAIN hashes = ToHash /\ DOMAIN read = ToHash
    /\ \A e \in ToHash : hashes[e] = "joined" /\ read[e] = Failed => acc.errorsTotal # 0
    /\ calm => \A e \in ToHash : read[e] # Failed => read[e] = Bytes(e)

GroupsInv ==
  kind = "analyze" /\ Reported /\ params.duplicates =>
    /\ \A g \in report.groups : \A e, f \in g :
         e.size = f.size /\ (e.size # 0 => read[e] = read[f] /\ read[e] # Failed)
    /\ Cardinality(report.groups) = AtMost(report.total, params.maxGroups)
    /\ calm /\ acc.errorsTotal = 0 =>
         report.total = Cardinality(EqualSets) /\ report.wasted = Waste(EqualSets)

(* On a calm disk the groups are the sets of equal files: a file of unique  *)
(* size has no equal, and all empty files are equal.                        *)
LEMMA GroupsAreEqualSets ==
  ASSUME TypeInv, CalmInv, TasksInv, pc = "join", \A e \in DOMAIN hashes : hashes[e] = "joined",
         calm, acc.errorsTotal = 0
  PROVE  Groups = EqualSets
<1>1. acc.seen = EntriesOf(CountedNow) /\ IsFiniteSet(acc.seen)
  BY DEF CalmInv, TypeInv
<1>2. ASSUME NEW e \in acc.seen PROVE Bytes(e) \in Content /\ e.size = SizeOf[Bytes(e)]
  <2>1. PICK i \in CountedNow : e = EntryAt(i)
    BY <1>1 DEF EntriesOf
  <2>2. e.item = i /\ e.size = SizeOf[disk[Target[i]]]
    BY <2>1 DEF EntryAt
  <2>3. disk[Target[i]] \in Content
    BY FileFacts DEF CountedNow, Counted, AllCounted
  <2> QED
    BY <2>2, <2>3 DEF Bytes
<1>3. Hashed = ToHash /\ \A e \in ToHash : read[e] = Bytes(e)
  BY DEF TasksInv, Hashed
<1>4. ToHash \subseteq acc.seen
  BY DEF ToHash
<1>5. ASSUME NEW e \in ToHash PROVE SameKey(e) = EqualTo(e)
  <2>1. e \in acc.seen /\ e.size # 0 /\ Cardinality(Alike(e)) > 1
    BY DEF ToHash
  <2>2. ASSUME NEW f \in EqualTo(e) PROVE f \in SameKey(e)
    <3>1. f \in acc.seen /\ f.size = e.size /\ Bytes(f) = Bytes(e)
      BY <1>2, <2>1 DEF EqualTo
    <3>2. Alike(f) = Alike(e)
      BY <3>1 DEF Alike
    <3>3. f \in ToHash
      BY <2>1, <3>1, <3>2 DEF ToHash
    <3> QED
      BY <1>3, <3>1, <3>3 DEF SameKey
  <2>3. ASSUME NEW f \in SameKey(e) PROVE f \in EqualTo(e)
    BY <1>3, <1>4 DEF SameKey, EqualTo
  <2> QED
    BY <2>2, <2>3 DEF SameKey, EqualTo
<1>6. ASSUME NEW e \in acc.seen, e.size = 0 PROVE EqualTo(e) = EmptyGroup
  BY <1>2, <1>6, SelectionAssumption DEF EqualTo, EmptyGroup
<1>7. ASSUME NEW e \in acc.seen, e.size # 0, Cardinality(EqualTo(e)) > 1 PROVE e \in ToHash
  <2>1. EqualTo(e) \subseteq Alike(e) /\ Alike(e) \subseteq acc.seen
    BY <1>2 DEF EqualTo, Alike
  <2>2. IsFiniteSet(Alike(e))
    BY <1>1, <2>1, FS_Subset
  <2>3. Cardinality(EqualTo(e)) <= Cardinality(Alike(e))
    BY <2>1, <2>2, FS_Subset
  <2>4. Cardinality(EqualTo(e)) \in Nat /\ Cardinality(Alike(e)) \in Nat
    BY <2>1, <2>2, FS_Subset, FS_CardinalityType
  <2>5. Cardinality(Alike(e)) > 1
    BY <1>7, <2>3, <2>4
  <2> QED
    BY <1>7, <2>5 DEF ToHash
<1>8. ASSUME NEW g \in Groups PROVE g \in EqualSets
  <2>1. Cardinality(g) > 1 /\ (g = EmptyGroup \/ \E e \in Hashed : g = SameKey(e))
    BY DEF Groups
  <2>2. CASE g = EmptyGroup
    <3>1. g # {}
      BY <2>1, FS_EmptySet
    <3>2. PICK e \in g : e \in acc.seen /\ e.size = 0
      BY <2>2, <3>1 DEF EmptyGroup
    <3> QED
      BY <1>6, <2>1, <2>2, <3>2 DEF EqualSets
  <2>3. CASE \E e \in Hashed : g = SameKey(e)
    BY <1>3, <1>4, <1>5, <2>1, <2>3 DEF EqualSets
  <2> QED
    BY <2>1, <2>2, <2>3
<1>9. ASSUME NEW g \in EqualSets PROVE g \in Groups
  <2>1. PICK e \in acc.seen : g = EqualTo(e) /\ Cardinality(g) > 1
    BY DEF EqualSets
  <2>2. CASE e.size = 0
    BY <1>6, <2>1, <2>2 DEF Groups
  <2>3. CASE e.size # 0
    BY <1>3, <1>5, <1>7, <2>1, <2>3 DEF Groups
  <2> QED
    BY <2>2, <2>3
<1> QED
  BY <1>8, <1>9

(* Each step of an analysis, for the tasks and for the report they end in.  *)
LEMMA TasksStep ==
  ASSUME TypeInv, CalmInv, TasksInv, kind = "analyze", AnalysisStep, calm' = calm
  PROVE  TasksInv'
<1> USE DEF Resolve, world, callVars, analysisVars
<1>0. /\ disk' = disk /\ DOMAIN acc = DOMAIN NewAggregator /\ acc.errorsTotal \in Nat
  BY AnalysisFacts DEF TypeInv
<1>1. CASE pc' \notin {"spawn", "join"}
  BY <1>1 DEF TasksInv
<1>2. ASSUME acc'.seen = acc.seen
      PROVE  ToHash' = ToHash /\ \A e : Bytes(e)' = Bytes(e)
  BY <1>0, <1>2 DEF ToHash, Alike, Bytes
<1>3. CASE EndWalk /\ pc' = "spawn"
  <2>1. acc' = acc /\ hashes' = [e \in ToHash |-> "unspawned"] /\ read' = [e \in ToHash |-> Failed]
    BY <1>3 DEF EndWalk
  <2>2. ToHash' = ToHash
    BY <1>2, <2>1
  <2> QED
    BY <2>1, <2>2 DEF TasksInv
<1>4. CASE AllSpawned
  <2>1. UNCHANGED <<acc, hashes, read>> /\ pc = "spawn"
    BY <1>4 DEF AllSpawned
  <2>2. ToHash' = ToHash /\ \A e : Bytes(e)' = Bytes(e)
    BY <1>2, <2>1
  <2> QED
    BY <2>1, <2>2 DEF TasksInv
<1>5. ASSUME NEW e \in DOMAIN hashes, pc' # "idle",
             SpawnHash(e) \/ TakePermit(e) \/ JoinHash(e) \/ \E broken \in BOOLEAN : ReadFile(e, broken)
      PROVE  TasksInv'
  <2>1. pc \in {"spawn", "join"}
    BY <1>5 DEF SpawnHash, TakePermit, JoinHash, ReadFile, InState, TypeInv, NoTaskLeft
  <2>2. DOMAIN hashes = ToHash /\ DOMAIN read = ToHash /\ e \in ToHash
    BY <1>5, <2>1 DEF TasksInv
  <2>3. acc' = acc \/ acc' = WithError(acc, e.item)
    BY <1>5 DEF SpawnHash, TakePermit, JoinHash, ReadFile
  <2>4. acc'.seen = acc.seen /\ (acc.errorsTotal # 0 => acc'.errorsTotal # 0)
    BY <1>0, <2>3, AggregatorFacts
  <2>5. ToHash' = ToHash /\ \A f : Bytes(f)' = Bytes(f)
    BY <1>2, <2>4
  <2>6. CASE SpawnHash(e) \/ TakePermit(e)
    <3>1. read' = read /\ \E state \in {"waiting", "reading"} : hashes' = [hashes EXCEPT ![e] = state]
      BY <1>5, <2>6 DEF SpawnHash, TakePermit, SetHash
    <3> QED
      BY <2>1, <2>2, <2>4, <2>5, <3>1 DEF TasksInv
  <2>7. CASE JoinHash(e)
    <3>1. /\ read' = read /\ hashes' = [hashes EXCEPT ![e] = "joined"]
          /\ read[e] = Failed => acc' = WithError(acc, e.item)
      BY <1>5, <2>7 DEF JoinHash, SetHash
    <3>2. read[e] = Failed => acc'.errorsTotal # 0
      BY <1>0, <3>1, AggregatorFacts
    <3> QED
      BY <2>1, <2>2, <2>4, <2>5, <3>1, <3>2 DEF TasksInv
  <2>8. ASSUME NEW broken \in BOOLEAN, ReadFile(e, broken) PROVE TasksInv'
    <3>1. /\ hashes' = [hashes EXCEPT ![e] = "ready"]
          /\ read' = [read EXCEPT ![e] = IF broken THEN Failed ELSE Bytes(e)]
      BY <2>8 DEF ReadFile, SetHash, Bytes
    <3> QED
      BY <2>1, <2>2, <2>4, <2>5, <3>1 DEF TasksInv
  <2> QED
    BY <1>5, <2>6, <2>7, <2>8
<1>6. CASE RootFails \/ GiveUp \/ PassOver \/ StartWalk \/ ReportDuplicates
  BY <1>1, <1>6 DEF RootFails, GiveUp, PassOver, StartWalk, ReportDuplicates
<1>7. CASE \E broken \in BOOLEAN : CountItem(broken) \/ WalkItem(broken)
  BY <1>1, <1>7 DEF CountItem, WalkItem
<1>8. CASE EndWalk /\ pc' # "spawn"
  BY <1>1, <1>8 DEF EndWalk
<1> QED
  BY <1>1, <1>3, <1>4, <1>5, <1>6, <1>7, <1>8 DEF AnalysisStep, Hashing

LEMMA ReportStep ==
  ASSUME TypeInv, CalmInv, TasksInv, kind = "analyze", AnalysisStep, calm' = calm
  PROVE  GroupsInv'
<1> USE DEF Resolve, world, callVars, analysisVars
<1>1. CASE ReportDuplicates
  <2>1. PICK kept \in SUBSET Groups :
          /\ Cardinality(kept) = AtMost(Cardinality(Groups), params.maxGroups)
          /\ report' = [groups |-> kept, total |-> Cardinality(Groups), wasted |-> Waste(Groups)]
    BY <1>1 DEF ReportDuplicates, Tallied, AtMost
  <2>2. /\ UNCHANGED <<disk, acc, read, params>> /\ pc = "join"
        /\ \A e \in DOMAIN hashes : hashes[e] = "joined"
    BY <1>1 DEF ReportDuplicates
  <2>3. report'.groups = kept /\ report'.total = Cardinality(Groups) /\ report'.wasted = Waste(Groups)
    BY <2>1
  <2>4. ASSUME NEW g \in Groups, NEW e \in g, NEW f \in g
        PROVE  e.size = f.size /\ (e.size # 0 => read[e] = read[f] /\ read[e] # Failed)
    <3>1. g = EmptyGroup \/ \E d \in Hashed : g = SameKey(d)
      BY DEF Groups
    <3> QED
      BY <2>4, <3>1 DEF EmptyGroup, SameKey, Hashed
  <2>5. Cardinality(report'.groups) = AtMost(report'.total, params'.maxGroups)
    BY <2>1, <2>2, <2>3
  <2>6. EqualSets' = EqualSets
    BY <2>2 DEF EqualSets, EqualTo, Bytes
  <2>7. ASSUME calm, acc.errorsTotal = 0
        PROVE  report'.total = Cardinality(EqualSets)' /\ report'.wasted = Waste(EqualSets)'
    <3>1. Groups = EqualSets
      BY <2>2, <2>7, GroupsAreEqualSets
    <3> QED
      BY <2>3, <2>6, <3>1
  <2> QED
    BY <2>2, <2>3, <2>4, <2>5, <2>7 DEF GroupsInv, AtMost
<1>2. CASE EndWalk
  BY <1>2 DEF EndWalk, GroupsInv, Reported
<1>3. CASE \/ RootFails \/ GiveUp \/ PassOver \/ StartWalk \/ AllSpawned
           \/ \E broken \in BOOLEAN : CountItem(broken)
  BY <1>3 DEF RootFails, GiveUp, PassOver, StartWalk, AllSpawned, CountItem, GroupsInv, Reported
<1>4. CASE \E broken \in BOOLEAN : WalkItem(broken)
  <2>1. pc' = "walk" \/ answer' = "io"
    BY <1>4 DEF WalkItem
  <2> QED
    BY <2>1 DEF GroupsInv, Reported
<1>5. CASE Hashing
  <2>1. PICK e \in DOMAIN hashes :
          SpawnHash(e) \/ TakePermit(e) \/ JoinHash(e) \/ \E broken \in BOOLEAN : ReadFile(e, broken)
    BY <1>5 DEF Hashing
  <2>2. pc \in {"spawn", "join"}
    BY <2>1 DEF SpawnHash, TakePermit, JoinHash, ReadFile, InState, TypeInv, NoTaskLeft
  <2>3. pc' = pc \/ answer' \in {"Cancelled", "io"}
    BY <2>1 DEF SpawnHash, TakePermit, JoinHash, ReadFile
  <2> QED
    BY <2>2, <2>3 DEF GroupsInv, Reported
<1> QED
  BY <1>1, <1>2, <1>3, <1>4, <1>5 DEF AnalysisStep

LEMMA DuplicatesStep ==
  ASSUME TypeInv, RemoveInv, CalmInv, TasksInv, GroupsInv, [Next]_allVars
  PROVE  TasksInv' /\ GroupsInv'
<1> USE DEF Resolve
<1>1. CASE UNCHANGED allVars
  <2>1. UNCHANGED <<disk, kind, calm, pc, answer, params, acc, hashes, read, report>>
    BY <1>1 DEF allVars, world, callVars, removeVars, analysisVars, history
  <2>2. ToHash' = ToHash /\ EqualSets' = EqualSets /\ \A e : Bytes(e)' = Bytes(e)
    BY <2>1 DEF ToHash, Alike, EqualSets, EqualTo, Bytes
  <2> QED
    BY <2>1, <2>2 DEF TasksInv, GroupsInv, Reported, AtMost
<1>2. CASE \/ \E o \in RemoveOptions : StartRemove(o) /\ kind' = "remove" /\ ForgetReport
           \/ \E p \in AnalysisOptions : StartAnalysis(p) /\ kind' = "analyze" /\ ForgetRemoval
  <2>1. /\ pc' \in {"idle", "scan", "count", "walk"}
        /\ kind' = "analyze" /\ pc' = "idle" => answer' = "InvalidGlobPattern"
    BY <1>2 DEF StartRemove, StartAnalysis
  <2> QED
    BY <2>1 DEF TasksInv, GroupsInv, Reported
<1>3. CASE kind = "remove" /\ kind' = "remove" /\ RemoveStep
  BY <1>3, RemovalFacts DEF TasksInv, GroupsInv, RemovePhases
<1>4. CASE kind = "analyze" /\ kind' = "analyze" /\ AnalysisStep /\ Remember
  <2>1. calm' = calm
    BY <1>4, AnalysisFacts DEF Remember, TypeInv
  <2> QED
    BY <1>4, <2>1, TasksStep, ReportStep
<1>5. CASE UNCHANGED <<kind, query, calls, pc, at, answer, removeVars, analysisVars>> /\ Remember
  <2>1. UNCHANGED <<kind, pc, answer, params, acc, hashes, read, report>>
    BY <1>5 DEF analysisVars
  <2>2. ToHash' = ToHash
    BY <2>1 DEF ToHash, Alike
  <2>3. CASE disk' = disk
    <3>1. calm' = calm /\ EqualSets' = EqualSets /\ \A e : Bytes(e)' = Bytes(e)
      BY <1>5, <2>1, <2>3 DEF Remember, TypeInv, EqualSets, EqualTo, Bytes
    <3> QED
      BY <2>1, <2>2, <3>1 DEF TasksInv, GroupsInv, Reported, AtMost
  <2>4. CASE disk' # disk
    <3>1. ~calm'
      BY <1>5, <2>4 DEF Remember
    <3> QED
      BY <2>1, <2>2, <3>1 DEF TasksInv, GroupsInv, Reported, AtMost
  <2> QED
    BY <2>3, <2>4
<1> QED
  BY <1>1, <1>2, <1>3, <1>4, <1>5, Steps
-----------------------------------------------------------------------------
(* The figures of a report while it is made: what was seen is behind the    *)
(* walk, so nothing is counted twice, and the heap holds the largest.       *)
IsTable(t) ==
  /\ t = [k \in DOMAIN t |-> t[k]] /\ IsFiniteSet(DOMAIN t)
  /\ \A k \in DOMAIN t : t[k] \in [count : Nat, size : Nat]

HoldsLargest(top, seen, n) ==
  /\ top \subseteq seen /\ Cardinality(top) = AtMost(Cardinality(seen), n)
  /\ \A x \in top, f \in seen \ top : x.size >= f.size

Figures(a, p) ==
  /\ DOMAIN a = DOMAIN NewAggregator /\ IsFiniteSet(a.seen) /\ \A e \in a.seen : e.size \in Nat
  /\ a.files = Cardinality(a.seen) /\ a.bytes = SumFunction([e \in a.seen |-> e.size])
  /\ HoldsLargest(a.top, a.seen, p.topN)
  /\ IsTable(a.byExtension) /\ IsTable(a.ages)
  /\ Total(a.byExtension, "count") = a.files /\ Total(a.byExtension, "size") = a.bytes
  /\ Total(a.ages, "count") = a.files
  /\ a.errors \in Seq(Item) /\ a.errorsTotal \in Nat
  /\ Len(a.errors) = AtMost(a.errorsTotal, p.maxErrors)

FiguresInv ==
  /\ params.topN \in Nat /\ params.maxErrors \in Nat /\ Figures(acc, params)
  /\ \A e \in acc.seen : e.item \in Item /\ (pc = "walk" => e.item \in Walking)

LEMMA TallyGrows ==
  ASSUME NEW t, IsTable(t), NEW key, NEW size \in Nat
  PROVE  /\ IsTable(Tally(t, key, size))
         /\ Total(t, "count") \in Nat /\ Total(t, "size") \in Nat
         /\ Total(Tally(t, key, size), "count") = Total(t, "count") + 1
         /\ Total(Tally(t, key, size), "size") = Total(t, "size") + size
<1> DEFINE u == Tally(t, key, size)
           D == DOMAIN t
<1>1. DOMAIN u = D \cup {key} /\ IsFiniteSet(D) /\ IsFiniteSet(D \cup {key})
  BY FS_AddElement DEF Tally, IsTable
<1>2. \A k \in D \ {key} : u[k] = t[k]
  BY DEF Tally
<1>3. \A k \in D : t[k].count \in Nat /\ t[k].size \in Nat
  BY DEF IsTable
<1>4. /\ u[key] = [count |-> (IF key \in D THEN t[key].count ELSE 0) + 1,
                   size |-> (IF key \in D THEN t[key].size ELSE 0) + size]
  BY DEF Tally
<1>5. IsTable(u)
  <2>1. \A k \in D \cup {key} : u[k] \in [count : Nat, size : Nat]
    BY <1>2, <1>3, <1>4 DEF IsTable
  <2>2. u = [k \in DOMAIN u |-> u[k]]
    BY DEF Tally
  <2> QED
    BY <1>1, <2>1, <2>2 DEF IsTable
<1> HIDE DEF u
<1>6. ASSUME NEW field, \A k \in D : t[k][field] \in Nat, NEW n \in Nat,
             u[key][field] = (IF key \in D THEN t[key][field] ELSE 0) + n
      PROVE  Total(t, field) \in Nat /\ Total(u, field) = Total(t, field) + n
  <2> DEFINE w == [k \in D |-> t[k][field]]
             v == [k \in DOMAIN u |-> u[k][field]]
  <2>1. DOMAIN w = D /\ DOMAIN v = D \cup {key} /\ \A y \in D : w[y] \in Nat
    BY <1>1, <1>6
  <2>2. \A y \in D \ {key} : v[y] = w[y]
    BY <1>1, <1>2
  <2>3. v[key] = (IF key \in D THEN w[key] ELSE 0) + n
    BY <1>1, <1>6
  <2>4. Total(t, field) = SumFunctionOnSet(w, D) /\ Total(u, field) = SumFunctionOnSet(v, D \cup {key})
    BY <2>1 DEF Total, SumFunction
  <2> HIDE DEF w, v
  <2> QED
    BY <1>1, <2>1, <2>2, <2>3, <2>4, SumGrows
<1>7. /\ u[key].count = (IF key \in D THEN t[key].count ELSE 0) + 1
      /\ u[key].size = (IF key \in D THEN t[key].size ELSE 0) + size
  BY <1>4
<1> QED
  BY <1>3, <1>5, <1>6, <1>7 DEF u

LEMMA SmallestIsLeast ==
  ASSUME NEW top, top # {}, \A e \in top : e.size \in Nat
  PROVE  Smallest(top) \in top /\ \A f \in top : Smallest(top).size <= f.size
<1>1. {e.size : e \in top} \in SUBSET Nat /\ {e.size : e \in top} # {}
  OBVIOUS
<1>2. PICK n \in {e.size : e \in top} : \A m \in {e.size : e \in top} : n <= m
  BY <1>1, LeastNat
<1>3. \E e \in top : \A f \in top : e.size <= f.size
  BY <1>2
<1> QED
  BY <1>3 DEF Smallest

(* keep_in_heap: a full heap gives up its smallest for a larger entry.      *)
LEMMA HeapHoldsLargest ==
  ASSUME NEW seen, IsFiniteSet(seen), \A x \in seen : x.size \in Nat, params.topN \in Nat,
         NEW top, HoldsLargest(top, seen, params.topN), NEW e, e \notin seen, e.size \in Nat
  PROVE  HoldsLargest(IF Kept(top, e) THEN Evicted(top) \cup {e} ELSE top, seen \cup {e}, params.topN)
<1> SUFFICES ASSUME NEW new, new = IF Kept(top, e) THEN Evicted(top) \cup {e} ELSE top
             PROVE  /\ new \subseteq seen \cup {e}
                    /\ Cardinality(new) = AtMost(Cardinality(seen) + 1, params.topN)
                    /\ \A x \in new, f \in (seen \cup {e}) \ new : x.size >= f.size
  BY FS_AddElement DEF HoldsLargest
<1>0. /\ top \subseteq seen /\ Cardinality(top) = AtMost(Cardinality(seen), params.topN)
      /\ \A x \in top, f \in seen \ top : x.size >= f.size
  BY DEF HoldsLargest
<1>1. /\ IsFiniteSet(top) /\ Cardinality(top) \in Nat /\ Cardinality(seen) \in Nat /\ e \notin top
      /\ Cardinality(seen) = Cardinality(top) => seen = top
  BY <1>0, FS_Subset, FS_CardinalityType
<1>2. CASE params.topN = 0
  <2>1. new = top /\ Cardinality(top) = 0
    BY <1>0, <1>1, <1>2 DEF Kept, AtMost
  <2>2. top = {}
    BY <1>0, <1>1, <2>1, FS_EmptySet
  <2> QED
    BY <1>0, <1>1, <1>2, <2>1, <2>2 DEF AtMost
<1>3. CASE params.topN # 0 /\ Cardinality(top) < params.topN
  <2>1. new = top \cup {e}
    BY <1>0, <1>1, <1>3 DEF Kept, Evicted
  <2>2. seen = top
    BY <1>0, <1>1, <1>3 DEF AtMost
  <2>3. Cardinality(new) = Cardinality(seen) + 1
    BY <1>0, <1>1, <2>1, <2>2, FS_AddElement
  <2> QED
    BY <1>0, <1>1, <1>3, <2>1, <2>2, <2>3 DEF AtMost
<1>4. CASE params.topN # 0 /\ ~(Cardinality(top) < params.topN)
  <2>1. Cardinality(top) = params.topN /\ Cardinality(seen) >= params.topN
    BY <1>0, <1>1, <1>4 DEF AtMost
  <2>2. AtMost(Cardinality(seen) + 1, params.topN) = params.topN
    BY <1>0, <1>1, <2>1 DEF AtMost
  <2>3. top # {}
    BY <1>4, <2>1, FS_EmptySet
  <2> DEFINE m == Smallest(top)
  <2>4. m \in top /\ \A f \in top : m.size <= f.size
    BY <1>0, <2>3, SmallestIsLeast
  <2> HIDE DEF m
  <2>5. CASE e.size > m.size
    <3>1. new = (top \ {m}) \cup {e}
      BY <1>0, <1>1, <1>4, <2>1, <2>5 DEF Kept, Evicted, m
    <3>2. Cardinality(new) = Cardinality(top)
      <4>1. IsFiniteSet(top \ {m}) /\ Cardinality(top \ {m}) = Cardinality(top) - 1 /\ e \notin top \ {m}
        BY <1>0, <1>1, <2>4, FS_RemoveElement
      <4>2. Cardinality((top \ {m}) \cup {e}) = Cardinality(top \ {m}) + 1
        BY <4>1, FS_AddElement
      <4>3. Cardinality(top) \in Nat /\ Cardinality(new) = Cardinality((top \ {m}) \cup {e})
        BY <1>1, <3>1
      <4> QED
        BY <4>1, <4>2, <4>3
    <3>3. ASSUME NEW x \in new, NEW f \in (seen \cup {e}) \ new PROVE x.size >= f.size
      <4>1. m.size >= f.size /\ m.size \in Nat /\ f.size \in Nat
        BY <1>0, <2>4, <3>1
      <4>2. x.size \in Nat /\ x.size >= m.size
        BY <1>0, <2>4, <2>5, <3>1
      <4> QED
        BY <4>1, <4>2
    <3> QED
      BY <1>0, <2>1, <2>2, <3>1, <3>2, <3>3
  <2>6. CASE ~(e.size > m.size)
    <3>1. new = top
      BY <1>0, <1>1, <1>4, <2>6 DEF Kept, m
    <3>2. ASSUME NEW x \in top PROVE x.size >= e.size
      BY <1>0, <2>4, <2>6
    <3> QED
      BY <1>0, <2>1, <2>2, <3>1, <3>2
  <2> QED
    BY <2>5, <2>6
<1> QED
  BY <1>2, <1>3, <1>4

LEMMA RecordingAddsUp ==
  ASSUME NEW a, Figures(a, params), params.topN \in Nat, NEW e, e \notin a.seen, e.size \in Nat
  PROVE  Figures(Recorded(a, e), params)
<1> DEFINE b == Recorded(a, e)
           w == [x \in a.seen |-> x.size]
           v == [x \in a.seen \cup {e} |-> x.size]
<1>1. /\ DOMAIN a = DOMAIN NewAggregator /\ IsFiniteSet(a.seen) /\ \A x \in a.seen : x.size \in Nat
      /\ a.files = Cardinality(a.seen) /\ a.bytes = SumFunctionOnSet(w, a.seen)
      /\ HoldsLargest(a.top, a.seen, params.topN)
  BY DEF Figures, SumFunction
<1>2. /\ DOMAIN b = DOMAIN a /\ b.seen = a.seen \cup {e} /\ b.files = a.files + 1 /\ b.bytes = a.bytes + e.size
      /\ b.top = IF Kept(a.top, e) THEN Evicted(a.top) \cup {e} ELSE a.top
      /\ b.byExtension = Tally(a.byExtension, Ext[e.item], e.size) /\ b.ages = Tally(a.ages, Bucket(e.item), 0)
      /\ b.errors = a.errors /\ b.errorsTotal = a.errorsTotal
  BY <1>1 DEF Recorded, NewAggregator
<1> HIDE DEF b
<1>3. IsFiniteSet(b.seen) /\ b.files = Cardinality(b.seen) /\ \A x \in b.seen : x.size \in Nat
  <2>1. IsFiniteSet(a.seen \cup {e}) /\ Cardinality(a.seen \cup {e}) = Cardinality(a.seen) + 1
    BY <1>1, FS_AddElement
  <2> QED
    BY <1>1, <1>2, <2>1
<1>4. b.bytes = SumFunction([x \in b.seen |-> x.size])
  <2>1. \A x \in a.seen : w[x] \in Nat /\ v[x] = w[x]
    BY <1>1
  <2>2. v[e] = (IF e \in a.seen THEN w[e] ELSE 0) + e.size
    OBVIOUS
  <2>3. SumFunctionOnSet(v, a.seen \cup {e}) = SumFunctionOnSet(w, a.seen) + e.size
    <3> HIDE DEF w, v
    <3>1. PICK D, f, g, n : D = a.seen /\ f = w /\ g = v /\ n = e.size
      OBVIOUS
    <3>2. /\ IsFiniteSet(D) /\ n \in Nat /\ \A y \in D : f[y] \in Nat
          /\ \A y \in D \ {e} : g[y] = f[y]
          /\ g[e] = (IF e \in D THEN f[e] ELSE 0) + n
      BY <1>1, <2>1, <2>2, <3>1
    <3>3. SumFunctionOnSet(g, D \cup {e}) = SumFunctionOnSet(f, D) + n
      BY <3>2, SumGrows
    <3> QED
      BY <3>1, <3>3
  <2> QED
    BY <1>1, <1>2, <2>3 DEF SumFunction
<1>5. HoldsLargest(b.top, b.seen, params.topN)
  <2>1. HoldsLargest(IF Kept(a.top, e) THEN Evicted(a.top) \cup {e} ELSE a.top, a.seen \cup {e}, params.topN)
    BY <1>1, HeapHoldsLargest
  <2> QED
    BY <1>2, <2>1
<1>6. /\ IsTable(b.byExtension) /\ IsTable(b.ages)
      /\ Total(b.byExtension, "count") = b.files /\ Total(b.byExtension, "size") = b.bytes
      /\ Total(b.ages, "count") = b.files
  BY <1>2, TallyGrows DEF Figures
<1>7. /\ DOMAIN b = DOMAIN NewAggregator /\ b.errors \in Seq(Item) /\ b.errorsTotal \in Nat
      /\ Len(b.errors) = AtMost(b.errorsTotal, params.maxErrors)
  BY <1>2 DEF Figures
<1>8. Figures(b, params)
  BY <1>3, <1>4, <1>5, <1>6, <1>7 DEF Figures
<1> QED
  BY <1>8 DEF b

LEMMA ErrorsAddUp ==
  ASSUME NEW a, Figures(a, params), params.maxErrors \in Nat, NEW i \in Item
  PROVE  Figures(WithError(a, i), params)
<1> DEFINE b == WithError(a, i)
<1>1. DOMAIN a = DOMAIN NewAggregator /\ a.errors \in Seq(Item) /\ a.errorsTotal \in Nat
  BY DEF Figures
<1>2. /\ DOMAIN b = DOMAIN a /\ b.errorsTotal = a.errorsTotal + 1
      /\ b.errors = IF Len(a.errors) < params.maxErrors THEN Append(a.errors, i) ELSE a.errors
      /\ b.files = a.files /\ b.bytes = a.bytes /\ b.top = a.top /\ b.seen = a.seen
      /\ b.byExtension = a.byExtension /\ b.ages = a.ages
  BY <1>1 DEF WithError, NewAggregator
<1> HIDE DEF b
<1>3. b.errors \in Seq(Item) /\ Len(b.errors) = AtMost(b.errorsTotal, params.maxErrors)
  BY <1>1, <1>2 DEF Figures, AtMost
<1>4. /\ DOMAIN b = DOMAIN NewAggregator /\ b.errorsTotal \in Nat
      /\ [e \in b.seen |-> e.size] = [e \in a.seen |-> e.size]
  BY <1>1, <1>2
<1>5. /\ IsFiniteSet(b.seen) /\ \A e \in b.seen : e.size \in Nat
      /\ b.files = Cardinality(b.seen) /\ b.bytes = SumFunction([e \in b.seen |-> e.size])
  BY <1>2, <1>4 DEF Figures
<1>6. HoldsLargest(b.top, b.seen, params.topN)
  BY <1>2 DEF Figures
<1>7. /\ IsTable(b.byExtension) /\ IsTable(b.ages)
      /\ Total(b.byExtension, "count") = b.files /\ Total(b.byExtension, "size") = b.bytes
      /\ Total(b.ages, "count") = b.files
  BY <1>2 DEF Figures
<1>8. Figures(b, params)
  BY <1>3, <1>4, <1>5, <1>6, <1>7 DEF Figures
<1> QED
  BY <1>8 DEF b

LEMMA NothingCounted ==
  ASSUME NEW p, p.topN \in Nat, p.maxErrors \in Nat
  PROVE  Figures(NewAggregator, p)
<1> DEFINE a == NewAggregator
<1>1. /\ a.files = 0 /\ a.bytes = 0 /\ a.top = {} /\ a.byExtension = <<>> /\ a.ages = <<>> /\ a.seen = {}
      /\ a.errors = <<>> /\ a.errorsTotal = 0
  BY DEF NewAggregator, NoTally
<1>2. DOMAIN a = DOMAIN NewAggregator
  OBVIOUS
<1> HIDE DEF a
<1>3. IsFiniteSet({}) /\ Cardinality({}) = 0 /\ DOMAIN <<>> = {} /\ <<>> \in Seq(Item) /\ Len(<<>>) = 0
  BY FS_EmptySet
<1>4. a.bytes = SumFunction([e \in a.seen |-> e.size])
  BY <1>1, SumEmpty DEF SumFunction
<1>5. IsTable(<<>>)
  BY <1>3 DEF IsTable
<1>6. Total(<<>>, "count") = 0 /\ Total(<<>>, "size") = 0
  BY <1>3, SumEmpty DEF Total, SumFunction
<1>7. HoldsLargest(a.top, a.seen, p.topN)
  BY <1>1, <1>3 DEF HoldsLargest, AtMost
<1>8. Figures(a, p)
  BY <1>1, <1>2, <1>3, <1>4, <1>5, <1>6, <1>7 DEF Figures, AtMost
<1> QED
  BY <1>8 DEF a

LEMMA WalkAddsUp ==
  ASSUME TypeInv, FiguresInv, NEW broken \in BOOLEAN, WalkItem(broken)
  PROVE  FiguresInv'
<1>0. /\ pc = "walk" /\ ~Walked /\ at' = at + 1 /\ Here \in Item /\ Walking' = Walking \cup {Here}
      /\ Yields(Here) /\ Met(Here) /\ params' = params /\ pc' \in {"walk", "idle"}
      /\ DOMAIN acc = DOMAIN NewAggregator
  BY WalkFacts DEF WalkItem, Resolve, Yields, TypeInv
<1>1. \A e \in acc.seen : e.item \in Item /\ e.item \in Walking
  BY <1>0 DEF FiguresInv
<1>2. Here \notin Walking
  <2>1. at \in 1 .. Len(Order) /\ Len(Order) \in Nat
    BY <1>0, ItemFacts DEF TypeInv, Walked
  <2>2. \A n \in 1 .. at - 1 : n \in 1 .. Len(Order) /\ n # at
    BY <2>1
  <2> QED
    BY <2>1, <2>2, ItemFacts DEF Walking, Here
<1>3. \/ acc' = acc \/ acc' = [acc EXCEPT !.dirs = @ + 1] \/ acc' = WithError(acc, Here)
      \/ acc' = Recorded(acc, EntryAt(Here)) /\ TypeOf(Here) = "file"
  BY DEF WalkItem
<1>4. CASE acc' = acc \/ acc' = [acc EXCEPT !.dirs = @ + 1]
  <2>1. \A f \in DOMAIN NewAggregator \ {"dirs"} : acc'[f] = acc[f]
    BY <1>0, <1>4
  <2>2. /\ acc'.files = acc.files /\ acc'.bytes = acc.bytes /\ acc'.top = acc.top /\ acc'.seen = acc.seen
        /\ acc'.byExtension = acc.byExtension /\ acc'.ages = acc.ages
        /\ acc'.errors = acc.errors /\ acc'.errorsTotal = acc.errorsTotal /\ DOMAIN acc' = DOMAIN acc
    BY <1>0, <1>4, <2>1 DEF NewAggregator
  <2>3. Figures(acc', params)
    BY <2>2 DEF FiguresInv, Figures
  <2> QED
    BY <1>0, <1>1, <2>2, <2>3 DEF FiguresInv
<1>5. CASE acc' = WithError(acc, Here)
  <2>1. Figures(acc', params) /\ acc'.seen = acc.seen
    BY <1>0, <1>5, ErrorsAddUp, AggregatorFacts DEF FiguresInv
  <2> QED
    BY <1>0, <1>1, <2>1 DEF FiguresInv
<1>6. CASE acc' = Recorded(acc, EntryAt(Here)) /\ TypeOf(Here) = "file"
  <2>1. Here \in Files
    BY <1>0, <1>6 DEF Files
  <2>2. EntryAt(Here).item = Here /\ EntryAt(Here).size \in Nat
    BY <2>1, FileFacts, SelectionAssumption DEF EntryAt
  <2>3. EntryAt(Here) \notin acc.seen
    BY <1>1, <1>2, <2>2
  <2>4. Figures(acc', params) /\ acc'.seen = acc.seen \cup {EntryAt(Here)}
    BY <1>0, <1>6, <2>2, <2>3, RecordingAddsUp, AggregatorFacts DEF FiguresInv
  <2> QED
    BY <1>0, <1>1, <2>2, <2>4 DEF FiguresInv
<1> QED
  BY <1>3, <1>4, <1>5, <1>6

LEMMA FiguresStep ==
  ASSUME TypeInv, RemoveInv, GatherInv, TasksInv, FiguresInv, [Next]_allVars
  PROVE  FiguresInv'
<1> USE DEF Resolve
<1>1. CASE UNCHANGED allVars
  BY <1>1 DEF allVars, callVars, analysisVars, FiguresInv, Walking
<1>2. ASSUME acc' = NewAggregator, params' \in AnalysisOptions \cup {NoParams} PROVE FiguresInv'
  <2>1. params'.topN \in Nat /\ params'.maxErrors \in Nat
    BY <1>2, CleanupAssumption DEF NoParams
  <2> QED
    BY <1>2, <2>1, NothingCounted, NothingIsOut DEF FiguresInv
<1>3. CASE \/ \E o \in RemoveOptions : StartRemove(o) /\ kind' = "remove" /\ ForgetReport
           \/ \E p \in AnalysisOptions : StartAnalysis(p) /\ kind' = "analyze" /\ ForgetRemoval
  <2>1. acc' = NewAggregator /\ params' \in AnalysisOptions \cup {NoParams}
    BY <1>3 DEF ForgetReport, StartAnalysis
  <2> QED
    BY <1>2, <2>1
<1>4. ASSUME UNCHANGED <<acc, params>>, pc' # "walk" \/ acc = NewAggregator
                                                     \/ (pc = "walk" /\ Walking \subseteq Walking')
      PROVE  FiguresInv'
  BY <1>4, NothingIsOut DEF FiguresInv
<1>5. CASE RemoveStep /\ UNCHANGED analysisVars
  BY <1>4, <1>5, RemovalFacts DEF analysisVars, RemovePhases
<1>6. CASE AnalysisStep
  <2> USE DEF analysisVars
  <2>1. CASE RootFails \/ GiveUp \/ EndWalk \/ AllSpawned \/ ReportDuplicates
    BY <1>4, <2>1 DEF RootFails, GiveUp, EndWalk, AllSpawned, ReportDuplicates
  <2>2. CASE PassOver
    <3>1. Walking' = Walking \cup {Here} /\ UNCHANGED <<acc, params, pc>> /\ pc \in {"count", "walk"}
      BY <2>2, WalkFacts DEF PassOver
    <3> QED
      BY <1>4, <3>1
  <2>3. CASE StartWalk \/ \E broken \in BOOLEAN : CountItem(broken)
    <3>1. acc = NewAggregator /\ UNCHANGED <<acc, params>>
      BY <2>3 DEF StartWalk, CountItem, GatherInv, CalmInv
    <3> QED
      BY <1>4, <3>1
  <2>4. CASE \E broken \in BOOLEAN : WalkItem(broken)
    BY <2>4, WalkAddsUp
  <2>5. CASE Hashing
    <3>1. PICK e \in DOMAIN hashes :
            SpawnHash(e) \/ TakePermit(e) \/ JoinHash(e) \/ \E broken \in BOOLEAN : ReadFile(e, broken)
      BY <2>5 DEF Hashing
    <3>2. pc \in {"spawn", "join"}
      BY <3>1 DEF SpawnHash, TakePermit, JoinHash, ReadFile, InState, TypeInv, NoTaskLeft
    <3>3. e \in acc.seen /\ e.item \in Item
      BY <3>2 DEF TasksInv, ToHash, FiguresInv
    <3>4. params' = params /\ pc' # "walk" /\ (acc' = acc \/ acc' = WithError(acc, e.item))
      BY <3>1, <3>2 DEF SpawnHash, TakePermit, JoinHash, ReadFile, callVars
    <3>5. Figures(WithError(acc, e.item), params) /\ WithError(acc, e.item).seen = acc.seen
      <4>1. Figures(acc, params) /\ params.maxErrors \in Nat /\ DOMAIN acc = DOMAIN NewAggregator
        BY DEF FiguresInv, TypeInv
      <4> QED
        BY <3>3, <4>1, ErrorsAddUp, AggregatorFacts
    <3> QED
      BY <1>4, <3>4, <3>5 DEF FiguresInv
  <2> QED
    BY <1>6, <2>1, <2>2, <2>3, <2>4, <2>5 DEF AnalysisStep
<1>7. CASE UNCHANGED <<kind, query, calls, pc, at, answer, removeVars, analysisVars>>
  BY <1>7 DEF analysisVars, FiguresInv, Walking
<1> QED
  BY <1>1, <1>3, <1>5, <1>6, <1>7, Steps
-----------------------------------------------------------------------------
CleanupInv == TypeInv /\ RemoveInv /\ GatherInv /\ TasksInv /\ GroupsInv /\ FiguresInv

(* At every moment of a session the invariant holds: only selected entries  *)
(* are about to be removed or are gone, what a call gathered on a disk      *)
(* nobody changed is what the criteria select there, each task read the     *)
(* file as it was, the groups of a report are sets of equal files, and the  *)
(* figures are those of what was seen.                                      *)
THEOREM CleanupInvariant == Spec => []CleanupInv
<1>1. ASSUME Init PROVE CleanupInv
  <2>1. TypeInv /\ RemoveInv
    BY <1>1, RemoveInvInit
  <2>2. pc = "idle" /\ kind = "none" /\ previewed = {} /\ counted = {}
    BY <1>1 DEF Init
  <2>3. GatherInv /\ TasksInv /\ GroupsInv
    BY <2>2 DEF GatherInv, CalmInv, AnswerInv, TasksInv, GroupsInv
  <2>4. acc = NewAggregator /\ params = NoParams /\ NoParams.topN = 0 /\ NoParams.maxErrors = 0
    BY <1>1 DEF Init, AnalysisInit, NoParams
  <2>5. FiguresInv
    BY <2>4, NothingCounted, NothingIsOut DEF FiguresInv
  <2> QED
    BY <2>1, <2>3, <2>5 DEF CleanupInv
<1>2. ASSUME CleanupInv, [Next]_allVars PROVE CleanupInv'
  <2>1. TypeInv' /\ RemoveInv' /\ GatherInv'
    BY <1>2, TypeStep, RemoveInvStep, GatherStep DEF CleanupInv
  <2>2. TasksInv' /\ GroupsInv'
    BY <1>2, DuplicatesStep DEF CleanupInv, GatherInv
  <2>3. FiguresInv'
    BY <1>2, FiguresStep DEF CleanupInv
  <2> QED
    BY <2>1, <2>2, <2>3 DEF CleanupInv
<1> QED
  BY <1>1, <1>2, PTL DEF Spec

(* Only what was asked for is removed: never in a dry run or without        *)
(* criteria, no link, no file behind one and none past the depth unless the *)
(* call is to go there, and none that a pattern, the extensions, the sizes  *)
(* or the times rule out, taken as the scan found it (remove.rs scans,      *)
(* filters, then dispatches).                                               *)
THEOREM OnlyWhatWasAsked == Spec => []OnlyAskedGo
<1>1. ASSUME CleanupInv PROVE OnlyAskedGo
  <2> SUFFICES ASSUME NEW i \in unlinked
               PROVE  /\ ~opts.dry /\ (query.filter = NoFilter => opts.allow)
                      /\ Single \/ (Within(i) /\ (Follow \/ (Kind[i] = "file" /\ ~Behind(i))))
                      /\ \E e \in found : e.item = i /\ ~RulesOut(query.filter, e)
    BY DEF OnlyAskedGo
  <2>1. ~opts.dry /\ ~CriteriaMissing(opts) /\ i \in Selectable
    BY <1>1 DEF CleanupInv, RemoveInv
  <2> QED
    BY <2>1 DEF CriteriaMissing, IsEmpty, Selectable, Reachable
<1> QED
  BY <1>1, CleanupInvariant, PTL

(* A removal tells what it did: the successes are the entries it removed    *)
(* itself, unless a stop under Undo withdrew that list although they are    *)
(* gone; no failure is among them, and each match of a call not stopped has *)
(* its verdict (RemoveOutcome).                                             *)
THEOREM RemovalSaysWhatIsGone == Spec => []RemovalTold
<1>1. CleanupInv => RemovalTold
  BY DEF CleanupInv, RemoveInv
<1> QED
  BY <1>1, CleanupInvariant, PTL

(* A dry run and an analysis foretell the removal: on the same disk what it *)
(* takes up is what the preview listed, which holds all that the analysis   *)
(* counted, and no more unless a pattern matches a directory.               *)
THEOREM PreviewIsThePlan == Spec => []PreviewForetells
<1>1. ASSUME CleanupInv PROVE PreviewForetells
  <2>1. CalmInv
    BY <1>1 DEF CleanupInv, GatherInv
  <2>2. pc = "delete" => \A p \in previewed : todo \cup outcome.failed = p
    BY <2>1 DEF CalmInv
  <2>3. ASSUME NEW c \in counted, NEW p \in previewed PROVE c = AllCounted /\ p = DueNow
    BY <2>1 DEF CalmInv
  <2>4. ~Single => AllCounted \subseteq DueNow
    BY DEF AllCounted, DueNow, Pruned
  <2>5. ASSUME \A d \in Item : Kind[d] \in {"dir", "dirlink"} => ~IsExcluded(d)
        PROVE  DueNow \subseteq AllCounted
    <3> SUFFICES ASSUME NEW i \in DueNow PROVE i \in AllCounted
      OBVIOUS
    <3>1. i \in Files /\ Passes(EntryAt(i)) /\ ~IsExcluded(i) /\ i \in Item /\ Met(i)
      BY DEF DueNow, Files
    <3>2. ~Pruned(i)
      BY <2>5, <3>1, SelectionAssumption DEF Pruned
    <3> QED
      BY <3>1, <3>2 DEF AllCounted
  <2> QED
    BY <2>2, <2>3, <2>4, <2>5 DEF PreviewForetells
<1> QED
  BY <1>1, CleanupInvariant, PTL

(* Groups of duplicates hold files of equal size that read the same bytes,  *)
(* their totals survive truncation, and on a disk nobody changes they are   *)
(* all the sets of equal files, though most files are never read            *)
(* (duplicates.rs skips empty files and unique sizes).                      *)
THEOREM DuplicatesFound == Spec => []Duplicates
<1>1. ASSUME CleanupInv, kind = "analyze", Reported, params.duplicates PROVE DuplicatesAreTrue
  <2>1. /\ \A g \in report.groups : \A e, f \in g :
             e.size = f.size /\ (e.size # 0 => read[e] = read[f] /\ read[e] # Failed)
        /\ Cardinality(report.groups) = AtMost(report.total, params.maxGroups)
        /\ calm /\ acc.errorsTotal = 0 =>
             report.total = Cardinality(EqualSets) /\ report.wasted = Waste(EqualSets)
    BY <1>1 DEF CleanupInv, GroupsInv
  <2>2. edits = 0 => calm
    BY <1>1 DEF CleanupInv, TypeInv
  <2>3. edits = 0 /\ acc.errorsTotal = 0 =>
          report.total = Cardinality(EqualSets) /\ report.wasted = Waste(EqualSets)
    BY <2>1, <2>2
  <2> QED
    BY <2>1, <2>3 DEF DuplicatesAreTrue, EqualSets, EqualTo, Bytes
<1>2. CleanupInv => Duplicates
  BY <1>1 DEF Duplicates, DuplicatesAreTrue
<1> QED
  BY <1>2, CleanupInvariant, PTL

(* A report's figures are those of the entries it counted, however many     *)
(* were tied, evicted or failing; it covers all that the criteria select in *)
(* the directories that could be read, or counts an error, and only a       *)
(* cancellation, a bad pattern, an error of the root or one that was to     *)
(* abort the call withholds it (Aggregator, walk_blocking).                 *)
THEOREM ReportIsTrue == Spec => []Exact
<1>1. ASSUME CleanupInv, kind = "analyze" PROVE ReportIsWhole
  <2>1. CalmInv /\ AnswerInv /\ (edits = 0 => calm)
    BY <1>1 DEF CleanupInv, GatherInv, TypeInv
  <2>2. CountedNow = {i \in Item : Yields(i) /\ TypeOf(i) = "file" /\ Passes(EntryAt(i))}
    BY DEF CountedNow, Counted, AllCounted, Files, Yields
  <2>3. pc = "idle" /\ answer = "ok" /\ edits = 0 /\ acc.errorsTotal = 0 => ItemsOf(acc.seen) = CountedNow
    BY <1>1, <2>1, Gathered DEF CalmInv, Reported
  <2> QED
    BY <1>1, <2>1, <2>2, <2>3 DEF ReportIsWhole, AnswerInv
<1>2. ASSUME CleanupInv PROVE ReportIsExact
  <2>1. Figures(acc, params)
    BY <1>2 DEF CleanupInv, FiguresInv
  <2>2. HoldsLargest(acc.top, acc.seen, params.topN) /\ acc.files = Cardinality(acc.seen)
    BY <2>1 DEF Figures
  <2>3. /\ Cardinality(acc.top) = AtMost(acc.files, params.topN)
        /\ \A e \in acc.top, f \in acc.seen \ acc.top : e.size >= f.size
    BY <2>2 DEF HoldsLargest
  <2> QED
    BY <2>1, <2>3 DEF ReportIsExact, Figures
<1>3. CleanupInv => Exact
  BY <1>1, <1>2 DEF Exact
<1> QED
  BY <1>3, CleanupInvariant, PTL
=============================================================================

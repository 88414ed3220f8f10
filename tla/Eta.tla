--------------------------------- MODULE Eta ---------------------------------
(***************************************************************************)
(* eta.rs fed by a copy: the EtaEstimator observes every event of the       *)
(* progress channel, in the order it was sent, from the plan over the       *)
(* directory pass to the entries of dispatch, and the deletions of sync     *)
(* that follow them.  The channel is unbounded and keeps the order, so the  *)
(* estimator is shown as soon as the event is sent.                         *)
(*                                                                          *)
(* Rates are floating point; of each only what decides whether estimate()   *)
(* can divide by it is kept.                                                *)
(***************************************************************************)
EXTENDS Dispatcher, FiniteSets, Functions

CONSTANTS
  Threshold,    (* small_file_threshold of the call.                        *)
  Directories,  (* Directories the pre-pass has to create.                  *)
  Orphans,      (* Entries the delete sweep of sync has to delete.          *)
  CoarseClock   (* Two events may be observed in the same instant.          *)

(* The planner streams nothing but entries over the same threshold.         *)
ASSUME EtaAssumption ==
  /\ Threshold \in Nat /\ Directories \in Nat /\ Orphans \in Nat /\ CoarseClock \in BOOLEAN
  /\ \A u \in DOMAIN Units : Units[u].kind = "stream" =>
       \A i \in DOMAIN Units[u].entries : Size[Units[u].entries[i]] > Threshold

VARIABLES
  eta,          (* The estimator.                                           *)
  stage,        (* Which phase of the call is sending events.               *)
  left          (* Directories or orphans that have not ended.              *)

etaVars == <<vars, eta, stage, left>>

IsLarge(e) == Size[e] > Threshold
LargeIn(S) == {e \in S : IsLarge(e)}
BytesOf(S) == SumFunctionOnSet(Size, S)

Regimes == {"Directory", "SmallFile", "LargeFile"}
Rates   == Regimes \cup {"Overall"}

(* Rate: nothing to divide ("none"), work pending but no time ("work"), a   *)
(* rate to divide by ("known"), or an average that empty samples have       *)
(* shrunk until the seconds left may be more than a Duration holds, so that *)
(* estimate() answers None ("faded").  Until it is charged, an event keeps  *)
(* in "worked" the rates it brought work.                                   *)
RateState == {"none", "work", "known", "faded"}
Minus(a, b) == IF a > b THEN a - b ELSE 0          \* saturating_sub

NewEstimator ==
  [threshold |-> 0, dirs |-> 0, small |-> 0, bytes |-> 0,
   dirsOn |-> FALSE, smallOn |-> 0, largeOn |-> 0,
   credited |-> [e \in Entry |-> 0], awaiting |-> FALSE,
   worked |-> {}, rate |-> [r \in Rates |-> "none"]]

EtaInit == Init /\ eta = NewEstimator /\ stage = "plan" /\ left = 0

-----------------------------------------------------------------------------
(* add_work.                                                                *)
Worked(x, rates, amount) == IF amount = 0 THEN x ELSE [x EXCEPT !.worked = @ \cup rates]

(* add_time, after the work of the same event was added.  Time may end the  *)
(* sample window or not.  A window without work takes three tenths off the  *)
(* average, so a rate fades after many of them and is zero in the end; one  *)
(* with work leaves a rate to divide by.  Work or time of earlier events    *)
(* may still be pending.                                                    *)
Sampled_TimeFirst(state, worked, timed) ==
  CASE state = "none"  -> IF worked THEN {"work", "known"} ELSE {"none"}
    [] state = "work"  -> {IF timed THEN "known" ELSE "work"}
    [] state = "known" -> IF timed THEN {"known", "faded"} ELSE {"known"}
    [] state = "faded" -> IF timed THEN {"faded", "known", "none"} ELSE {"faded"}
Sampled(state, worked, timed) ==
  CASE state = "none" /\ worked  -> IF timed THEN {"known"} ELSE {"work", "known"}
    [] state = "none" /\ ~worked -> {"none"}
    [] state = "work"  -> {IF timed THEN "known" ELSE "work"}
    [] state = "known" -> IF timed /\ ~worked THEN {"known", "faded"} ELSE {"known"}
    [] state = "faded" -> IF timed THEN {"faded", "known"} \cup (IF worked THEN {} ELSE {"none"})
                          ELSE {"faded"}
(* in_flight_regimes, and the byte rate whenever an entry is in flight.     *)
Busy(x) ==
  (IF x.dirsOn THEN {"Directory"} ELSE {})
    \cup (IF x.smallOn > 0 THEN {"SmallFile", "Overall"} ELSE {})
    \cup (IF x.largeOn > 0 THEN {"LargeFile", "Overall"} ELSE {})

(* The event changed x to y; the interval before it is charged to what was  *)
(* in flight then, if the clock moved at all.                               *)
Next1(moved, x, y, r) == Sampled(y.rate[r], r \in y.worked, moved /\ r \in Busy(x))
Settle(y, d, s, l, o) ==
  [y EXCEPT !.worked = {},
            !.rate = [r \in Rates |-> CASE r = "Directory" -> d [] r = "SmallFile" -> s
                                        [] r = "LargeFile" -> l [] OTHER -> o]]
ChargedIf(moved, x, y) ==
  {Settle(y, d, s, l, o) : d \in Next1(moved, x, y, "Directory"), s \in Next1(moved, x, y, "SmallFile"),
                           l \in Next1(moved, x, y, "LargeFile"), o \in Next1(moved, x, y, "Overall")}
Charged(x, y) == UNION {ChargedIf(moved, x, y) : moved \in IF CoarseClock THEN BOOLEAN ELSE {TRUE}}

-----------------------------------------------------------------------------
(* What each event does to the estimator.                                   *)
Planned_(x) ==
  [x EXCEPT !.threshold = Threshold, !.dirs = Directories, !.awaiting = TRUE,
            !.small = Cardinality(Planned \ LargeIn(Planned)),
            !.bytes = BytesOf(LargeIn(Planned))]

DirectoriesStarted(x, total) == [x EXCEPT !.dirs = total, !.dirsOn = total > 0]

DirectoryEnded(x) ==
  LET y == Worked(x, {"Directory"}, 1)
  IN [y EXCEPT !.dirs = Minus(@, 1), !.dirsOn = @ /\ x.dirs > 1]

(* Without a plan before it this is a sweep: every entry counts as small.   *)
Started(x, total, unlimited) ==
  IF x.awaiting THEN [x EXCEPT !.dirsOn = FALSE, !.awaiting = FALSE]
  ELSE [x EXCEPT !.dirsOn = FALSE, !.small = total, !.bytes = 0, !.threshold = unlimited]

OverThreshold(x, size) == size > x.threshold

EntryStarted(x, size) ==
  IF OverThreshold(x, size) THEN [x EXCEPT !.largeOn = @ + 1] ELSE [x EXCEPT !.smallOn = @ + 1]

EntrySkipped(x, size) ==
  IF OverThreshold(x, size) THEN [x EXCEPT !.bytes = Minus(@, size), !.largeOn = Minus(@, 1)]
  ELSE [x EXCEPT !.small = Minus(@, 1), !.smallOn = Minus(@, 1)]

Outstanding_WholeFile(x, e) == Size[e]
Outstanding(x, e) == Minus(Size[e], x.credited[e])

EntryEnded(x, e) ==
  IF OverThreshold(x, Size[e])
  THEN [Worked(x, {"LargeFile", "Overall"}, Outstanding(x, e)) EXCEPT
          !.bytes = Minus(@, Outstanding(x, e)), !.largeOn = Minus(@, 1), !.credited[e] = 0]
  ELSE [Worked(Worked(x, {"SmallFile"}, 1), {"Overall"}, Size[e]) EXCEPT
          !.small = Minus(@, 1), !.smallOn = Minus(@, 1)]

EntryProgress(x, e, copied) ==
  LET delta == Minus(copied, x.credited[e])
      y == Worked(x, {"LargeFile", "Overall"}, delta)
  IN IF delta = 0 THEN x
     ELSE [y EXCEPT !.credited[e] = copied, !.bytes = Minus(@, delta)]

Known(x, r) == x.rate[r] = "known"
ByteRate(x) == IF x.rate["LargeFile"] \in {"known", "faded"} THEN "LargeFile" ELSE "Overall"

(* The rates that estimate() divides by: those with something left.  The    *)
(* overall one stands in for large files only until theirs has a value,     *)
(* however small that becomes.                                              *)
Basis(x) ==
  (IF x.dirs > 0 THEN {"Directory"} ELSE {}) \cup (IF x.small > 0 THEN {"SmallFile"} ELSE {})
    \cup (IF x.bytes > 0 THEN {ByteRate(x)} ELSE {})

(* estimate() is sure to answer Some.                                       *)
HasEstimate(x) == \A r \in Basis(x) : Known(x, r)

-----------------------------------------------------------------------------
(* The pipeline: the plan, the directory pass, then dispatch.               *)
SendPlanned ==
  /\ stage = "plan"
  /\ eta' \in Charged(eta, Planned_(eta))
  /\ stage' = "mkdirs" /\ UNCHANGED <<vars, left>>

StartDirectories ==
  /\ stage = "mkdirs"
  /\ eta' \in Charged(eta, DirectoriesStarted(eta, Directories))
  /\ left' = Directories
  /\ stage' = "directories" /\ UNCHANGED vars

EndDirectory ==
  /\ stage = "directories" /\ left > 0
  /\ eta' \in Charged(eta, DirectoryEnded(eta))
  /\ left' = left - 1
  /\ UNCHANGED <<vars, stage>>

SendStarted ==
  /\ stage = "directories" /\ left = 0
  /\ eta' \in Charged(eta, Started(eta, Cardinality(Planned), MaxLen + 1))
  /\ stage' = "dispatch" /\ UNCHANGED <<vars, left>>

(* A step of the engine: what it sends is what the estimator observes.      *)
Observed ==
  LET told  == {e \in Entry : reported'[e] # reported[e]}
      grown == {e \in Entry : progress'[e] # progress[e]}
  IN CASE told # {} ->
            LET e == CHOOSE x \in told : TRUE IN
            eta' \in Charged(eta, CASE reported'[e] = "Started" -> EntryStarted(eta, Size[e])
                                    [] reported'[e] = "Skipped" -> EntrySkipped(eta, Size[e])
                                    [] OTHER -> EntryEnded(eta, e))
       [] grown # {} ->
            LET e == CHOOSE x \in grown : TRUE
            IN eta' \in Charged(eta, EntryProgress(eta, e, progress'[e]))
       [] OTHER -> UNCHANGED eta

EngineStep == stage = "dispatch" /\ Next /\ Observed /\ UNCHANGED <<stage, left>>

(* delete_sweep of sync, after a copy that was not stopped.                 *)
StartSweep ==
  /\ stage = "dispatch" /\ mpc = "returned" /\ out.stoppedEarly = None
  /\ eta' \in Charged(eta, Started(eta, Orphans, MaxLen + 1))
  /\ left' = Orphans
  /\ stage' = "sweep" /\ UNCHANGED vars

StartOrphan(size) ==
  /\ stage = "sweep" /\ left > 0
  /\ eta' \in Charged(eta, EntryStarted(eta, size))
  /\ stage' = "orphan" /\ UNCHANGED <<vars, left>>

EndOrphan(size) ==
  /\ stage = "orphan"
  /\ LET y == Worked(Worked(eta, {"SmallFile"}, 1), {"Overall"}, size) IN
     eta' \in Charged(eta, [y EXCEPT !.small = Minus(@, 1), !.smallOn = Minus(@, 1)])
  /\ left' = left - 1
  /\ stage' = "sweep" /\ UNCHANGED vars

(* The call has returned.                                                   *)
SweepEnded == stage = "sweep" /\ left = 0 /\ UNCHANGED etaVars

Prepare == SendPlanned \/ StartDirectories \/ EndDirectory \/ SendStarted

EtaNext ==
  Prepare \/ EngineStep \/ StartSweep \/ SweepEnded
  \/ \E size \in 0 .. MaxLen : StartOrphan(size) \/ EndOrphan(size)

EtaSpec == EtaInit /\ [][EtaNext]_etaVars /\ WF_etaVars(Prepare) /\ Fairness

-----------------------------------------------------------------------------
Open(S)   == {e \in S : reported[e] \in {"none", "Started"}}
Ongoing   == {e \in Planned : reported[e] = "Started"}
BytesLeft == SumFunctionOnSet([e \in Entry |-> Size[e] - progress[e]], Open(LargeIn(Planned)))

(* During dispatch the estimator's counts are those of the engine: entries  *)
(* in flight by regime, small files without a verdict, and bytes of large   *)
(* files neither copied nor given up, whatever was sampled, failed or       *)
(* skipped before.  A file skipped after samples of it were taken (they     *)
(* measure the file that was there) is counted off twice, so then the bytes *)
(* left may be too few, never too many.                                     *)
CountsFollowEngine ==
  stage = "dispatch" =>
    /\ eta.dirs = 0 /\ ~eta.dirsOn
    /\ eta.largeOn = Cardinality(LargeIn(Ongoing))
    /\ eta.smallOn = Cardinality(Ongoing \ LargeIn(Ongoing))
    /\ eta.small = Cardinality(Open(Planned \ LargeIn(Planned)))
    /\ eta.bytes <= BytesLeft
    /\ (\A e \in Planned : reported[e] = "Skipped" => progress[e] = 0) => eta.bytes = BytesLeft

(* What this step does of the work that each rate measures: a directory, a  *)
(* small file or an orphan that ends, and bytes, of a sample, of a large    *)
(* file that ends with some not sampled, or of a small one.                 *)
Ends(e)    == reported[e] = "Started" /\ reported'[e] \in {"Completed", "Failed"}
LargeWork  == \E e \in Entry : /\ IsLarge(e)
                               /\ progress'[e] > progress[e] \/ (Ends(e) /\ progress[e] < Size[e])
SmallWork  == stage = "orphan" \/ \E e \in Entry : ~IsLarge(e) /\ Ends(e)
SmallBytes == \E e \in Entry : ~IsLarge(e) /\ Ends(e) /\ Size[e] > 0

Fed ==
  (IF stage = "directories" /\ left' < left THEN {"Directory"} ELSE {})
    \cup (IF SmallWork THEN {"SmallFile"} ELSE {}) \cup (IF LargeWork THEN {"LargeFile"} ELSE {})
    \cup (IF LargeWork \/ SmallBytes THEN {"Overall"} ELSE {})

SamePhase == stage' = stage \/ {stage, stage'} = {"sweep", "orphan"}

(* Within a phase an estimate is lost in one way only: a rate it rests on   *)
(* had its kind of work in flight, and the event that ended the interval    *)
(* brought none of it (a skip, a file whose bytes were all sampled, an      *)
(* event of another entry).  Then the average fades, and after about a      *)
(* minute of such windows estimate() divides by too little.  No failure,    *)
(* cancellation, skip of an entry of another regime, start or end of one    *)
(* makes an estimate unknown again.                                         *)
EstimateLastsWithWork ==
  [][SamePhase /\ HasEstimate(eta) /\ ~HasEstimate(eta')
       => \E r \in Basis(eta) \cap Busy(eta) : r \notin Fed]_etaVars
=============================================================================

----------------------------- MODULE Dispatcher -----------------------------
(***************************************************************************)
(* The execution engine every file operation runs on: planner/dispatcher.rs *)
(* takes the units of an execution plan (a batch of small files, or one     *)
(* streamed file) and runs each as a tokio task, at most Concurrency at a   *)
(* time.  The module has one process for the dispatch loop, one per unit,   *)
(* and one per streamed entry's progress sampler, and interleaves them at   *)
(* every point where the code awaits, locks, or touches the shared stop     *)
(* flag or the cancellation token.                                          *)
(*                                                                          *)
(* What an entry's action does is a parameter: Execute takes any result the *)
(* EntryAction trait allows.  CopyAction refines it to real file copies. *)
(***************************************************************************)
EXTENDS Outcomes

CONSTANTS
  Entry,        (* Entries of the workload (files found by the scan).       *)
  Units,        (* Sequence of units in dispatch order; see Planner.        *)
  Size,         (* Size recorded for each entry at scan time.               *)
  Concurrency,  (* The builder's .concurrency(n); 0 is accepted.            *)
  HasTarget,    (* Does the action name a progress_target to sample?        *)
  MaxLen        (* Bound: longest destination length a sample can measure.  *)

Unit == [kind : {"batch", "stream"}, entries : Seq(Entry)]

ASSUME UnitsAssumption == Units \in Seq(Unit)

(* A scan yields every file once and the planner places every entry once.  *)
ASSUME DistinctAssumption ==
  \A u, v \in DOMAIN Units :
    \A i \in DOMAIN Units[u].entries, j \in DOMAIN Units[v].entries :
      Units[u].entries[i] = Units[v].entries[j] => u = v /\ i = j

ASSUME SizeAssumption == Size \in [Entry -> Nat]

ASSUME BoundsAssumption ==
  /\ Concurrency \in Nat
  /\ MaxLen \in Nat
  /\ HasTarget \in BOOLEAN

VARIABLES
  strategy,         (* ErrorStrategy of the call; constant in a behaviour.  *)
  mpc,              (* Where the dispatch loop is.                          *)
  next,             (* The unit the loop handles now.                       *)
  permits,          (* Free permits of the semaphore.                       *)
  stop,             (* The shared AtomicBool.                               *)
  cancelled,        (* The caller's CancellationToken.                      *)
  stoppedByCancel,  (* The loop left because of the token.                  *)
  undoLeft,         (* Succeeded entries the rollback still has to visit.   *)
  wpc,              (* Where each unit's task is.                           *)
  widx,             (* The entry of the unit the task is on.                *)
  wres,             (* Result of the action on that entry.                  *)
  sampler,          (* State of the streamed entry's sampler task.          *)
  measured,         (* Length the sampler read, not yet reported.           *)
  out,              (* The OperationOutcome behind the mutex.               *)
  (* Observability: what the progress channel told the caller, and which    *)
  (* entries' effects are in place on the filesystem.                       *)
  reported,         (* Last start/terminal event sent for each entry.       *)
  progress,         (* Last EntryProgress bytes sent for each entry.        *)
  applied,          (* Entries written and not (successfully) undone.       *)
  undoFailed        (* Entries whose undo returned an error.                *)

mainVars    == <<mpc, next, stoppedByCancel, undoLeft>>
sharedVars  == <<permits, stop, cancelled>>
workerVars  == <<wpc, widx, wres>>
samplerVars == <<sampler, measured, progress>>
effectVars  == <<applied, undoFailed>>
vars == <<strategy, mainVars, sharedVars, workerVars, samplerVars,
          out, reported, effectVars>>

Results    == {"Written", "Skipped", "Error", "Fatal"}
UnitId     == 1 .. Len(Units)
MainPC     == {"check", "acquire", "recheck", "spawn", "join", "undo", "returned"}
WorkerPC   == {"unspawned", "loop", "execute", "drain", "record", "halt", "exit", "done"}
SamplerPC  == {"off", "sleep", "measured"}

(* Semaphore::new(concurrency.max(1)) *)
Permits_Unclamped == Concurrency
Permits == IF Concurrency = 0 THEN 1 ELSE Concurrency

Running(u) == wpc[u] \notin {"unspawned", "done"}
Active     == {u \in UnitId : Running(u)}
MainHolds  == mpc \in {"recheck", "spawn"}
EntryOf(u) == Units[u].entries[widx[u]]
HasMore(u) == widx[u] < Len(Units[u].entries)
EntriesOf(u) == {Units[u].entries[i] : i \in DOMAIN Units[u].entries}
Planned    == UNION {EntriesOf(u) : u \in UnitId}

Init ==
  /\ strategy \in Strategies
  /\ mpc = "check" /\ next = 1
  /\ stoppedByCancel = FALSE /\ undoLeft = 0
  /\ permits = Permits /\ stop = FALSE /\ cancelled = FALSE
  /\ wpc = [u \in UnitId |-> "unspawned"]
  /\ widx = [u \in UnitId |-> 0]
  /\ wres = [u \in UnitId |-> "Written"]
  /\ sampler = [u \in UnitId |-> "off"]
  /\ measured = [u \in UnitId |-> 0]
  /\ out = [succeeded |-> <<>>, skipped |-> <<>>, failed |-> <<>>, stoppedEarly |-> None]
  /\ reported = [e \in Entry |-> "none"]
  /\ progress = [e \in Entry |-> 0]
  /\ applied = {} /\ undoFailed = {}

-----------------------------------------------------------------------------
(* The caller.                                                             *)

Cancel ==
  /\ ~cancelled /\ mpc # "returned"
  /\ cancelled' = TRUE
  /\ UNCHANGED <<strategy, mainVars, permits, stop, workerVars, samplerVars,
                 out, reported, effectVars>>

-----------------------------------------------------------------------------
(* The dispatch loop.                                                      *)

(* `for unit in units` and the stop check at the head of its body.         *)
CheckStop ==
  /\ mpc = "check"
  /\ mpc' = IF next > Len(Units) \/ stop THEN "join" ELSE "acquire"
  /\ UNCHANGED <<strategy, next, stoppedByCancel, undoLeft, sharedVars, workerVars,
                 samplerVars, out, reported, effectVars>>

(* The biased select!: the token wins over a free permit.                  *)
SelectCancelled ==
  /\ mpc = "acquire" /\ cancelled
  /\ stoppedByCancel' = TRUE
  /\ mpc' = "join"
  /\ UNCHANGED <<strategy, next, undoLeft, sharedVars, workerVars, samplerVars,
                 out, reported, effectVars>>

SelectPermit ==
  /\ mpc = "acquire" /\ ~cancelled
  /\ permits > 0
  /\ permits' = permits - 1
  /\ mpc' = "recheck"
  /\ UNCHANGED <<strategy, next, stoppedByCancel, undoLeft, stop, cancelled, workerVars,
                 samplerVars, out, reported, effectVars>>

(* The permit may have come from the unit that just failed: look again.    *)
MayArm_NoRecheck == TRUE
MayArm == ~stop

RecheckStop ==
  /\ mpc = "recheck"
  /\ IF MayArm
     THEN mpc' = "spawn" /\ UNCHANGED permits
     ELSE mpc' = "join" /\ permits' = permits + 1     \* the permit is dropped
  /\ UNCHANGED <<strategy, next, stoppedByCancel, undoLeft, stop, cancelled, workerVars,
                 samplerVars, out, reported, effectVars>>

(* The permit moves into the task.                                         *)
Spawn ==
  /\ mpc = "spawn"
  /\ wpc' = [wpc EXCEPT ![next] = "loop"]
  /\ next' = next + 1
  /\ mpc' = "check"
  /\ UNCHANGED <<strategy, stoppedByCancel, undoLeft, sharedVars, widx, wres,
                 samplerVars, out, reported, effectVars>>

AllJoined_NoJoin == TRUE
AllJoined == \A u \in UnitId : ~Running(u)

FinalReason_CancelOverrides == IF stoppedByCancel THEN "Cancelled" ELSE out.stoppedEarly
FinalReason == IF stoppedByCancel /\ out.stoppedEarly = None THEN "Cancelled" ELSE out.stoppedEarly

RollsBack_OnUndoOnly(reason) == reason = "Undo"
RollsBack(reason) == strategy = "Undo" /\ reason # None

(* Every task joined: settle the reason and enter the rollback if asked to. *)
Join ==
  /\ mpc = "join"
  /\ AllJoined
  /\ out' = [out EXCEPT !.stoppedEarly = FinalReason]
  /\ IF RollsBack(FinalReason)
     THEN mpc' = "undo" /\ undoLeft' = Len(out.succeeded)
     ELSE mpc' = "returned" /\ UNCHANGED undoLeft
  /\ UNCHANGED <<strategy, next, stoppedByCancel, sharedVars, workerVars, samplerVars,
                 reported, effectVars>>

(* One action.undo, last success first; its error is ignored.              *)
UndoOne(ok) ==
  /\ mpc = "undo" /\ undoLeft > 0
  /\ undoLeft' = undoLeft - 1
  /\ IF ok
     THEN applied' = applied \ {out.succeeded[undoLeft]} /\ UNCHANGED undoFailed
     ELSE undoFailed' = undoFailed \cup {out.succeeded[undoLeft]} /\ UNCHANGED applied
  /\ UNCHANGED <<strategy, mpc, next, stoppedByCancel, sharedVars, workerVars,
                 samplerVars, out, reported>>

UndoDone ==
  /\ mpc = "undo" /\ undoLeft = 0
  /\ out' = [out EXCEPT !.succeeded = <<>>]
  /\ mpc' = "returned"
  /\ UNCHANGED <<strategy, next, stoppedByCancel, undoLeft, sharedVars, workerVars,
                 samplerVars, reported, effectVars>>

-----------------------------------------------------------------------------
(* A unit's task.                                                          *)

(* Take the next entry, announce it, start its sampler if it is a stream.  *)
StartEntry(u) ==
  /\ wpc[u] = "loop" /\ HasMore(u)
  /\ LET e == Units[u].entries[widx[u] + 1] IN
       /\ widx' = [widx EXCEPT ![u] = @ + 1]
       /\ reported' = [reported EXCEPT ![e] = "Started"]
       /\ sampler' = IF Units[u].kind = "stream" /\ HasTarget
                     THEN [sampler EXCEPT ![u] = "sleep"] ELSE sampler
  /\ wpc' = [wpc EXCEPT ![u] = "execute"]
  /\ UNCHANGED <<strategy, mainVars, sharedVars, wres, measured, progress, out,
                 effectVars>>

(* The action returns r; the sampler's token is cancelled.                 *)
Execute(u, r) ==
  /\ wpc[u] = "execute"
  /\ wres' = [wres EXCEPT ![u] = r]
  /\ applied' = IF r = "Written" THEN applied \cup {EntryOf(u)} ELSE applied
  /\ wpc' = [wpc EXCEPT ![u] = "drain"]
  /\ UNCHANGED <<strategy, mainVars, sharedVars, widx, samplerVars, out, reported,
                 undoFailed>>

Terminal_SkipCompletes(r) == IF r \in {"Error", "Fatal"} THEN "Failed" ELSE "Completed"
Terminal(r) ==
  CASE r = "Written" -> "Completed"
    [] r = "Skipped" -> "Skipped"
    [] OTHER -> "Failed"

SamplerGone(u) == sampler[u] = "off"

(* The sampler's handle is awaited before the terminal event goes out.     *)
ReportEntry(u) ==
  /\ wpc[u] = "drain" /\ SamplerGone(u)
  /\ reported' = [reported EXCEPT ![EntryOf(u)] = Terminal(wres[u])]
  /\ wpc' = [wpc EXCEPT ![u] = "record"]
  /\ UNCHANGED <<strategy, mainVars, sharedVars, widx, wres, samplerVars, out,
                 effectVars>>

(* Why a result stops the operation, if it does.                           *)
ReasonFor(r) ==
  IF r \in {"Written", "Skipped"} THEN None ELSE FailureReason(strategy, r = "Fatal")

FirstReason(old, new) == IF old = None THEN new ELSE old

AfterRecord(r) == IF ReasonFor(r) = None THEN "loop" ELSE "halt"

(* The push under the outcome's mutex.                                     *)
RecordEntry(u) ==
  /\ wpc[u] = "record"
  /\ LET e == EntryOf(u)
         r == wres[u]
     IN /\ out' = [succeeded |-> IF r = "Written" THEN Append(out.succeeded, e) ELSE out.succeeded,
                   skipped |-> IF r = "Skipped" THEN Append(out.skipped, e) ELSE out.skipped,
                   failed |-> IF r \in {"Error", "Fatal"} THEN Append(out.failed, e) ELSE out.failed,
                   stoppedEarly |-> FirstReason(out.stoppedEarly, ReasonFor(r))]
        /\ wpc' = [wpc EXCEPT ![u] = AfterRecord(r)]
  /\ UNCHANGED <<strategy, mainVars, sharedVars, widx, wres, samplerVars, reported,
                 effectVars>>

(* stop.store(true), outside the lock, then leave the entry loop.          *)
HaltUnit(u) ==
  /\ wpc[u] = "halt"
  /\ stop' = TRUE
  /\ wpc' = [wpc EXCEPT ![u] = "exit"]
  /\ UNCHANGED <<strategy, mainVars, permits, cancelled, widx, wres, samplerVars,
                 out, reported, effectVars>>

Released_Leaked == permits
Released == permits + 1

(* The task ends and its permit is dropped with it.                        *)
ExitUnit(u) ==
  /\ wpc[u] = "exit" \/ (wpc[u] = "loop" /\ ~HasMore(u))
  /\ wpc' = [wpc EXCEPT ![u] = "done"]
  /\ permits' = Released
  /\ UNCHANGED <<strategy, mainVars, stop, cancelled, widx, wres, samplerVars, out,
                 reported, effectVars>>

-----------------------------------------------------------------------------
(* report_entry_progress: the sampler of a streamed entry.                 *)

TokenFired(u) == wpc[u] \notin {"loop", "execute"}

SeesToken_Unbiased(u) == FALSE
SeesToken(u) == TokenFired(u)

SamplerReturn(u) ==
  /\ sampler[u] = "sleep" /\ SeesToken(u)
  /\ sampler' = [sampler EXCEPT ![u] = "off"]
  /\ UNCHANGED <<strategy, mainVars, sharedVars, workerVars, measured, progress,
                 out, reported, effectVars>>

(* The 250ms sleep elapsed and the destination has some length.            *)
SamplerMeasure(u, len) ==
  /\ sampler[u] = "sleep" /\ ~SeesToken(u)
  /\ sampler' = [sampler EXCEPT ![u] = "measured"]
  /\ measured' = [measured EXCEPT ![u] = len]
  /\ UNCHANGED <<strategy, mainVars, sharedVars, workerVars, progress, out,
                 reported, effectVars>>

Clamped_Raw(u) == measured[u]
Clamped(u) == IF measured[u] < Size[EntryOf(u)] THEN measured[u] ELSE Size[EntryOf(u)]

SamplerSend(u) ==
  /\ sampler[u] = "measured"
  /\ sampler' = [sampler EXCEPT ![u] = "sleep"]
  /\ progress' = IF Clamped(u) > progress[EntryOf(u)]
                 THEN [progress EXCEPT ![EntryOf(u)] = Clamped(u)] ELSE progress
  /\ measured' = [measured EXCEPT ![u] = 0]
  /\ UNCHANGED <<strategy, mainVars, sharedVars, workerVars, out, reported,
                 effectVars>>

-----------------------------------------------------------------------------
Main == CheckStop \/ SelectCancelled \/ SelectPermit \/ RecheckStop \/ Spawn \/ Join
        \/ (\E ok \in BOOLEAN : UndoOne(ok)) \/ UndoDone

Worker(u) == StartEntry(u) \/ (\E r \in Results : Execute(u, r)) \/ ReportEntry(u)
             \/ RecordEntry(u) \/ HaltUnit(u) \/ ExitUnit(u)

Sampler(u) == SamplerReturn(u) \/ (\E len \in 0 .. MaxLen : SamplerMeasure(u, len))
              \/ SamplerSend(u)

(* The call has returned; nothing of it runs any more.                     *)
Returned == mpc = "returned" /\ UNCHANGED vars

Next == Main \/ (\E u \in UnitId : Worker(u) \/ Sampler(u)) \/ Cancel \/ Returned

(* tokio polls every ready task; file calls end.  The caller need not act. *)
Fairness ==
  /\ WF_vars(Main)
  /\ \A u \in UnitId : WF_vars(Worker(u)) /\ WF_vars(Sampler(u))

Spec == Init /\ [][Next]_vars /\ Fairness
-----------------------------------------------------------------------------
(* Properties.                                                             *)

Entries(list) == {list[i] : i \in DOMAIN list}

Outcome == [succeeded : Seq(Entry), skipped : Seq(Entry), failed : Seq(Entry),
            stoppedEarly : Reasons \cup {None}]

(* Exactly the units before next have a task; a task is on an entry of its  *)
(* unit, and has a sampler only while it needs one.                         *)
WorkerOK(u) ==
  /\ wpc[u] = "unspawned" <=> next <= u
  /\ widx[u] <= Len(Units[u].entries)
  /\ wpc[u] \in {"execute", "drain", "record", "halt", "exit"} => widx[u] > 0
  /\ sampler[u] # "off" => wpc[u] \in {"execute", "drain"}

(* Every variable keeps its type; the bytes a stream reports never exceed   *)
(* the size the estimator was told, whatever the sampler measured.          *)
TypeOK ==
  /\ strategy \in Strategies
  /\ mpc \in MainPC /\ next \in 1 .. Len(Units) + 1
  /\ mpc \in {"acquire", "recheck", "spawn"} => next <= Len(Units)
  /\ stoppedByCancel \in BOOLEAN /\ undoLeft \in Nat
  /\ permits \in Nat /\ stop \in BOOLEAN /\ cancelled \in BOOLEAN
  /\ wpc \in [UnitId -> WorkerPC] /\ wres \in [UnitId -> Results]
  /\ widx \in [UnitId -> Nat]
  /\ sampler \in [UnitId -> SamplerPC] /\ measured \in [UnitId -> Nat]
  /\ \A u \in UnitId : WorkerOK(u)
  /\ out \in Outcome /\ undoLeft <= Len(out.succeeded)
  /\ reported \in [Entry -> {"none", "Started", "Completed", "Skipped", "Failed"}]
  /\ progress \in [Entry -> Nat] /\ \A e \in Entry : progress[e] <= Size[e]
  /\ applied \subseteq Entry /\ undoFailed \subseteq Entry

(* Every permit is free, held by one running task, or in the loop's hand:   *)
(* no path (early break, re-check, failing unit) leaks or forges one, so at *)
(* most concurrency.max(1) units run and the loop can always go on.         *)
PermitConservation ==
  permits + Cardinality(Active) + (IF MainHolds THEN 1 ELSE 0) = Permits

(* An entry gets at most one verdict, and once the call returned the lists  *)
(* of the outcome are what the progress channel announced; a rollback       *)
(* withdraws the successes.                                                 *)
OneVerdict ==
  LET verdicts == out.succeeded \o out.skipped \o out.failed
      Announced(kind) == {e \in Entry : reported[e] = kind}
  IN /\ \A i, j \in DOMAIN verdicts : verdicts[i] = verdicts[j] => i = j
     /\ mpc = "returned" =>
          /\ Entries(out.succeeded) = IF RollsBack(out.stoppedEarly) THEN {} ELSE Announced("Completed")
          /\ Entries(out.skipped) = Announced("Skipped")
          /\ Entries(out.failed) = Announced("Failed")
          /\ Announced("Started") = {}

(* The first reason to stop stands: a later failure in another unit, or the *)
(* token, never rewrites it.                                                *)
FirstReasonStands ==
  [][out.stoppedEarly # None => out'.stoppedEarly = out.stoppedEarly]_vars

(* Once stop is up, the loop never gets as far as arming another spawn,     *)
(* even if it was parked waiting for the failing unit's permit.             *)
NoSpawnAfterStop ==
  [][stop /\ mpc # "spawn" => mpc' # "spawn"]_vars

(* Run serially, a failure that stops the operation keeps every later unit  *)
(* from starting at all.                                                    *)
SerialStop ==
  Permits = 1 =>
    \A u, v \in UnitId :
      u < v /\ ReasonFor(wres[u]) # None /\ wpc[u] \in {"halt", "exit", "done"}
        => wpc[v] = "unspawned"

(* When the call returns, the entries whose effect is in place are exactly  *)
(* those reported as succeeded, or those whose undo failed: no task is left *)
(* that writes behind the rollback's back.  Under Undo any early stop (an   *)
(* error, a fatal one, a cancellation) leaves only the latter.              *)
OutcomeTellsEffects ==
  mpc = "returned" =>
    /\ applied = Entries(out.succeeded) \cup undoFailed
    /\ strategy = "Undo" /\ out.stoppedEarly # None => applied = undoFailed

(* dispatch() keeps its promise to the operations built on it.              *)
Promise == INSTANCE DispatchPromise WITH
  W <- Planned,
  phase <- CASE mpc = "returned" -> "returned" [] mpc = "undo" -> "undoing"
             [] OTHER -> "working",
  result <- IF mpc # "returned" THEN EmptyOutcome
            ELSE [succeeded |-> Entries(out.succeeded), skipped |-> Entries(out.skipped),
                  failed |-> Entries(out.failed), stoppedEarly |-> out.stoppedEarly]
ImplementsPromise == Promise!Spec

(* The call always returns: neither the permits, nor the join, nor a        *)
(* sampler that has to notice its token can hold it for ever.               *)
Termination == <>(mpc = "returned")
=============================================================================

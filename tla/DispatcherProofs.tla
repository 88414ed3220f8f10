-------------------------- MODULE DispatcherProofs --------------------------
(***************************************************************************)
(* What holds of the dispatch engine for every plan, every concurrency and  *)
(* every mix of results: its types, permits and stop, the serial run, one   *)
(* verdict per entry, and the promise the operations are built on; then,    *)
(* for the copies it runs, that what was at a destination stays there and   *)
(* that the outcome tells what is on the disk; for the estimator that       *)
(* observes it, that it counts what the engine does; and, last, of the      *)
(* planner, that it makes such plans of every workload.                     *)
(***************************************************************************)
EXTENDS Plans, CopyAction, Eta, SumTheorems, FiniteSetTheorems, TLAPS

LEMMA UnitFacts ==
  ASSUME NEW u \in UnitId
  PROVE  /\ u \in DOMAIN Units
         /\ Units[u].kind \in {"batch", "stream"}
         /\ Units[u].entries \in Seq(Entry)
         /\ Len(Units[u].entries) \in Nat
<1>1. Len(Units) \in Nat /\ DOMAIN Units = 1 .. Len(Units)
  BY UnitsAssumption
<1>2. u \in 1 .. Len(Units)
  BY DEF UnitId
<1>3. Units[u] \in Unit
  BY <1>2, UnitsAssumption
<1> QED
  BY <1>1, <1>2, <1>3 DEF Unit

(* The entry a task is on is an entry of the workload.                      *)
LEMMA EntryOfIsEntry ==
  ASSUME TypeOK, NEW u \in UnitId,
         wpc[u] \in {"execute", "drain", "record", "halt", "exit"}
  PROVE  EntryOf(u) \in Entry
<1>1. widx[u] \in 1 .. Len(Units[u].entries)
  BY UnitFacts DEF TypeOK, WorkerOK
<1> QED
  BY <1>1, UnitFacts DEF EntryOf

LEMMA TypeInit == ASSUME Init PROVE TypeOK
<1> USE UnitsAssumption, SizeAssumption, BoundsAssumption
<1>0. Len(Units) \in Nat
  OBVIOUS
<1>1. Permits \in Nat
  BY DEF Permits
<1>2. out \in Outcome /\ Len(out.succeeded) \in Nat
  BY DEF Init, Outcome
<1>3. ASSUME NEW u \in UnitId PROVE WorkerOK(u)
  BY <1>0, UnitFacts DEF Init, WorkerOK, UnitId
<1>4. /\ wpc \in [UnitId -> WorkerPC] /\ wres \in [UnitId -> Results]
      /\ widx \in [UnitId -> Nat] /\ sampler \in [UnitId -> SamplerPC]
      /\ measured \in [UnitId -> Nat]
  BY DEF Init, WorkerPC, Results, SamplerPC
<1>5. /\ reported \in [Entry -> {"none", "Started", "Completed", "Skipped", "Failed"}]
      /\ progress \in [Entry -> Nat] /\ \A e \in Entry : progress[e] <= Size[e]
  BY DEF Init
<1>6. undoLeft <= Len(out.succeeded)
  BY DEF Init
<1>7. strategy \in Strategies /\ mpc \in MainPC /\ next \in 1 .. Len(Units) + 1
      /\ mpc \notin {"acquire", "recheck", "spawn"}
  BY <1>0 DEF Init, MainPC
<1> QED
  BY <1>1, <1>2, <1>3, <1>4, <1>5, <1>6, <1>7 DEF Init, TypeOK

LEMMA TypeStep == ASSUME TypeOK, [Next]_vars PROVE TypeOK'
<1> USE UnitsAssumption, SizeAssumption, BoundsAssumption
<1>0. Len(Units) \in Nat
  OBVIOUS
<1> USE DEF mainVars, sharedVars, workerVars, samplerVars, effectVars
<1>1. CASE CheckStop
  BY <1>0, <1>1 DEF TypeOK, WorkerOK, CheckStop, MainPC
<1>2. CASE SelectCancelled
  BY <1>2 DEF TypeOK, WorkerOK, SelectCancelled, MainPC
<1>3. CASE SelectPermit
  BY <1>3 DEF TypeOK, WorkerOK, SelectPermit, MainPC
<1>4. CASE RecheckStop
  BY <1>4 DEF TypeOK, WorkerOK, RecheckStop, MayArm, MainPC
<1>5. CASE Spawn
  <2>1. next' \in 1 .. Len(Units) + 1
    BY <1>0, <1>5 DEF TypeOK, Spawn
  <2>2. wpc' \in [UnitId -> WorkerPC]
    BY <1>5 DEF TypeOK, Spawn, WorkerPC
  <2>3. ASSUME NEW u \in UnitId PROVE WorkerOK(u)'
    <3>1. WorkerOK(u)
      BY DEF TypeOK
    <3>2. CASE u = next
      <4>1. wpc[u] = "unspawned" /\ sampler[u] = "off" /\ wpc'[u] = "loop"
        BY <1>5, <3>1, <3>2, <1>0 DEF TypeOK, Spawn, WorkerOK, SamplerPC
      <4> QED
        BY <1>5, <3>1, <3>2, <4>1, <1>0 DEF TypeOK, Spawn, WorkerOK
    <3>3. CASE u # next
      BY <1>5, <3>1, <3>3, <1>0 DEF TypeOK, Spawn, WorkerOK, UnitId
    <3> QED
      BY <3>2, <3>3
  <2> QED
    BY <1>5, <2>1, <2>2, <2>3 DEF TypeOK, Spawn, MainPC
<1>6. CASE Join
  <2>1. FinalReason \in Reasons \cup {None}
    BY DEF TypeOK, Outcome, FinalReason, Reasons, None
  <2>2. out' \in Outcome /\ out'.succeeded = out.succeeded
    BY <1>6, <2>1 DEF TypeOK, Join, Outcome
  <2>3. Len(out.succeeded) \in Nat
    BY DEF TypeOK, Outcome
  <2> QED
    BY <1>6, <2>2, <2>3 DEF TypeOK, WorkerOK, Join, MainPC
<1>7. ASSUME NEW ok \in BOOLEAN, UndoOne(ok) PROVE TypeOK'
  <2>1. out.succeeded \in Seq(Entry) /\ undoLeft \in 1 .. Len(out.succeeded)
    BY <1>7 DEF TypeOK, Outcome, UndoOne
  <2>2. out.succeeded[undoLeft] \in Entry
    BY <2>1
  <2>3. applied' \subseteq Entry /\ undoFailed' \subseteq Entry
    BY <1>7, <2>2 DEF TypeOK, UndoOne
  <2>4. undoLeft' \in Nat /\ undoLeft' <= Len(out'.succeeded)
    BY <1>7, <2>1 DEF TypeOK, UndoOne
  <2> QED
    BY <1>7, <2>3, <2>4 DEF TypeOK, WorkerOK, UndoOne
<1>8. CASE UndoDone
  <2>1. out' = [out EXCEPT !.succeeded = <<>>] /\ undoLeft' = 0
    BY <1>8 DEF UndoDone
  <2>2. out' \in Outcome
    <3>1. <<>> \in Seq(Entry)
      OBVIOUS
    <3>2. out \in Outcome
      BY DEF TypeOK
    <3> QED
      BY <2>1, <3>1, <3>2 DEF Outcome
  <2>3. out'.succeeded = <<>> /\ Len(out'.succeeded) = 0
    BY <2>1 DEF TypeOK, Outcome
  <2> QED
    BY <1>8, <2>1, <2>2, <2>3 DEF TypeOK, WorkerOK, UndoDone, MainPC
<1>9. ASSUME NEW u \in UnitId, StartEntry(u) PROVE TypeOK'
  <2>1. widx[u] + 1 \in 1 .. Len(Units[u].entries)
    BY <1>9, UnitFacts DEF TypeOK, StartEntry, HasMore
  <2>2. Units[u].entries[widx[u] + 1] \in Entry
    BY <2>1, UnitFacts
  <2>3. reported' \in [Entry -> {"none", "Started", "Completed", "Skipped", "Failed"}]
    BY <1>9, <2>2 DEF TypeOK, StartEntry
  <2>4. wpc' \in [UnitId -> WorkerPC] /\ widx' \in [UnitId -> Nat]
        /\ sampler' \in [UnitId -> SamplerPC]
    BY <1>9, <2>1 DEF TypeOK, StartEntry, WorkerPC, SamplerPC
  <2>5. ASSUME NEW v \in UnitId PROVE WorkerOK(v)'
    BY <1>9, <2>1 DEF TypeOK, WorkerOK, StartEntry
  <2>6. measured' \in [UnitId -> Nat] /\ progress' = progress
    BY <1>9 DEF TypeOK, StartEntry
  <2> QED
    BY <1>9, <2>3, <2>4, <2>5, <2>6 DEF TypeOK, StartEntry
<1>10. ASSUME NEW u \in UnitId, NEW r \in Results, Execute(u, r) PROVE TypeOK'
  <2>1. EntryOf(u) \in Entry
    BY <1>10, EntryOfIsEntry DEF Execute
  <2>2. applied' \subseteq Entry
    BY <1>10, <2>1 DEF TypeOK, Execute
  <2>3. wpc' \in [UnitId -> WorkerPC] /\ wres' \in [UnitId -> Results]
    BY <1>10 DEF TypeOK, Execute, WorkerPC
  <2>4. ASSUME NEW v \in UnitId PROVE WorkerOK(v)'
    BY <1>10 DEF TypeOK, WorkerOK, Execute
  <2> QED
    BY <1>10, <2>2, <2>3, <2>4 DEF TypeOK, Execute
<1>11. ASSUME NEW u \in UnitId, ReportEntry(u) PROVE TypeOK'
  <2>1. EntryOf(u) \in Entry
    BY <1>11, EntryOfIsEntry DEF ReportEntry
  <2>2. Terminal(wres[u]) \in {"Completed", "Skipped", "Failed"}
    BY DEF Terminal
  <2>3. reported' \in [Entry -> {"none", "Started", "Completed", "Skipped", "Failed"}]
    BY <1>11, <2>1, <2>2 DEF TypeOK, ReportEntry
  <2>4. wpc' \in [UnitId -> WorkerPC]
    BY <1>11 DEF TypeOK, ReportEntry, WorkerPC
  <2>5. ASSUME NEW v \in UnitId PROVE WorkerOK(v)'
    BY <1>11 DEF TypeOK, WorkerOK, ReportEntry, SamplerGone
  <2> QED
    BY <1>11, <2>3, <2>4, <2>5 DEF TypeOK, ReportEntry
<1>12. ASSUME NEW u \in UnitId, RecordEntry(u) PROVE TypeOK'
  <2>1. EntryOf(u) \in Entry
    BY <1>12, EntryOfIsEntry DEF RecordEntry
  <2>2. ReasonFor(wres[u]) \in Reasons \cup {None}
    <3>1. wres[u] \in Results
      BY DEF TypeOK
    <3> QED
      BY <3>1 DEF TypeOK, ReasonFor, FailureReason, StrategyReason, Strategies, Results, Reasons, None
  <2>3. AfterRecord(wres[u]) \in {"loop", "halt"}
    BY DEF AfterRecord
  <2>4. out' \in Outcome /\ Len(out.succeeded) <= Len(out'.succeeded)
    BY <1>12, <2>1, <2>2 DEF TypeOK, Outcome, RecordEntry, FirstReason
  <2>5. undoLeft' <= Len(out'.succeeded)
    BY <1>12, <2>4 DEF TypeOK, Outcome, RecordEntry, mainVars
  <2>6. wpc' \in [UnitId -> WorkerPC]
    BY <1>12, <2>3 DEF TypeOK, RecordEntry, WorkerPC
  <2>7. ASSUME NEW v \in UnitId PROVE WorkerOK(v)'
    BY <1>12, <2>3 DEF TypeOK, WorkerOK, RecordEntry
  <2> QED
    BY <1>12, <2>4, <2>5, <2>6, <2>7 DEF TypeOK, RecordEntry
<1>13. ASSUME NEW u \in UnitId, HaltUnit(u) PROVE TypeOK'
  <2>1. ASSUME NEW v \in UnitId PROVE WorkerOK(v)'
    BY <1>13 DEF TypeOK, WorkerOK, HaltUnit
  <2> QED
    BY <1>13, <2>1 DEF TypeOK, HaltUnit, WorkerPC
<1>14. ASSUME NEW u \in UnitId, ExitUnit(u) PROVE TypeOK'
  <2>1. ASSUME NEW v \in UnitId PROVE WorkerOK(v)'
    BY <1>14 DEF TypeOK, WorkerOK, ExitUnit
  <2> QED
    BY <1>14, <2>1 DEF TypeOK, ExitUnit, Released, WorkerPC
<1>15. ASSUME NEW u \in UnitId, SamplerReturn(u) PROVE TypeOK'
  <2>1. ASSUME NEW v \in UnitId PROVE WorkerOK(v)'
    BY <1>15 DEF TypeOK, WorkerOK, SamplerReturn
  <2> QED
    BY <1>15, <2>1 DEF TypeOK, SamplerReturn, SamplerPC
<1>16. ASSUME NEW u \in UnitId, NEW len \in 0 .. MaxLen, SamplerMeasure(u, len)
       PROVE TypeOK'
  <2>1. ASSUME NEW v \in UnitId PROVE WorkerOK(v)'
    BY <1>16 DEF TypeOK, WorkerOK, SamplerMeasure
  <2>2. len \in Nat
    BY <1>16
  <2>3. measured' \in [UnitId -> Nat] /\ sampler' \in [UnitId -> SamplerPC]
    BY <1>16, <2>2 DEF TypeOK, SamplerMeasure, SamplerPC
  <2> QED
    BY <1>16, <2>1, <2>3 DEF TypeOK, SamplerMeasure
<1>17. ASSUME NEW u \in UnitId, SamplerSend(u) PROVE TypeOK'
  <2>1. wpc[u] \in {"execute", "drain"}
    BY <1>17 DEF TypeOK, WorkerOK, SamplerSend
  <2>2. EntryOf(u) \in Entry
    BY <2>1, EntryOfIsEntry
  <2>3. Clamped(u) \in Nat /\ Clamped(u) <= Size[EntryOf(u)]
    BY <2>2 DEF TypeOK, Clamped
  <2>4. progress' \in [Entry -> Nat] /\ \A e \in Entry : progress'[e] <= Size[e]
    BY <1>17, <2>2, <2>3 DEF TypeOK, SamplerSend
  <2>5. sampler' \in [UnitId -> SamplerPC] /\ measured' \in [UnitId -> Nat]
    BY <1>17 DEF TypeOK, SamplerSend, SamplerPC
  <2>6. ASSUME NEW v \in UnitId PROVE WorkerOK(v)'
    BY <1>17, <2>1 DEF TypeOK, WorkerOK, SamplerSend
  <2> QED
    BY <1>17, <2>4, <2>5, <2>6 DEF TypeOK, SamplerSend
<1>18. CASE Cancel
  BY <1>18 DEF TypeOK, WorkerOK, Cancel
<1>19. CASE UNCHANGED vars
  BY <1>19 DEF TypeOK, WorkerOK, vars
<1> QED
  BY <1>1, <1>2, <1>3, <1>4, <1>5, <1>6, <1>7, <1>8, <1>9, <1>10, <1>11, <1>12, <1>13,
     <1>14, <1>15, <1>16, <1>17, <1>18, <1>19
     DEF Next, Main, Worker, Sampler, Returned

(* The shape of every call's state; the sampler's reports stay within the   *)
(* size recorded at scan time, and only a task that is executing or waiting *)
(* for its sampler has one.                                                 *)
THEOREM TypeCorrect == Spec => []TypeOK
<1>1. Init => TypeOK
  BY TypeInit
<1>2. TypeOK /\ [Next]_vars => TypeOK'
  BY TypeStep
<1> QED
  BY <1>1, <1>2, PTL DEF Spec

-----------------------------------------------------------------------------
LEMMA ActiveIsFinite == IsFiniteSet(Active) /\ Cardinality(Active) \in Nat
<1>1. Len(Units) \in Nat
  BY UnitsAssumption
<1>2. IsFiniteSet(1 .. Len(Units))
  BY <1>1, FS_Interval
<1>3. Active \subseteq 1 .. Len(Units)
  BY DEF Active, UnitId
<1>4. IsFiniteSet(Active)
  BY <1>2, <1>3, FS_Subset
<1> QED
  BY <1>4, FS_CardinalityType

(* A step that changes no task between idle and running, and moves no       *)
(* permit, keeps the permit count.                                          *)
LEMMA SameActive ==
  ASSUME PermitConservation, permits' = permits, MainHolds' = MainHolds,
         \A u \in UnitId : Running(u)' = Running(u)
  PROVE  PermitConservation'
<1>1. Active' = Active
  BY DEF Active
<1> QED
  BY <1>1 DEF PermitConservation

(* No permit is ever lost or invented: those free, those of the running     *)
(* tasks and the one in the loop's hand always make up concurrency.max(1),  *)
(* through every break, failed re-check and early exit of a task.           *)
THEOREM PermitsConserved == Spec => []PermitConservation
<1> USE UnitsAssumption, BoundsAssumption
<1>1. Init => PermitConservation
  <2> SUFFICES ASSUME Init PROVE PermitConservation
    OBVIOUS
  <2>1. Active = {}
    BY DEF Init, Active, Running
  <2>2. permits = Permits /\ Permits \in Nat /\ ~MainHolds
    BY DEF Init, Permits, MainHolds
  <2> QED
    BY <2>1, <2>2, FS_EmptySet DEF PermitConservation
<1>2. TypeOK /\ PermitConservation /\ [Next]_vars => PermitConservation'
  <2> SUFFICES ASSUME TypeOK, PermitConservation, [Next]_vars
               PROVE  PermitConservation'
    OBVIOUS
  <2> USE DEF mainVars, sharedVars, workerVars, samplerVars, effectVars
  <2>a. permits \in Nat /\ wpc \in [UnitId -> WorkerPC] /\ Permits \in Nat
    BY DEF TypeOK, Permits
  <2>1. CASE CheckStop
    BY <2>1, SameActive DEF CheckStop, Running, MainHolds
  <2>2. CASE SelectCancelled
    BY <2>2, SameActive DEF SelectCancelled, Running, MainHolds
  <2>3. CASE SelectPermit
    <3>1. Active' = Active
      BY <2>3 DEF SelectPermit, Active, Running
    <3> QED
      BY <2>3, <2>a, <3>1, ActiveIsFinite DEF SelectPermit, PermitConservation, MainHolds
  <2>4. CASE RecheckStop
    <3>1. Active' = Active
      BY <2>4 DEF RecheckStop, Active, Running
    <3> QED
      BY <2>4, <2>a, <3>1, ActiveIsFinite DEF RecheckStop, PermitConservation, MainHolds
  <2>5. CASE Spawn
    <3>1. next \in UnitId /\ wpc[next] = "unspawned"
      BY <2>5 DEF TypeOK, WorkerOK, Spawn, UnitId
    <3>2. Active' = Active \cup {next} /\ next \notin Active
      BY <2>5, <2>a, <3>1 DEF Spawn, Active, Running
    <3>3. Cardinality(Active') = Cardinality(Active) + 1
      BY <3>2, ActiveIsFinite, FS_AddElement
    <3> QED
      BY <2>5, <2>a, <3>3, ActiveIsFinite DEF Spawn, PermitConservation, MainHolds
  <2>6. CASE Join
    BY <2>6, SameActive DEF Join, Running, MainHolds
  <2>7. ASSUME NEW ok \in BOOLEAN, UndoOne(ok) PROVE PermitConservation'
    BY <2>7, SameActive DEF UndoOne, Running, MainHolds
  <2>8. CASE UndoDone
    BY <2>8, SameActive DEF UndoDone, Running, MainHolds
  <2>9. ASSUME NEW u \in UnitId, StartEntry(u) PROVE PermitConservation'
    BY <2>9, <2>a, SameActive DEF StartEntry, Running, MainHolds
  <2>10. ASSUME NEW u \in UnitId, NEW r \in Results, Execute(u, r)
         PROVE  PermitConservation'
    BY <2>10, <2>a, SameActive DEF Execute, Running, MainHolds
  <2>11. ASSUME NEW u \in UnitId, ReportEntry(u) PROVE PermitConservation'
    BY <2>11, <2>a, SameActive DEF ReportEntry, Running, MainHolds
  <2>12. ASSUME NEW u \in UnitId, RecordEntry(u) PROVE PermitConservation'
    BY <2>12, <2>a, SameActive DEF RecordEntry, AfterRecord, Running, MainHolds
  <2>13. ASSUME NEW u \in UnitId, HaltUnit(u) PROVE PermitConservation'
    BY <2>13, <2>a, SameActive DEF HaltUnit, Running, MainHolds
  <2>14. ASSUME NEW u \in UnitId, ExitUnit(u) PROVE PermitConservation'
    <3>1. Active' = Active \ {u} /\ u \in Active
      BY <2>14, <2>a DEF ExitUnit, Active, Running
    <3>2. Cardinality(Active') = Cardinality(Active) - 1
      BY <3>1, ActiveIsFinite, FS_RemoveElement
    <3> QED
      BY <2>14, <2>a, <3>2, ActiveIsFinite
         DEF ExitUnit, Released, PermitConservation, MainHolds
  <2>15. ASSUME NEW u \in UnitId, SamplerReturn(u) PROVE PermitConservation'
    BY <2>15, SameActive DEF SamplerReturn, Running, MainHolds
  <2>16. ASSUME NEW u \in UnitId, NEW len \in 0 .. MaxLen, SamplerMeasure(u, len)
         PROVE  PermitConservation'
    BY <2>16, SameActive DEF SamplerMeasure, Running, MainHolds
  <2>17. ASSUME NEW u \in UnitId, SamplerSend(u) PROVE PermitConservation'
    BY <2>17, SameActive DEF SamplerSend, Running, MainHolds
  <2>18. CASE Cancel
    BY <2>18, SameActive DEF Cancel, Running, MainHolds
  <2>19. CASE UNCHANGED vars
    BY <2>19, SameActive DEF vars, Running, MainHolds
  <2> QED
    BY <2>1, <2>2, <2>3, <2>4, <2>5, <2>6, <2>7, <2>8, <2>9, <2>10, <2>11, <2>12, <2>13,
       <2>14, <2>15, <2>16, <2>17, <2>18, <2>19
       DEF Next, Main, Worker, Sampler, Returned
<1> QED
  BY <1>1, <1>2, TypeCorrect, PTL DEF Spec
-----------------------------------------------------------------------------
(* The reason the caller is told is the first one found: neither a second   *)
(* failing unit nor the token at the join rewrites stopped_early.           *)
THEOREM FirstReasonKept == Spec => FirstReasonStands
<1>1. TypeOK /\ [Next]_vars => [out.stoppedEarly # None => out'.stoppedEarly = out.stoppedEarly]_vars
  <2> SUFFICES ASSUME TypeOK, Next, out.stoppedEarly # None
               PROVE  out'.stoppedEarly = out.stoppedEarly
    BY DEF vars
  <2>1. CASE Main
    <3>1. CASE Join
      BY <3>1 DEF Join, FinalReason, TypeOK, Outcome
    <3>2. CASE UndoDone
      BY <3>2 DEF UndoDone, TypeOK, Outcome
    <3> QED
      BY <2>1, <3>1, <3>2
         DEF Main, CheckStop, SelectCancelled, SelectPermit, RecheckStop, Spawn, UndoOne
  <2>2. ASSUME NEW u \in UnitId, Worker(u) PROVE out'.stoppedEarly = out.stoppedEarly
    BY <2>2 DEF Worker, StartEntry, Execute, ReportEntry, RecordEntry, HaltUnit, ExitUnit,
                FirstReason
  <2>3. ASSUME NEW u \in UnitId, Sampler(u) PROVE out'.stoppedEarly = out.stoppedEarly
    BY <2>3 DEF Sampler, SamplerReturn, SamplerMeasure, SamplerSend
  <2>4. CASE Cancel \/ Returned
    BY <2>4 DEF Cancel, Returned, vars
  <2> QED
    BY <2>1, <2>2, <2>3, <2>4 DEF Next
<1> QED
  BY <1>1, TypeCorrect, PTL DEF Spec, FirstReasonStands

(* Once stop is up the loop arms no further spawn: the one unit that can    *)
(* still start is the one whose last check came before the flag.            *)
THEOREM StopStopsSpawning == Spec => NoSpawnAfterStop
<1>1. [Next]_vars => [stop /\ mpc # "spawn" => mpc' # "spawn"]_vars
  <2> SUFFICES ASSUME Next, stop, mpc # "spawn" PROVE mpc' # "spawn"
    BY DEF vars
  <2> USE DEF mainVars
  <2>1. CASE Main
    BY <2>1 DEF Main, CheckStop, SelectCancelled, SelectPermit, RecheckStop, MayArm, Spawn,
                Join, UndoOne, UndoDone
  <2>2. ASSUME NEW u \in UnitId, Worker(u) PROVE mpc' # "spawn"
    BY <2>2 DEF Worker, StartEntry, Execute, ReportEntry, RecordEntry, HaltUnit, ExitUnit
  <2>3. ASSUME NEW u \in UnitId, Sampler(u) PROVE mpc' # "spawn"
    BY <2>3 DEF Sampler, SamplerReturn, SamplerMeasure, SamplerSend
  <2>4. CASE Cancel \/ Returned
    BY <2>4 DEF Cancel, Returned, vars
  <2> QED
    BY <2>1, <2>2, <2>3, <2>4 DEF Next
<1> QED
  BY <1>1, PTL DEF Spec, NoSpawnAfterStop

-----------------------------------------------------------------------------
(***************************************************************************)
(* Run with one permit, dispatch() stops at the first failure that stops    *)
(* it, for every plan, strategy and mix of results.                         *)
(***************************************************************************)

(* With one permit the running task is the last one spawned, and so is the  *)
(* one that asked to stop: the loop spawns only once no task runs, and has  *)
(* looked at the flag with the permit in its hand.                          *)
TaskSerial(u) ==
  /\ wpc[u] = "unspawned" => wres[u] = "Written"
  /\ wpc[u] = "loop" => ReasonFor(wres[u]) = None
  /\ wpc[u] \in {"exit", "done"} /\ ReasonFor(wres[u]) # None => stop
  /\ Permits = 1 /\ Running(u) => next = u + 1
  /\ Permits = 1 /\ wpc[u] = "done" /\ ReasonFor(wres[u]) # None => next = u + 1

SerialInv ==
  /\ \A u \in UnitId : TaskSerial(u)
  /\ Permits = 1 /\ mpc = "spawn" => ~stop

-----------------------------------------------------------------------------
LEMMA SerialInit == ASSUME Init PROVE SerialInv
  BY DEF Init, SerialInv, TaskSerial, Running

LEMMA HandIsAlone ==
  ASSUME TypeOK, PermitConservation, Permits = 1, MainHolds, NEW u \in UnitId
  PROVE  ~Running(u)
<1>1. permits + Cardinality(Active) + 1 = 1
  BY DEF PermitConservation
<1>2. Cardinality(Active) = 0
  BY <1>1, ActiveIsFinite DEF TypeOK
<1>3. Active = {}
  BY <1>2, ActiveIsFinite, FS_EmptySet
<1> QED
  BY <1>3 DEF Active

(* A step of the loop that spawns nothing, of a sampler or of the caller.   *)
LEMMA QuietSerial ==
  ASSUME SerialInv, UNCHANGED <<strategy, next, stop, wpc, wres>>,
         mpc' = "spawn" => mpc = "spawn" \/ ~stop
  PROVE  SerialInv'
<1>1. ASSUME NEW u \in UnitId PROVE TaskSerial(u)'
  <2>1. ReasonFor(wres[u])' = ReasonFor(wres[u])
    BY DEF ReasonFor
  <2> QED
    BY <2>1 DEF SerialInv, TaskSerial, Running
<1> QED
  BY <1>1 DEF SerialInv

LEMMA SpawnSerial ==
  ASSUME SerialInv, TypeOK, PermitConservation, Spawn PROVE SerialInv'
<1>1. /\ mpc = "spawn" /\ mpc' = "check" /\ next' = next + 1
      /\ wpc' = [wpc EXCEPT ![next] = "loop"] /\ UNCHANGED <<strategy, stop, wres>>
  BY DEF Spawn, sharedVars
<1>2. next \in UnitId /\ wpc[next] = "unspawned" /\ next \in Nat
  BY <1>1, UnitsAssumption DEF TypeOK, WorkerOK, UnitId
<1>3. ASSUME NEW u \in UnitId PROVE TaskSerial(u)'
  <2>1. ReasonFor(wres[u])' = ReasonFor(wres[u]) /\ ReasonFor("Written") = None
    BY <1>1 DEF ReasonFor
  <2>2. CASE u = next
    BY <1>1, <1>2, <2>1, <2>2 DEF SerialInv, TaskSerial, Running, TypeOK
  <2>3. CASE u # next
    <3>1. wpc'[u] = wpc[u]
      BY <1>1, <2>3 DEF TypeOK
    <3>2. Permits = 1 => ~Running(u) /\ ~stop
      BY <1>1, HandIsAlone DEF MainHolds, SerialInv
    <3>3. Permits = 1 => ~(wpc[u] = "done" /\ ReasonFor(wres[u]) # None)
      BY <3>2 DEF SerialInv, TaskSerial
    <3> QED
      BY <1>1, <2>1, <3>1, <3>2, <3>3 DEF SerialInv, TaskSerial, Running
  <2> QED
    BY <2>2, <2>3
<1> QED
  BY <1>1, <1>3 DEF SerialInv

LEMMA WorkerSerial ==
  ASSUME SerialInv, TypeOK, PermitConservation, NEW u \in UnitId, Worker(u) PROVE SerialInv'
<1> USE DEF mainVars, sharedVars, workerVars, samplerVars, effectVars
<1>1. /\ UNCHANGED <<strategy, mpc, next>> /\ Running(u)
      /\ stop' = stop \/ (stop' /\ wpc[u] = "halt")
      /\ \E pc \in WorkerPC : wpc' = [wpc EXCEPT ![u] = pc]
      /\ \E r \in Results : wres' = [wres EXCEPT ![u] = r]
  <2>1. wres = [wres EXCEPT ![u] = wres[u]] /\ wres[u] \in Results
    BY DEF TypeOK
  <2> QED
    BY <2>1 DEF Worker, StartEntry, Execute, ReportEntry, RecordEntry, AfterRecord, HaltUnit,
                ExitUnit, Running, WorkerPC
<1>2. ASSUME NEW v \in UnitId, v # u PROVE TaskSerial(v)'
  <2>1. wpc'[v] = wpc[v] /\ wres'[v] = wres[v] /\ (stop => stop')
    BY <1>1, <1>2 DEF TypeOK
  <2>2. ReasonFor(wres[v])' = ReasonFor(wres[v])
    BY <1>1, <2>1 DEF ReasonFor
  <2> QED
    BY <1>1, <1>2, <2>1, <2>2 DEF SerialInv, TaskSerial, Running
<1>3. /\ wpc'[u] # "unspawned"
      /\ wpc'[u] = "loop" => ReasonFor(wres'[u]) = None
      /\ wpc'[u] \in {"exit", "done"} /\ ReasonFor(wres'[u]) # None => stop'
  <2>1. CASE StartEntry(u) \/ (\E r \in Results : Execute(u, r)) \/ ReportEntry(u)
    BY <2>1 DEF StartEntry, Execute, ReportEntry, TypeOK
  <2>2. CASE RecordEntry(u)
    BY <2>2 DEF RecordEntry, AfterRecord, TypeOK
  <2>3. CASE HaltUnit(u)
    BY <2>3 DEF HaltUnit, TypeOK
  <2>4. CASE ExitUnit(u)
    BY <2>4 DEF ExitUnit, TypeOK, SerialInv, TaskSerial
  <2> QED
    BY <2>1, <2>2, <2>3, <2>4 DEF Worker
<1>4. TaskSerial(u)'
  <2>1. ReasonFor(wres[u])' = ReasonFor(wres'[u])
    BY <1>1 DEF ReasonFor
  <2>2. Permits = 1 => next' = u + 1
    BY <1>1 DEF SerialInv, TaskSerial
  <2> QED
    BY <1>3, <2>1, <2>2 DEF TaskSerial
<1>5. Permits = 1 => mpc # "spawn"
  BY <1>1, HandIsAlone DEF MainHolds
<1> QED
  BY <1>1, <1>2, <1>4, <1>5 DEF SerialInv

LEMMA SerialStep ==
  ASSUME SerialInv, TypeOK, PermitConservation, [Next]_vars PROVE SerialInv'
<1> USE DEF mainVars, sharedVars, workerVars, samplerVars, effectVars
<1>1. CASE CheckStop \/ SelectCancelled \/ SelectPermit \/ RecheckStop \/ Join
           \/ (\E ok \in BOOLEAN : UndoOne(ok)) \/ UndoDone \/ Cancel \/ UNCHANGED vars
  <2>1. UNCHANGED <<strategy, next, stop, wpc, wres>> /\ (mpc' = "spawn" => mpc = "spawn" \/ ~stop)
    BY <1>1 DEF CheckStop, SelectCancelled, SelectPermit, RecheckStop, MayArm, Join, UndoOne,
                UndoDone, Cancel, vars
  <2> QED
    BY <2>1, QuietSerial
<1>2. ASSUME NEW u \in UnitId, Sampler(u) PROVE SerialInv'
  <2>1. UNCHANGED <<strategy, mpc, next, stop, wpc, wres>>
    BY <1>2 DEF Sampler, SamplerReturn, SamplerMeasure, SamplerSend
  <2> QED
    BY <2>1, QuietSerial
<1> QED
  BY <1>1, <1>2, SpawnSerial, WorkerSerial DEF Next, Main, Returned

(* Run serially, a failure that stops the operation keeps every later unit  *)
(* from starting, though the flag goes up only after the mutex is released  *)
(* and the loop may already be parked on the failing unit's permit.         *)
THEOREM SerialStops == Spec => []SerialStop
<1>1. Init => SerialInv
  BY SerialInit
<1>2. SerialInv /\ TypeOK /\ PermitConservation /\ [Next]_vars => SerialInv'
  BY SerialStep
<1>3. SerialInv /\ TypeOK => SerialStop
  <2> SUFFICES ASSUME SerialInv, TypeOK, Permits = 1, NEW u \in UnitId, NEW v \in UnitId, u < v,
                      ReasonFor(wres[u]) # None, wpc[u] \in {"halt", "exit", "done"}
               PROVE  wpc[v] = "unspawned"
    BY DEF SerialStop
  <2>1. next = u + 1
    BY DEF SerialInv, TaskSerial, Running
  <2>2. u \in Nat /\ v \in Nat
    BY UnitsAssumption DEF UnitId
  <2> QED
    BY <2>1, <2>2 DEF TypeOK, WorkerOK
<1> QED
  BY <1>1, <1>2, <1>3, TypeCorrect, PermitsConserved, PTL DEF Spec

-----------------------------------------------------------------------------
(***************************************************************************)
(* One verdict per entry, for every plan, concurrency, strategy and mix of  *)
(* results: the lists of the outcome agree with the events.                 *)
(***************************************************************************)

At(u, i) == Units[u].entries[i]
InHand(u) == wpc[u] \in {"execute", "drain", "record"}
Listed == Entries(out.succeeded) \cup Entries(out.skipped) \cup Entries(out.failed)
NoRepeat(list) == \A i, j \in DOMAIN list : list[i] = list[j] => i = j
Verdicts == {"Completed", "Skipped", "Failed"}

(* Each list names an entry once, and those announced with its verdict.     *)
ListInv ==
  /\ NoRepeat(out.succeeded) /\ NoRepeat(out.skipped) /\ NoRepeat(out.failed)
  /\ \A e \in Entries(out.succeeded) : reported[e] = "Completed"
  /\ \A e \in Entries(out.skipped) : reported[e] = "Skipped"
  /\ \A e \in Entries(out.failed) : reported[e] = "Failed"
  /\ Listed \subseteq Planned
  /\ \A e \in Entry \ Planned : reported[e] = "none"

(* An entry a task has not come to is not announced, the one in its hand    *)
(* not listed, and the ones behind it are, until a rollback.                *)
TaskInv(u) ==
  /\ \A i \in 1 .. Len(Units[u].entries) : i > widx[u] => reported[At(u, i)] = "none"
  /\ wpc[u] \in {"execute", "drain"} => reported[EntryOf(u)] = "Started"
  /\ wpc[u] = "record" => reported[EntryOf(u)] = Terminal(wres[u]) /\ EntryOf(u) \notin Listed
  /\ mpc # "returned" =>
       \A i \in 1 .. widx[u] : i < widx[u] \/ ~InHand(u) => At(u, i) \in Listed

(* Once the tasks are joined nothing of the plan runs any more.             *)
JoinedInv == mpc \in {"undo", "returned"} => AllJoined

(* The lists of a call that returned are the events, less what was undone.  *)
SaidAs(kind) == {e \in Entry : reported[e] = kind}
FinalInv ==
  mpc = "returned" =>
    /\ Entries(out.succeeded) = IF RollsBack(out.stoppedEarly) THEN {} ELSE SaidAs("Completed")
    /\ Entries(out.skipped) = SaidAs("Skipped")
    /\ Entries(out.failed) = SaidAs("Failed")
    /\ SaidAs("Started") = {}

VerdictInv ==
  /\ ListInv /\ JoinedInv /\ FinalInv
  /\ \A u \in UnitId : TaskInv(u)
  /\ mpc = "undo" => RollsBack(out.stoppedEarly)

-----------------------------------------------------------------------------
(* Lists of a record: what an append adds.                                  *)
LEMMA AppendFacts ==
  ASSUME NEW list \in Seq(Entry), NEW e \in Entry
  PROVE  /\ Entries(Append(list, e)) = Entries(list) \cup {e}
         /\ NoRepeat(list) /\ e \notin Entries(list) => NoRepeat(Append(list, e))
<1>1. /\ Len(list) \in Nat /\ DOMAIN list = 1 .. Len(list)
      /\ DOMAIN Append(list, e) = 1 .. Len(list) + 1
      /\ Append(list, e)[Len(list) + 1] = e
      /\ \A i \in 1 .. Len(list) : Append(list, e)[i] = list[i]
  OBVIOUS
<1>2. 1 .. Len(list) + 1 = (1 .. Len(list)) \cup {Len(list) + 1}
  BY <1>1
<1>3. Entries(Append(list, e)) = Entries(list) \cup {e}
  BY <1>1, <1>2 DEF Entries
<1>4. ASSUME NoRepeat(list), e \notin Entries(list) PROVE NoRepeat(Append(list, e))
  BY <1>1, <1>2, <1>4 DEF Entries, NoRepeat
<1> QED
  BY <1>3, <1>4

(* Different places of the plan hold different entries.                     *)
LEMMA PlaceFacts ==
  ASSUME NEW u \in UnitId, NEW i \in 1 .. Len(Units[u].entries)
  PROVE  /\ At(u, i) \in Entry /\ At(u, i) \in Planned
         /\ \A v \in UnitId : \A j \in 1 .. Len(Units[v].entries) :
              At(u, i) = At(v, j) => u = v /\ i = j
<1>1. DOMAIN Units = UnitId
  BY UnitsAssumption DEF UnitId
<1>2. \A v \in UnitId : DOMAIN Units[v].entries = 1 .. Len(Units[v].entries)
  BY UnitFacts
<1>3. At(u, i) \in Entry
  BY UnitFacts DEF At
<1>4. At(u, i) \in EntriesOf(u)
  BY <1>2 DEF At, EntriesOf
<1> QED
  BY <1>1, <1>2, <1>3, <1>4, DistinctAssumption DEF At, Planned

LEMMA PlannedHasPlace ==
  ASSUME NEW e \in Planned
  PROVE  \E u \in UnitId : \E i \in 1 .. Len(Units[u].entries) : e = At(u, i)
<1>1. PICK u \in UnitId : e \in EntriesOf(u)
  BY DEF Planned
<1>2. DOMAIN Units[u].entries = 1 .. Len(Units[u].entries)
  BY UnitFacts
<1> QED
  BY <1>1, <1>2 DEF EntriesOf, At

(* A task is at a place of the plan while an entry is in its hand.          *)
LEMMA HandFacts ==
  ASSUME TypeOK, NEW u \in UnitId
  PROVE  /\ widx[u] \in 0 .. Len(Units[u].entries)
         /\ InHand(u) => widx[u] \in 1 .. Len(Units[u].entries)
         /\ EntryOf(u) = At(u, widx[u])
  BY UnitFacts DEF TypeOK, WorkerOK, InHand, EntryOf, At

(* Two lists that share no entry.                                          *)
LEMMA ConcatFacts ==
  ASSUME NEW a \in Seq(Entry), NEW b \in Seq(Entry), NoRepeat(a), NoRepeat(b),
         Entries(a) \cap Entries(b) = {}
  PROVE  a \o b \in Seq(Entry) /\ NoRepeat(a \o b) /\ Entries(a \o b) = Entries(a) \cup Entries(b)
<1>1. /\ Len(a) \in Nat /\ Len(b) \in Nat /\ a \o b \in Seq(Entry)
      /\ DOMAIN a = 1 .. Len(a) /\ DOMAIN b = 1 .. Len(b) /\ DOMAIN (a \o b) = 1 .. Len(a) + Len(b)
  OBVIOUS
<1>2. \A i \in 1 .. Len(a) : (a \o b)[i] = a[i]
  OBVIOUS
<1>3. \A i \in 1 .. Len(b) : (a \o b)[Len(a) + i] = b[i]
  OBVIOUS
<1>4. \A i \in 1 .. Len(a) + Len(b) : i \in 1 .. Len(a) \/ \E j \in 1 .. Len(b) : i = Len(a) + j
  <2> TAKE i \in 1 .. Len(a) + Len(b)
  <2>1. CASE i <= Len(a)
    BY <1>1, <2>1
  <2>2. CASE i > Len(a)
    <3>1. i - Len(a) \in 1 .. Len(b) /\ i = Len(a) + (i - Len(a))
      BY <1>1, <2>2
    <3> QED
      BY <3>1, Zenon
  <2> QED
    BY <1>1, <2>1, <2>2
<1>5. \A i \in 1 .. Len(a) : a[i] \in Entries(a)
  BY <1>1 DEF Entries
<1>6. \A i \in 1 .. Len(b) : b[i] \in Entries(b)
  BY <1>1 DEF Entries
<1>7. Entries(a \o b) = Entries(a) \cup Entries(b)
  <2>1. ASSUME NEW i \in 1 .. Len(a) + Len(b) PROVE (a \o b)[i] \in Entries(a) \cup Entries(b)
    <3>1. CASE i \in 1 .. Len(a)
      BY <1>2, <1>5, <3>1
    <3>2. CASE \E j \in 1 .. Len(b) : i = Len(a) + j
      BY <1>3, <1>6, <3>2
    <3> QED
      BY <1>4, <3>1, <3>2
  <2>2. Entries(a) \subseteq Entries(a \o b)
    BY <1>1, <1>2 DEF Entries
  <2>3. Entries(b) \subseteq Entries(a \o b)
    <3>1. \A i \in 1 .. Len(b) : Len(a) + i \in 1 .. Len(a) + Len(b)
      BY <1>1
    <3> QED
      BY <1>1, <1>3, <3>1 DEF Entries
  <2>4. Entries(a \o b) = {(a \o b)[i] : i \in 1 .. Len(a) + Len(b)}
    BY <1>1 DEF Entries
  <2> QED
    BY <2>1, <2>2, <2>3, <2>4
<1>8. NoRepeat(a \o b)
  <2>1. SUFFICES ASSUME NEW i \in 1 .. Len(a) + Len(b), NEW j \in 1 .. Len(a) + Len(b),
                        (a \o b)[i] = (a \o b)[j]
                 PROVE  i = j
    BY <1>1 DEF NoRepeat
  <2>2. CASE i \in 1 .. Len(a) /\ j \in 1 .. Len(a)
    BY <1>1, <1>2, <2>1, <2>2 DEF NoRepeat
  <2>3. CASE i \in 1 .. Len(a) /\ \E k \in 1 .. Len(b) : j = Len(a) + k
    BY <1>2, <1>3, <1>5, <1>6, <2>1, <2>3
  <2>4. CASE j \in 1 .. Len(a) /\ \E k \in 1 .. Len(b) : i = Len(a) + k
    BY <1>2, <1>3, <1>5, <1>6, <2>1, <2>4
  <2>5. CASE (\E k \in 1 .. Len(b) : i = Len(a) + k) /\ \E k \in 1 .. Len(b) : j = Len(a) + k
    <3>1. PICK k \in 1 .. Len(b), l \in 1 .. Len(b) : i = Len(a) + k /\ j = Len(a) + l
      BY <2>5
    <3>2. b[k] = b[l]
      BY <1>3, <2>1, <3>1
    <3> QED
      BY <1>1, <3>1, <3>2 DEF NoRepeat
  <2> QED
    BY <1>4, <2>2, <2>3, <2>4, <2>5
<1> QED
  BY <1>1, <1>7, <1>8

(* The lists never share an entry, so the verdicts in a row do not repeat.  *)
LEMMA VerdictsOnce ==
  ASSUME out \in Outcome, ListInv
  PROVE  NoRepeat(out.succeeded \o out.skipped \o out.failed)
<1>1. out.succeeded \in Seq(Entry) /\ out.skipped \in Seq(Entry) /\ out.failed \in Seq(Entry)
  BY DEF Outcome
<1>2. /\ Entries(out.succeeded) \cap Entries(out.skipped) = {}
      /\ (Entries(out.succeeded) \cup Entries(out.skipped)) \cap Entries(out.failed) = {}
  BY DEF ListInv
<1>3. /\ out.succeeded \o out.skipped \in Seq(Entry) /\ NoRepeat(out.succeeded \o out.skipped)
      /\ Entries(out.succeeded \o out.skipped) = Entries(out.succeeded) \cup Entries(out.skipped)
  BY <1>1, <1>2, ConcatFacts DEF ListInv
<1> QED
  BY <1>1, <1>2, <1>3, ConcatFacts DEF ListInv

-----------------------------------------------------------------------------
LEMMA VerdictInit == ASSUME Init PROVE VerdictInv
<1>1. ListInv
  BY DEF Init, ListInv, NoRepeat, Entries, Listed
<1>2. ASSUME NEW u \in UnitId PROVE TaskInv(u)
  <2>1. \A i \in 1 .. Len(Units[u].entries) : At(u, i) \in Entry
    BY PlaceFacts
  <2> QED
    BY <2>1 DEF Init, TaskInv
<1> QED
  BY <1>1, <1>2 DEF Init, VerdictInv, JoinedInv, FinalInv

(* Steps that touch no list, no announcement and no task.                   *)
LEMMA QuietVerdict ==
  ASSUME VerdictInv, UNCHANGED <<strategy, out, reported, wpc, widx, wres>>,
         mpc' = mpc \/ {mpc, mpc'} \cap {"undo", "returned"} = {}
  PROVE  VerdictInv'
<1>1. ListInv' /\ JoinedInv' /\ FinalInv'
  BY DEF VerdictInv, ListInv, JoinedInv, FinalInv, Listed, AllJoined, Running, SaidAs, RollsBack
<1>2. \A u \in UnitId : TaskInv(u)'
  BY DEF VerdictInv, TaskInv, InHand, EntryOf, Listed
<1> QED
  BY <1>1, <1>2 DEF VerdictInv, RollsBack

(* A task only runs before the join.                                        *)
LEMMA RunsBeforeJoin ==
  ASSUME VerdictInv, NEW u \in UnitId, wpc[u] \notin {"unspawned", "done"}
  PROVE  mpc \notin {"undo", "returned"}
  BY DEF VerdictInv, JoinedInv, AllJoined, Running

(* Steps of a task between entries: spawned, stopping, ending.              *)
LEMMA IdleVerdict ==
  ASSUME VerdictInv, TypeOK, NEW u \in UnitId, ~InHand(u),
         NEW pc, pc \notin {"execute", "drain", "record"},
         wpc' = [wpc EXCEPT ![u] = pc], UNCHANGED <<strategy, out, reported, widx, wres>>,
         {mpc, mpc'} \cap {"undo", "returned"} = {}
  PROVE  VerdictInv'
<1>1. ListInv' /\ JoinedInv' /\ FinalInv'
  BY DEF VerdictInv, ListInv, JoinedInv, FinalInv, Listed
<1>2. \A v \in UnitId : wpc'[v] = IF v = u THEN pc ELSE wpc[v]
  BY DEF TypeOK
<1>3. ASSUME NEW v \in UnitId PROVE TaskInv(v)'
  <2>1. TaskInv(v) /\ mpc # "returned"
    BY DEF VerdictInv
  <2>2. /\ widx'[v] = widx[v] /\ EntryOf(v)' = EntryOf(v) /\ wres'[v] = wres[v]
        /\ reported' = reported /\ Listed' = Listed
    BY DEF EntryOf, Listed
  <2>3. IF v = u THEN ~InHand(v)' /\ ~InHand(v) ELSE wpc'[v] = wpc[v]
    BY <1>2 DEF InHand
  <2> QED
    BY <2>1, <2>2, <2>3 DEF TaskInv, InHand
<1> QED
  BY <1>1, <1>3 DEF VerdictInv

LEMMA StartVerdict ==
  ASSUME VerdictInv, TypeOK, NEW u \in UnitId, StartEntry(u)
  PROVE  VerdictInv'
<1> DEFINE k == widx[u] + 1  e == At(u, k)
<1>1. /\ wpc[u] = "loop" /\ k \in 1 .. Len(Units[u].entries) /\ widx[u] \in Nat
      /\ wpc' = [wpc EXCEPT ![u] = "execute"] /\ widx' = [widx EXCEPT ![u] = k]
      /\ reported' = [reported EXCEPT ![e] = "Started"]
      /\ UNCHANGED <<strategy, mpc, out, wres>>
  BY HandFacts DEF StartEntry, HasMore, At, mainVars, TypeOK
<1>2. mpc \notin {"undo", "returned"}
  BY <1>1, RunsBeforeJoin
<1>3. e \in Entry /\ e \in Planned /\ reported[e] = "none"
  BY <1>1, PlaceFacts DEF VerdictInv, TaskInv
<1>4. e \notin Listed
  BY <1>3 DEF VerdictInv, ListInv, Listed
<1>5. \A x \in Entry : reported'[x] = IF x = e THEN "Started" ELSE reported[x]
  BY <1>1, <1>3 DEF TypeOK
<1>6. \A v \in UnitId : /\ wpc'[v] = IF v = u THEN "execute" ELSE wpc[v]
                        /\ widx'[v] = IF v = u THEN k ELSE widx[v]
  BY <1>1 DEF TypeOK
<1>7. ListInv'
  <2>1. \A x \in Listed : x \in Entry /\ x # e
    BY <1>4 DEF TypeOK, Outcome, Listed, Entries
  <2> QED
    BY <1>1, <1>3, <1>5, <2>1 DEF VerdictInv, ListInv, Listed
<1>8. ASSUME NEW v \in UnitId PROVE TaskInv(v)'
  <2> USE DEF VerdictInv
  <2>1. \A i \in 1 .. Len(Units[v].entries) :
          i > widx'[v] => At(v, i) \in Entry /\ reported'[At(v, i)] = "none"
    <3>1. ASSUME NEW i \in 1 .. Len(Units[v].entries), i > widx'[v]
          PROVE  At(v, i) \in Entry /\ reported'[At(v, i)] = "none"
      <4>1. i > widx[v] /\ At(v, i) \in Entry /\ (v = u => i # k)
        BY <1>1, <1>6, <3>1, PlaceFacts
      <4>2. At(v, i) # e
        BY <1>1, <4>1, PlaceFacts
      <4> QED
        BY <1>5, <4>1, <4>2 DEF TaskInv
    <3> QED
      BY <3>1
  <2>2. CASE v = u
    <3>1. EntryOf(u)' = e /\ reported'[e] = "Started"
      BY <1>3, <1>5, <1>6 DEF EntryOf, At
    <3>2. \A i \in 1 .. widx[u] : At(u, i) \in Listed
      BY <1>1, <1>2 DEF TaskInv, InHand
    <3>3. \A i \in 1 .. k : i < k => i \in 1 .. widx[u]
      BY <1>1
    <3> QED
      BY <1>1, <1>6, <2>1, <2>2, <3>1, <3>2, <3>3 DEF TaskInv, InHand, Listed
  <2>3. CASE v # u
    <3>1. wpc'[v] = wpc[v] /\ widx'[v] = widx[v] /\ EntryOf(v)' = EntryOf(v) /\ wres'[v] = wres[v]
      BY <1>1, <1>6, <2>3 DEF EntryOf
    <3>2. InHand(v) => EntryOf(v) \in Entry /\ EntryOf(v) # e
      BY <1>1, <2>3, HandFacts, PlaceFacts
    <3> QED
      BY <1>1, <1>5, <2>1, <3>1, <3>2 DEF TaskInv, InHand, Listed
  <2> QED
    BY <2>2, <2>3
<1> QED
  BY <1>1, <1>2, <1>7, <1>8 DEF VerdictInv, JoinedInv, FinalInv

LEMMA ExecuteVerdict ==
  ASSUME VerdictInv, TypeOK, NEW u \in UnitId, NEW r \in Results, Execute(u, r)
  PROVE  VerdictInv'
<1>1. /\ wpc[u] = "execute" /\ wpc' = [wpc EXCEPT ![u] = "drain"] /\ wres' = [wres EXCEPT ![u] = r]
      /\ UNCHANGED <<strategy, mpc, out, reported, widx>>
  BY DEF Execute, mainVars, samplerVars
<1>2. mpc \notin {"undo", "returned"}
  BY <1>1, RunsBeforeJoin
<1>3. \A v \in UnitId : /\ wpc'[v] = IF v = u THEN "drain" ELSE wpc[v]
                        /\ wres'[v] = IF v = u THEN r ELSE wres[v]
  BY <1>1 DEF TypeOK
<1>4. ListInv' /\ Listed' = Listed
  BY <1>1 DEF VerdictInv, ListInv, Listed
<1>5. ASSUME NEW v \in UnitId PROVE TaskInv(v)'
  <2>1. TaskInv(v) /\ EntryOf(v)' = EntryOf(v) /\ widx'[v] = widx[v]
    BY <1>1 DEF VerdictInv, EntryOf
  <2> QED
    BY <1>1, <1>3, <1>4, <2>1 DEF TaskInv, InHand
<1> QED
  BY <1>1, <1>2, <1>4, <1>5 DEF VerdictInv, JoinedInv, FinalInv

(* The verdict is announced before it is listed.                            *)
LEMMA ReportVerdict ==
  ASSUME VerdictInv, TypeOK, NEW u \in UnitId, ReportEntry(u)
  PROVE  VerdictInv'
<1> DEFINE e == EntryOf(u)
<1>1. /\ wpc[u] = "drain" /\ wpc' = [wpc EXCEPT ![u] = "record"]
      /\ reported' = [reported EXCEPT ![e] = Terminal(wres[u])]
      /\ UNCHANGED <<strategy, mpc, out, widx, wres>>
  BY DEF ReportEntry, mainVars
<1>2. mpc \notin {"undo", "returned"}
  BY <1>1, RunsBeforeJoin
<1>3. /\ widx[u] \in 1 .. Len(Units[u].entries) /\ e = At(u, widx[u])
      /\ e \in Entry /\ e \in Planned /\ reported[e] = "Started"
  BY <1>1, HandFacts, PlaceFacts DEF InHand, VerdictInv, TaskInv
<1>4. e \notin Listed
  BY <1>3 DEF VerdictInv, ListInv, Listed
<1>5. \A x \in Entry : reported'[x] = IF x = e THEN Terminal(wres[u]) ELSE reported[x]
  BY <1>1, <1>3 DEF TypeOK
<1>6. \A v \in UnitId : wpc'[v] = IF v = u THEN "record" ELSE wpc[v]
  BY <1>1 DEF TypeOK
<1>7. ListInv' /\ Listed' = Listed
  <2>1. \A x \in Listed : x \in Entry /\ x # e
    BY <1>4 DEF TypeOK, Outcome, Listed, Entries
  <2> QED
    BY <1>1, <1>3, <1>5, <2>1 DEF VerdictInv, ListInv, Listed
<1>8. ASSUME NEW v \in UnitId PROVE TaskInv(v)'
  <2>1. TaskInv(v) /\ EntryOf(v)' = EntryOf(v) /\ widx'[v] = widx[v] /\ wres'[v] = wres[v]
    BY <1>1 DEF VerdictInv, EntryOf
  <2>2. \A i \in 1 .. Len(Units[v].entries) : i > widx[v] => reported'[At(v, i)] = "none"
    BY <1>3, <1>5, <2>1, PlaceFacts DEF TaskInv
  <2>3. CASE v = u
    BY <1>1, <1>2, <1>3, <1>4, <1>5, <1>6, <1>7, <2>1, <2>2, <2>3 DEF TaskInv, InHand
  <2>4. CASE v # u
    <3>1. InHand(v) => EntryOf(v) \in Entry /\ EntryOf(v) # e
      BY <1>3, <2>4, HandFacts, PlaceFacts
    <3> QED
      BY <1>1, <1>5, <1>6, <1>7, <2>1, <2>2, <2>4, <3>1 DEF TaskInv, InHand
  <2> QED
    BY <2>3, <2>4
<1> QED
  BY <1>1, <1>2, <1>7, <1>8 DEF VerdictInv, JoinedInv, FinalInv

(* The push under the mutex: the list the verdict belongs to.               *)
LEMMA RecordVerdict ==
  ASSUME VerdictInv, TypeOK, NEW u \in UnitId, RecordEntry(u)
  PROVE  VerdictInv'
<1> DEFINE e == EntryOf(u)  r == wres[u]
<1>1. /\ wpc[u] = "record" /\ wpc' = [wpc EXCEPT ![u] = AfterRecord(r)]
      /\ out'.succeeded = IF r = "Written" THEN Append(out.succeeded, e) ELSE out.succeeded
      /\ out'.skipped = IF r = "Skipped" THEN Append(out.skipped, e) ELSE out.skipped
      /\ out'.failed = IF r \in {"Error", "Fatal"} THEN Append(out.failed, e) ELSE out.failed
      /\ UNCHANGED <<strategy, mpc, reported, widx, wres>>
  BY DEF RecordEntry, mainVars
<1>2. mpc \notin {"undo", "returned"}
  BY <1>1, RunsBeforeJoin
<1>3. /\ widx[u] \in 1 .. Len(Units[u].entries) /\ e = At(u, widx[u])
      /\ e \in Entry /\ e \in Planned /\ reported[e] = Terminal(r) /\ e \notin Listed
  BY <1>1, HandFacts, PlaceFacts DEF InHand, VerdictInv, TaskInv
<1>4. out.succeeded \in Seq(Entry) /\ out.skipped \in Seq(Entry) /\ out.failed \in Seq(Entry)
  BY DEF TypeOK, Outcome
<1>5. r \in Results
  BY DEF TypeOK
<1>6. /\ Entries(out'.succeeded) = Entries(out.succeeded) \cup (IF r = "Written" THEN {e} ELSE {})
      /\ Entries(out'.skipped) = Entries(out.skipped) \cup (IF r = "Skipped" THEN {e} ELSE {})
      /\ Entries(out'.failed) = Entries(out.failed) \cup (IF r \in {"Error", "Fatal"} THEN {e} ELSE {})
  BY <1>1, <1>3, <1>4, AppendFacts
<1>7. Listed' = Listed \cup {e}
  BY <1>5, <1>6 DEF Listed, Results
<1>8. NoRepeat(out'.succeeded) /\ NoRepeat(out'.skipped) /\ NoRepeat(out'.failed)
  BY <1>1, <1>3, <1>4, AppendFacts DEF Listed, VerdictInv, ListInv
<1>9. ListInv'
  <2>1. /\ \A x \in Entries(out'.succeeded) : reported'[x] = "Completed"
        /\ \A x \in Entries(out'.skipped) : reported'[x] = "Skipped"
        /\ \A x \in Entries(out'.failed) : reported'[x] = "Failed"
    BY <1>1, <1>3, <1>6 DEF VerdictInv, ListInv, Terminal
  <2> QED
    BY <1>1, <1>3, <1>7, <1>8, <2>1 DEF VerdictInv, ListInv
<1>10. \A v \in UnitId : wpc'[v] = IF v = u THEN AfterRecord(r) ELSE wpc[v]
  BY <1>1 DEF TypeOK
<1>11. ASSUME NEW v \in UnitId PROVE TaskInv(v)'
  <2>1. TaskInv(v) /\ EntryOf(v)' = EntryOf(v) /\ widx'[v] = widx[v] /\ wres'[v] = wres[v]
    BY <1>1 DEF VerdictInv, EntryOf
  <2>2. CASE v = u
    <3>1. AfterRecord(r) \in {"loop", "halt"}
      BY DEF AfterRecord
    <3>2. \A i \in 1 .. widx[u] : At(u, i) \in Listed'
      <4>1. \A i \in 1 .. widx[u] : i < widx[u] \/ i = widx[u]
        BY <1>3
      <4> QED
        BY <1>2, <1>3, <1>7, <2>1, <2>2, <4>1 DEF TaskInv
    <3> QED
      BY <1>1, <1>10, <2>1, <2>2, <3>1, <3>2 DEF TaskInv, InHand
  <2>3. CASE v # u
    <3>1. InHand(v) => EntryOf(v) # e
      BY <1>3, <2>3, HandFacts, PlaceFacts
    <3> QED
      BY <1>1, <1>7, <1>10, <2>1, <2>3, <3>1 DEF TaskInv, InHand
  <2> QED
    BY <2>2, <2>3
<1> QED
  BY <1>1, <1>2, <1>9, <1>11 DEF VerdictInv, JoinedInv, FinalInv

-----------------------------------------------------------------------------
(* With every task joined, what was announced is what the lists hold.       *)
LEMMA SaidIsListed ==
  ASSUME VerdictInv, TypeOK, AllJoined, mpc # "returned"
  PROVE  /\ SaidAs("Completed") = Entries(out.succeeded)
         /\ SaidAs("Skipped") = Entries(out.skipped)
         /\ SaidAs("Failed") = Entries(out.failed)
         /\ SaidAs("Started") = {}
<1> USE DEF VerdictInv
<1>1. ASSUME NEW e \in Entry, reported[e] # "none" PROVE e \in Listed
  <2>1. e \in Planned
    BY <1>1 DEF ListInv
  <2>2. PICK u \in UnitId : \E i \in 1 .. Len(Units[u].entries) : e = At(u, i)
    BY <2>1, PlannedHasPlace
  <2>3. PICK i \in 1 .. Len(Units[u].entries) : e = At(u, i)
    BY <2>2
  <2>4. widx[u] \in Nat /\ ~(i > widx[u])
    BY <1>1, <2>3 DEF TaskInv, TypeOK
  <2>5. ~InHand(u) /\ i \in 1 .. widx[u]
    BY <2>4 DEF AllJoined, Running, InHand
  <2> QED
    BY <2>3, <2>5 DEF TaskInv
<1>2. Listed \subseteq Entry
  BY DEF TypeOK, Outcome, Listed, Entries
<1> QED
  BY <1>1, <1>2 DEF ListInv, Listed, SaidAs

LEMMA JoinVerdict == ASSUME VerdictInv, TypeOK, Join PROVE VerdictInv'
<1>1. /\ mpc = "join" /\ AllJoined /\ out' = [out EXCEPT !.stoppedEarly = FinalReason]
      /\ UNCHANGED <<strategy, wpc, widx, wres, reported>>
      /\ IF RollsBack(FinalReason) THEN mpc' = "undo" ELSE mpc' = "returned"
  BY DEF Join, workerVars
<1>2. /\ out'.succeeded = out.succeeded /\ out'.skipped = out.skipped /\ out'.failed = out.failed
      /\ out'.stoppedEarly = FinalReason
  BY <1>1 DEF TypeOK, Outcome
<1>3. ListInv' /\ Listed' = Listed
  BY <1>1, <1>2 DEF VerdictInv, ListInv, Listed
<1>4. \A u \in UnitId : TaskInv(u)'
  BY <1>1, <1>3 DEF VerdictInv, TaskInv, InHand, EntryOf
<1>5. FinalInv'
  BY <1>1, <1>2, SaidIsListed DEF FinalInv, SaidAs, RollsBack
<1>6. JoinedInv'
  BY <1>1 DEF JoinedInv, AllJoined, Running
<1> QED
  BY <1>1, <1>2, <1>3, <1>4, <1>5, <1>6 DEF VerdictInv, RollsBack

LEMMA UndoneVerdict == ASSUME VerdictInv, TypeOK, UndoDone PROVE VerdictInv'
<1>1. /\ mpc = "undo" /\ mpc' = "returned" /\ out' = [out EXCEPT !.succeeded = <<>>]
      /\ UNCHANGED <<strategy, wpc, widx, wres, reported>>
  BY DEF UndoDone, workerVars
<1>2. /\ out'.succeeded = <<>> /\ out'.skipped = out.skipped /\ out'.failed = out.failed
      /\ out'.stoppedEarly = out.stoppedEarly
  BY <1>1 DEF TypeOK, Outcome
<1>3. Entries(out'.succeeded) = {} /\ NoRepeat(out'.succeeded)
  BY <1>2 DEF Entries, NoRepeat
<1>4. ListInv' /\ Listed' \subseteq Listed
  BY <1>1, <1>2, <1>3 DEF VerdictInv, ListInv, Listed
<1>5. AllJoined /\ AllJoined' /\ RollsBack(out.stoppedEarly)
  BY <1>1 DEF VerdictInv, JoinedInv, AllJoined, Running
<1>6. \A u \in UnitId : TaskInv(u)'
  BY <1>1, <1>4, <1>5 DEF VerdictInv, TaskInv, InHand, EntryOf, AllJoined, Running
<1>7. FinalInv'
  BY <1>1, <1>2, <1>3, <1>5, SaidIsListed DEF FinalInv, SaidAs, RollsBack
<1> QED
  BY <1>1, <1>4, <1>5, <1>6, <1>7 DEF VerdictInv, JoinedInv

LEMMA VerdictStep == ASSUME VerdictInv, TypeOK, [Next]_vars PROVE VerdictInv'
<1> USE DEF mainVars, sharedVars, workerVars, samplerVars, effectVars
<1>1. CASE CheckStop \/ SelectCancelled \/ SelectPermit \/ RecheckStop \/ Cancel \/ UNCHANGED vars
           \/ \E ok \in BOOLEAN : UndoOne(ok)
  <2>1. /\ UNCHANGED <<strategy, out, reported, wpc, widx, wres>>
        /\ mpc' = mpc \/ {mpc, mpc'} \cap {"undo", "returned"} = {}
    BY <1>1 DEF CheckStop, SelectCancelled, SelectPermit, RecheckStop, Cancel, vars, UndoOne
  <2> QED
    BY <2>1, QuietVerdict
<1>2. CASE Spawn
  <2>1. next \in UnitId /\ wpc[next] = "unspawned"
    BY <1>2 DEF TypeOK, WorkerOK, Spawn, UnitId
  <2> QED
    BY <1>2, <2>1, IdleVerdict DEF Spawn, InHand
<1>3. ASSUME NEW u \in UnitId, HaltUnit(u) \/ ExitUnit(u) PROVE VerdictInv'
  <2>1. wpc[u] \in {"halt", "exit", "loop"} /\ mpc \notin {"undo", "returned"}
    BY <1>3, RunsBeforeJoin DEF HaltUnit, ExitUnit
  <2>2. ~InHand(u)
    BY <2>1 DEF InHand
  <2> QED
    BY <1>3, <2>1, <2>2, IdleVerdict DEF HaltUnit, ExitUnit
<1>4. ASSUME NEW u \in UnitId, Sampler(u) PROVE VerdictInv'
  <2>1. UNCHANGED <<strategy, mpc, out, reported, wpc, widx, wres>>
    BY <1>4 DEF Sampler, SamplerReturn, SamplerMeasure, SamplerSend
  <2> QED
    BY <2>1, QuietVerdict
<1>5. ASSUME NEW u \in UnitId, Worker(u) PROVE VerdictInv'
  BY <1>3, <1>5, StartVerdict, ExecuteVerdict, ReportVerdict, RecordVerdict DEF Worker
<1> QED
  BY <1>1, <1>2, <1>4, <1>5, JoinVerdict, UndoneVerdict DEF Next, Main, Returned

LEMMA VerdictInvariant == Spec => []VerdictInv
<1>1. Init => VerdictInv
  BY VerdictInit
<1>2. VerdictInv /\ TypeOK /\ [Next]_vars => VerdictInv'
  BY VerdictStep
<1> QED
  BY <1>1, <1>2, TypeCorrect, PTL DEF Spec

(* An entry gets at most one verdict, and the outcome of a call that        *)
(* returned lists what its events announced, less what was rolled back.     *)
THEOREM VerdictsHold == Spec => []OneVerdict
<1>1. VerdictInv /\ TypeOK => OneVerdict
  BY VerdictsOnce DEF VerdictInv, FinalInv, OneVerdict, SaidAs, NoRepeat, TypeOK
<1> QED
  BY <1>1, VerdictInvariant, TypeCorrect, PTL

-----------------------------------------------------------------------------
(***************************************************************************)
(* The outcome agrees with the effects and with the reason it stopped, for  *)
(* every plan, concurrency, strategy and mix of results: so dispatch()      *)
(* implements DispatchPromise, on which the operations above it are built.  *)
(***************************************************************************)

(* Entries written by a task that has not listed them yet.                  *)
Writers == {u \in UnitId : wpc[u] \in {"drain", "record"} /\ wres[u] = "Written"}
Landed == {EntryOf(u) : u \in Writers}

(* Before the rollback the effects are the listed ones and those about to   *)
(* be; the rollback goes down the list and leaves what it could not undo.   *)
EffectInv ==
  /\ mpc \notin {"undo", "returned"} =>
       undoFailed = {} /\ applied = Entries(out.succeeded) \cup Landed
  /\ mpc = "undo" =>
       /\ applied = {out.succeeded[i] : i \in 1 .. undoLeft} \cup undoFailed
       /\ undoFailed \subseteq {out.succeeded[i] : i \in undoLeft + 1 .. Len(out.succeeded)}
  /\ OutcomeTellsEffects

-----------------------------------------------------------------------------
LEMMA EffectInit == ASSUME Init PROVE EffectInv
  BY DEF Init, EffectInv, Entries, Landed, Writers, OutcomeTellsEffects

LEMMA QuietEffect ==
  ASSUME EffectInv, UNCHANGED <<strategy, out, applied, undoFailed, undoLeft>>, Landed' = Landed,
         mpc' = mpc \/ {mpc, mpc'} \cap {"undo", "returned"} = {}
  PROVE  EffectInv'
  BY DEF EffectInv, OutcomeTellsEffects

LEMMA ExecuteEffect ==
  ASSUME EffectInv, VerdictInv, TypeOK, NEW u \in UnitId, NEW r \in Results, Execute(u, r)
  PROVE  EffectInv'
<1>1. /\ wpc[u] = "execute" /\ wpc' = [wpc EXCEPT ![u] = "drain"] /\ wres' = [wres EXCEPT ![u] = r]
      /\ applied' = IF r = "Written" THEN applied \cup {EntryOf(u)} ELSE applied
      /\ UNCHANGED <<strategy, mpc, out, widx, undoFailed>>
  BY DEF Execute, mainVars
<1>2. mpc \notin {"undo", "returned"}
  BY <1>1, RunsBeforeJoin
<1>3. Writers' = Writers \cup (IF r = "Written" THEN {u} ELSE {})
  BY <1>1 DEF Writers, TypeOK
<1>4. \A v \in UnitId : EntryOf(v)' = EntryOf(v)
  BY <1>1 DEF EntryOf
<1>5. Landed' = Landed \cup (IF r = "Written" THEN {EntryOf(u)} ELSE {})
  BY <1>3, <1>4 DEF Landed, Writers
<1> QED
  BY <1>1, <1>2, <1>5 DEF EffectInv, OutcomeTellsEffects

LEMMA RecordEffect ==
  ASSUME EffectInv, VerdictInv, TypeOK, NEW u \in UnitId, RecordEntry(u)
  PROVE  EffectInv'
<1> DEFINE e == EntryOf(u)  r == wres[u]
<1>1. /\ wpc[u] = "record" /\ wpc' = [wpc EXCEPT ![u] = AfterRecord(r)]
      /\ out'.succeeded = IF r = "Written" THEN Append(out.succeeded, e) ELSE out.succeeded
      /\ UNCHANGED <<strategy, mpc, widx, wres, applied, undoFailed>>
  BY DEF RecordEntry, mainVars, effectVars
<1>2. mpc \notin {"undo", "returned"}
  BY <1>1, RunsBeforeJoin
<1>3. e \in Entry /\ out.succeeded \in Seq(Entry) /\ AfterRecord(r) \notin {"drain", "record"}
  BY <1>1, EntryOfIsEntry DEF TypeOK, Outcome, AfterRecord
<1>4. Entries(out'.succeeded) = Entries(out.succeeded) \cup (IF r = "Written" THEN {e} ELSE {})
  BY <1>1, <1>3, AppendFacts
<1>5. Writers' = Writers \ {u}
  BY <1>1, <1>3 DEF Writers, TypeOK
<1>6. \A v \in UnitId : EntryOf(v)' = EntryOf(v)
  BY <1>1 DEF EntryOf
<1>7. Landed \cup {e} = Landed' \cup {e} /\ (r # "Written" => Landed = Landed')
  BY <1>1, <1>5, <1>6 DEF Landed, Writers
<1>8. r = "Written" => e \in Landed
  BY <1>1 DEF Landed, Writers
<1> QED
  BY <1>1, <1>2, <1>4, <1>7, <1>8 DEF EffectInv, OutcomeTellsEffects

LEMMA JoinEffect == ASSUME EffectInv, TypeOK, Join PROVE EffectInv'
<1>1. /\ mpc = "join" /\ AllJoined /\ out' = [out EXCEPT !.stoppedEarly = FinalReason]
      /\ UNCHANGED <<strategy, applied, undoFailed>>
      /\ IF RollsBack(FinalReason) THEN mpc' = "undo" /\ undoLeft' = Len(out.succeeded)
                                   ELSE mpc' = "returned"
  BY DEF Join, effectVars
<1>2. out'.succeeded = out.succeeded /\ out'.stoppedEarly = FinalReason
  BY <1>1 DEF TypeOK, Outcome
<1>3. Landed = {}
  BY <1>1 DEF Landed, Writers, AllJoined, Running
<1>4. Entries(out.succeeded) = {out.succeeded[i] : i \in 1 .. Len(out.succeeded)}
  <2>1. out.succeeded \in Seq(Entry)
    BY DEF TypeOK, Outcome
  <2>2. DOMAIN out.succeeded = 1 .. Len(out.succeeded)
    BY <2>1
  <2> QED
    BY <2>2 DEF Entries
<1>5. applied = Entries(out.succeeded) /\ undoFailed = {}
  BY <1>1, <1>3 DEF EffectInv
<1> QED
  BY <1>1, <1>2, <1>4, <1>5 DEF EffectInv, OutcomeTellsEffects, RollsBack

LEMMA UndoEffect ==
  ASSUME EffectInv, VerdictInv, TypeOK, NEW ok \in BOOLEAN, UndoOne(ok)
  PROVE  EffectInv'
<1> DEFINE list == out.succeeded  n == undoLeft  e == list[n]
<1>1. /\ mpc = "undo" /\ mpc' = "undo" /\ undoLeft' = n - 1 /\ out' = out
      /\ IF ok THEN applied' = applied \ {e} /\ undoFailed' = undoFailed
               ELSE undoFailed' = undoFailed \cup {e} /\ applied' = applied
  BY DEF UndoOne
<1>2. list \in Seq(Entry) /\ n \in 1 .. Len(list) /\ Len(list) \in Nat /\ DOMAIN list = 1 .. Len(list)
  BY DEF UndoOne, TypeOK, Outcome
<1>3. 1 .. n = (1 .. n - 1) \cup {n} /\ n .. Len(list) = (n + 1 .. Len(list)) \cup {n}
  BY <1>2
<1>4. \A i \in 1 .. Len(list) : list[i] = e => i = n
  BY <1>2 DEF VerdictInv, ListInv, NoRepeat
<1>5. e \notin undoFailed
  BY <1>1, <1>2, <1>4 DEF EffectInv
<1>6. e \notin {list[i] : i \in 1 .. n - 1}
  BY <1>2, <1>4
<1>7. {list[i] : i \in 1 .. n} = {list[i] : i \in 1 .. n - 1} \cup {e}
  BY <1>3
<1>8. {list[i] : i \in n .. Len(list)} = {list[i] : i \in n + 1 .. Len(list)} \cup {e}
  BY <1>3
<1>9. n - 1 + 1 = n
  BY <1>2
<1>10. applied' = {list[i] : i \in 1 .. n - 1} \cup undoFailed'
  BY <1>1, <1>5, <1>6, <1>7 DEF EffectInv
<1>11. undoFailed' \subseteq {list[i] : i \in n .. Len(list)}
  BY <1>1, <1>8 DEF EffectInv
<1> QED
  BY <1>1, <1>9, <1>10, <1>11 DEF EffectInv, OutcomeTellsEffects

LEMMA UndoneEffect == ASSUME EffectInv, TypeOK, UndoDone PROVE EffectInv'
<1>1. /\ mpc = "undo" /\ undoLeft = 0 /\ mpc' = "returned" /\ out' = [out EXCEPT !.succeeded = <<>>]
      /\ UNCHANGED <<applied, undoFailed>>
  BY DEF UndoDone, effectVars
<1>2. Entries(out'.succeeded) = {}
  BY <1>1 DEF TypeOK, Outcome, Entries
<1>3. applied = undoFailed
  <2>1. 1 .. undoLeft = {}
    BY <1>1
  <2> QED
    BY <1>1, <2>1 DEF EffectInv
<1> QED
  BY <1>1, <1>2, <1>3 DEF EffectInv, OutcomeTellsEffects

LEMMA EffectStep ==
  ASSUME EffectInv, VerdictInv, TypeOK, [Next]_vars
  PROVE  EffectInv'
<1> USE DEF mainVars, sharedVars, workerVars, samplerVars, effectVars
<1>1. CASE CheckStop \/ SelectCancelled \/ SelectPermit \/ RecheckStop \/ Cancel \/ UNCHANGED vars
  <2>1. /\ UNCHANGED <<strategy, out, applied, undoFailed, undoLeft, wpc, widx, wres>>
        /\ mpc' = mpc \/ {mpc, mpc'} \cap {"undo", "returned"} = {}
    BY <1>1 DEF CheckStop, SelectCancelled, SelectPermit, RecheckStop, Cancel, vars
  <2> QED
    BY <2>1, QuietEffect DEF Landed, Writers, EntryOf
<1>2. CASE Spawn
  <2>1. next \in UnitId /\ wpc[next] = "unspawned"
    BY <1>2 DEF TypeOK, WorkerOK, Spawn, UnitId
  <2>2. Writers' = Writers
    BY <1>2, <2>1 DEF Spawn, Writers, TypeOK
  <2>3. Landed' = Landed
    BY <1>2, <2>2 DEF Spawn, Landed, EntryOf
  <2> QED
    BY <1>2, <2>3, QuietEffect DEF Spawn
<1>3. ASSUME NEW u \in UnitId, StartEntry(u) \/ ReportEntry(u) \/ HaltUnit(u) \/ ExitUnit(u)
      PROVE  EffectInv'
  <2>1. Writers' = Writers /\ \A v \in UnitId : v \in Writers => EntryOf(v)' = EntryOf(v)
    BY <1>3 DEF StartEntry, ReportEntry, HaltUnit, ExitUnit, Writers, TypeOK, EntryOf
  <2>2. Landed' = Landed
    BY <2>1 DEF Landed, Writers
  <2> QED
    BY <1>3, <2>2, QuietEffect DEF StartEntry, ReportEntry, HaltUnit, ExitUnit
<1>4. ASSUME NEW u \in UnitId, Sampler(u) PROVE EffectInv'
  <2>1. UNCHANGED <<strategy, mpc, undoLeft, out, applied, undoFailed, wpc, widx, wres>>
    BY <1>4 DEF Sampler, SamplerReturn, SamplerMeasure, SamplerSend
  <2> QED
    BY <2>1, QuietEffect DEF Landed, Writers, EntryOf
<1>5. ASSUME NEW u \in UnitId, Worker(u) PROVE EffectInv'
  BY <1>3, <1>5, ExecuteEffect, RecordEffect DEF Worker
<1> QED
  BY <1>1, <1>2, <1>4, <1>5, JoinEffect, UndoEffect, UndoneEffect DEF Next, Main, Returned

LEMMA EffectInvariant == Spec => []EffectInv
<1>1. Init => EffectInv
  BY EffectInit
<1>2. EffectInv /\ VerdictInv /\ TypeOK /\ [Next]_vars => EffectInv'
  BY EffectStep
<1> QED
  BY <1>1, <1>2, VerdictInvariant, TypeCorrect, PTL DEF Spec

(* When the call returns the effects in place are those it lists, or those  *)
(* whose undo failed; under Undo an early stop leaves only the latter.      *)
THEOREM EffectsTold == Spec => []OutcomeTellsEffects
<1>1. EffectInv => OutcomeTellsEffects
  BY DEF EffectInv
<1> QED
  BY <1>1, EffectInvariant, PTL

-----------------------------------------------------------------------------
(* A reason to stop comes from a listed failure and fits the strategy, or,  *)
(* at the join, from the token; without one each task came to its end.      *)
ReasonInv ==
  /\ stop => out.stoppedEarly # None
  /\ \A u \in UnitId :
       /\ wpc[u] \in {"halt", "exit"} => out.stoppedEarly # None
       /\ wpc[u] = "done" => widx[u] = Len(Units[u].entries) \/ out.stoppedEarly # None
  /\ mpc \in {"undo", "returned"} \/ out.stoppedEarly # "Cancelled"
  /\ out.stoppedEarly \in Reasons \ {"Cancelled"} => out.failed # <<>>
  /\ out.stoppedEarly \in {"AbortOnError", "Undo"} => out.stoppedEarly = strategy
  /\ strategy # "ContinueAndCollect" /\ out.failed # <<>> =>
       out.stoppedEarly \in Reasons \ {"Cancelled"}
  /\ mpc = "join" => next > Len(Units) \/ stop \/ stoppedByCancel

LEMMA ReasonInit == ASSUME Init PROVE ReasonInv
  BY DEF Init, ReasonInv, Reasons, None

LEMMA ReasonRecord == ASSUME ReasonInv, VerdictInv, TypeOK, NEW u \in UnitId, RecordEntry(u) PROVE ReasonInv'
<1> DEFINE r == wres[u]
<1>1. /\ wpc[u] = "record" /\ wpc' = [wpc EXCEPT ![u] = AfterRecord(r)]
      /\ out'.failed = IF r \in {"Error", "Fatal"} THEN Append(out.failed, EntryOf(u)) ELSE out.failed
      /\ out'.stoppedEarly = FirstReason(out.stoppedEarly, ReasonFor(r))
      /\ UNCHANGED <<strategy, mpc, next, stop, stoppedByCancel, widx>>
  BY DEF RecordEntry, mainVars, sharedVars
<1>2. EntryOf(u) \in Entry /\ out.failed \in Seq(Entry) /\ r \in Results /\ strategy \in Strategies
      /\ out.stoppedEarly \in Reasons \cup {None}
  BY <1>1, EntryOfIsEntry DEF TypeOK, Outcome
<1>3. r \in {"Error", "Fatal"} => out'.failed # <<>>
  BY <1>1, <1>2
<1>4. /\ ReasonFor(r) \in (Reasons \ {"Cancelled"}) \cup {None}
      /\ ReasonFor(r) # None => r \in {"Error", "Fatal"}
      /\ ReasonFor(r) \in {"AbortOnError", "Undo"} => ReasonFor(r) = strategy
      /\ r \in {"Error", "Fatal"} /\ strategy # "ContinueAndCollect" => ReasonFor(r) # None
  BY <1>2 DEF ReasonFor, FailureReason, StrategyReason, Strategies, Reasons, None, Results
<1>5. out.stoppedEarly # None => out'.stoppedEarly = out.stoppedEarly
  BY <1>1 DEF FirstReason
<1>6. out.stoppedEarly = None => out'.stoppedEarly = ReasonFor(r)
  BY <1>1 DEF FirstReason
<1>7. mpc \notin {"undo", "returned"}
  BY <1>1, RunsBeforeJoin
<1>8. ASSUME NEW v \in UnitId
      PROVE  /\ wpc'[v] \in {"halt", "exit"} => out'.stoppedEarly # None
             /\ wpc'[v] = "done" => widx'[v] = Len(Units[v].entries) \/ out'.stoppedEarly # None
  <2>1. wpc'[v] = IF v = u THEN AfterRecord(r) ELSE wpc[v]
    BY <1>1 DEF TypeOK
  <2>2. AfterRecord(r) = IF ReasonFor(r) = None THEN "loop" ELSE "halt"
    BY DEF AfterRecord
  <2> QED
    BY <1>1, <1>5, <1>6, <2>1, <2>2 DEF ReasonInv
<1>9. out.failed # <<>> => out'.failed # <<>>
  BY <1>1, <1>2
<1>10. out'.stoppedEarly \in Reasons \ {"Cancelled"} => out'.failed # <<>>
  BY <1>3, <1>4, <1>5, <1>6, <1>9 DEF ReasonInv
<1>11. out'.stoppedEarly \in {"AbortOnError", "Undo"} => out'.stoppedEarly = strategy
  BY <1>4, <1>5, <1>6 DEF ReasonInv, None
<1>12. strategy # "ContinueAndCollect" /\ out'.failed # <<>> => out'.stoppedEarly \in Reasons \ {"Cancelled"}
  BY <1>1, <1>2, <1>4, <1>5, <1>6, <1>7 DEF ReasonInv
<1>13. stop => out'.stoppedEarly # None
  BY <1>5 DEF ReasonInv
<1>14. out'.stoppedEarly # "Cancelled"
  BY <1>4, <1>5, <1>6, <1>7 DEF ReasonInv, None
<1> QED
  BY <1>1, <1>8, <1>10, <1>11, <1>12, <1>13, <1>14 DEF ReasonInv

LEMMA ReasonJoin == ASSUME ReasonInv, TypeOK, Join PROVE ReasonInv'
<1>1. /\ out' = [out EXCEPT !.stoppedEarly = FinalReason] /\ mpc = "join" /\ mpc' \in {"undo", "returned"}
      /\ UNCHANGED <<strategy, next, stop, stoppedByCancel, wpc, widx>>
  BY DEF Join, sharedVars, workerVars
<1>2. out'.failed = out.failed /\ out'.stoppedEarly = FinalReason
  BY <1>1 DEF TypeOK, Outcome
<1>3. FinalReason = IF stoppedByCancel /\ out.stoppedEarly = None THEN "Cancelled" ELSE out.stoppedEarly
  BY DEF FinalReason
<1>4. out.stoppedEarly = None => strategy = "ContinueAndCollect" \/ out.failed = <<>>
  BY DEF ReasonInv, None, Reasons
<1> QED
  BY <1>1, <1>2, <1>3, <1>4 DEF ReasonInv, None

LEMMA ReasonStep ==
  ASSUME ReasonInv, VerdictInv, TypeOK, [Next]_vars
  PROVE  ReasonInv'
<1> USE DEF mainVars, sharedVars, workerVars, samplerVars, effectVars
<1>1. CASE CheckStop \/ SelectCancelled \/ SelectPermit \/ RecheckStop \/ Cancel \/ UNCHANGED vars
           \/ \E ok \in BOOLEAN : UndoOne(ok)
  <2>1. /\ UNCHANGED <<strategy, next, stop, out, wpc, widx>>
        /\ mpc' \in {"undo", "returned"} <=> mpc \in {"undo", "returned"}
    BY <1>1 DEF CheckStop, SelectCancelled, SelectPermit, RecheckStop, Cancel, vars, UndoOne
  <2>2. stoppedByCancel => stoppedByCancel'
    BY <1>1 DEF CheckStop, SelectCancelled, SelectPermit, RecheckStop, Cancel, vars, UndoOne
  <2>3. mpc' = "join" => mpc = "join" \/ next > Len(Units) \/ stop \/ stoppedByCancel'
    BY <1>1 DEF CheckStop, SelectCancelled, SelectPermit, RecheckStop, MayArm, Cancel, vars, UndoOne
  <2>4. mpc' = "join" => next' > Len(Units) \/ stop' \/ stoppedByCancel'
    BY <2>1, <2>2, <2>3 DEF ReasonInv
  <2> QED
    BY <2>1, <2>4 DEF ReasonInv
<1>2. CASE Spawn
  BY <1>2 DEF Spawn, ReasonInv, TypeOK
<1>3. CASE UndoDone
  <2>1. out'.failed = out.failed /\ out'.stoppedEarly = out.stoppedEarly
    BY <1>3 DEF UndoDone, TypeOK, Outcome
  <2> QED
    BY <1>3, <2>1 DEF UndoDone, ReasonInv
<1>4. ASSUME NEW u \in UnitId, StartEntry(u) PROVE ReasonInv'
  BY <1>4 DEF StartEntry, ReasonInv, TypeOK
<1>5. ASSUME NEW u \in UnitId, (\E r \in Results : Execute(u, r)) \/ ReportEntry(u) PROVE ReasonInv'
  <2>1. /\ UNCHANGED <<strategy, mpc, next, stop, stoppedByCancel, out, widx>>
        /\ \E pc \in {"drain", "record"} : wpc' = [wpc EXCEPT ![u] = pc]
    BY <1>5 DEF Execute, ReportEntry
  <2>2. \A v \in UnitId : wpc'[v] \in {"halt", "exit", "done"} => wpc[v] = wpc'[v]
    BY <2>1 DEF TypeOK
  <2> QED
    BY <2>1, <2>2 DEF ReasonInv
<1>6. ASSUME NEW u \in UnitId, HaltUnit(u) PROVE ReasonInv'
  BY <1>6 DEF HaltUnit, ReasonInv, TypeOK
<1>7. ASSUME NEW u \in UnitId, ExitUnit(u) PROVE ReasonInv'
  <2>1. wpc[u] = "loop" => wpc[u] # "exit" /\ widx[u] = Len(Units[u].entries)
    BY <1>7, HandFacts DEF ExitUnit, HasMore
  <2> QED
    BY <1>7, <2>1 DEF ExitUnit, ReasonInv, TypeOK
<1>8. ASSUME NEW u \in UnitId, Sampler(u) PROVE ReasonInv'
  BY <1>8 DEF Sampler, SamplerReturn, SamplerMeasure, SamplerSend, ReasonInv
<1>9. ASSUME NEW u \in UnitId, Worker(u) PROVE ReasonInv'
  BY <1>4, <1>5, <1>6, <1>7, <1>9, ReasonRecord DEF Worker
<1> QED
  BY <1>1, <1>2, <1>3, <1>8, <1>9, ReasonJoin DEF Next, Main, Returned

LEMMA ReasonInvariant == Spec => []ReasonInv
<1>1. Init => ReasonInv
  BY ReasonInit
<1>2. ReasonInv /\ VerdictInv /\ TypeOK /\ [Next]_vars => ReasonInv'
  BY ReasonStep
<1> QED
  BY <1>1, <1>2, VerdictInvariant, TypeCorrect, PTL DEF Spec

-----------------------------------------------------------------------------
(* A record of disjoint lists is one of the outcomes promised.              *)
LEMMA RecordIsPromised ==
  ASSUME NEW S, NEW K, NEW F, NEW r \in Reasons \cup {None},
         Promise!IsDispatchOutcome([succeeded |-> S, skipped |-> K, failed |-> F, stoppedEarly |-> r],
                                   Planned, strategy)
  PROVE  [succeeded |-> S, skipped |-> K, failed |-> F, stoppedEarly |-> r]
           \in Promise!DispatchOutcomes(Planned, strategy)
<1> DEFINE o == [succeeded |-> S, skipped |-> K, failed |-> F, stoppedEarly |-> r]
           v == [e \in Planned |-> IF e \in S THEN "ok" ELSE IF e \in K THEN "skip"
                                   ELSE IF e \in F THEN "fail" ELSE "none"]
           Of(w, kind) == {e \in Planned : w[e] = kind}
<1>1. v \in [Planned -> {"ok", "skip", "fail", "none"}]
  OBVIOUS
<1>2. /\ S \cup K \cup F \subseteq Planned
      /\ S \cap K = {} /\ S \cap F = {} /\ K \cap F = {}
  BY DEF Promise!IsDispatchOutcome
<1>3. Of(v, "ok") = S /\ Of(v, "skip") = K /\ Of(v, "fail") = F
  BY <1>2
<1>4. r \in Promise!Reasons \cup {Promise!None}
  BY DEF Reasons, None, Promise!Reasons, Promise!None
<1>5. o = [succeeded |-> Of(v, "ok"), skipped |-> Of(v, "skip"), failed |-> Of(v, "fail"),
           stoppedEarly |-> r]
  BY <1>3
<1> DEFINE C == {[succeeded |-> Of(w, "ok"), skipped |-> Of(w, "skip"), failed |-> Of(w, "fail"),
                  stoppedEarly |-> q] : w \in [Planned -> {"ok", "skip", "fail", "none"}],
                                        q \in Promise!Reasons \cup {Promise!None}}
<1>6. o \in C
  <2> HIDE DEF v, o, Of
  <2> QED
    BY <1>1, <1>4, <1>5
<1>7. Promise!IsDispatchOutcome(o, Planned, strategy)
  OBVIOUS
<1>8. Promise!DispatchOutcomes(Planned, strategy)
        = {x \in C : Promise!IsDispatchOutcome(x, Planned, strategy)}
  BY DEF Promise!DispatchOutcomes
<1>9. o \in Promise!DispatchOutcomes(Planned, strategy)
  <2> HIDE DEF v, o, C
  <2> QED
    BY <1>6, <1>7, <1>8
<1> QED
  BY <1>9

(* With no reason to stop every unit was spawned and ran to its end.        *)
LEMMA WholePlanListed ==
  ASSUME ReasonInv, VerdictInv, TypeOK, mpc = "join", AllJoined, FinalReason = None
  PROVE  Listed = Planned
<1>1. out.stoppedEarly = None /\ ~stoppedByCancel /\ ~stop
  BY DEF FinalReason, ReasonInv, None
<1>2. next > Len(Units)
  BY <1>1 DEF ReasonInv
<1>3. ASSUME NEW u \in UnitId PROVE wpc[u] = "done" /\ widx[u] = Len(Units[u].entries)
  <2>1. Len(Units) \in Nat /\ u \in 1 .. Len(Units) /\ next \in Nat
    BY UnitsAssumption DEF UnitId, TypeOK
  <2>2. wpc[u] = "done"
    BY <1>2, <2>1 DEF TypeOK, WorkerOK, AllJoined, Running
  <2> QED
    BY <1>1, <2>2 DEF ReasonInv
<1>4. ASSUME NEW e \in Planned PROVE e \in Listed
  <2>1. PICK u \in UnitId : \E i \in 1 .. Len(Units[u].entries) : e = At(u, i)
    BY PlannedHasPlace
  <2> QED
    BY <1>3, <2>1 DEF VerdictInv, TaskInv, InHand
<1> QED
  BY <1>4 DEF VerdictInv, ListInv

(* What the call answers at the end of the join or of the rollback.         *)
LEMMA AnswerIsPromised ==
  ASSUME ReasonInv, VerdictInv, TypeOK, NEW S \in SUBSET Entries(out.succeeded),
         NEW r \in Reasons \cup {None},
         r = out.stoppedEarly \/ (r = "Cancelled" /\ out.stoppedEarly = None),
         r = None => S = Entries(out.succeeded) /\ Listed = Planned,
         strategy = "Undo" /\ r # None => S = {}
  PROVE  [succeeded |-> S, skipped |-> Entries(out.skipped), failed |-> Entries(out.failed),
          stoppedEarly |-> r] \in Promise!DispatchOutcomes(Planned, strategy)
<1> DEFINE K == Entries(out.skipped)  F == Entries(out.failed)
           o == [succeeded |-> S, skipped |-> K, failed |-> F, stoppedEarly |-> r]
<1>1. S \cup K \cup F \subseteq Planned /\ S \cap K = {} /\ S \cap F = {} /\ K \cap F = {}
  BY DEF VerdictInv, ListInv, Listed
<1>2. out.failed # <<>> <=> F # {}
  <2>1. out.failed \in Seq(Entry)
    BY DEF TypeOK, Outcome
  <2>2. Len(out.failed) \in Nat /\ DOMAIN out.failed = 1 .. Len(out.failed)
    BY <2>1
  <2>3. out.failed # <<>> <=> Len(out.failed) > 0
    BY <2>1
  <2>4. ASSUME Len(out.failed) > 0 PROVE F # {}
    <3>1. 1 \in DOMAIN out.failed
      BY <2>2, <2>4
    <3> QED
      BY <3>1 DEF Entries
  <2>5. ASSUME Len(out.failed) = 0 PROVE F = {}
    <3>1. DOMAIN out.failed = {}
      BY <2>2, <2>5
    <3> QED
      BY <3>1 DEF Entries
  <2> QED
    BY <2>2, <2>3, <2>4, <2>5
<1>3. r = None => S \cup K \cup F = Planned /\ (strategy = "ContinueAndCollect" \/ F = {})
  <2>1. None = "None" /\ "None" \notin Reasons
    BY DEF None, Reasons
  <2> QED
    BY <1>2, <2>1 DEF ReasonInv, Listed
<1>4. r \in {"AbortOnError", "Undo", "Fatal"} => r = out.stoppedEarly /\ F # {}
  BY <1>2 DEF ReasonInv, Reasons
<1>5. r \in {"AbortOnError", "Undo"} => strategy = r
  BY <1>4 DEF ReasonInv
<1>6. r = "Cancelled" => strategy = "ContinueAndCollect" \/ F = {}
  BY <1>2 DEF ReasonInv, None, Reasons
<1>7. Promise!IsDispatchOutcome(o, Planned, strategy)
  BY <1>1, <1>3, <1>4, <1>5, <1>6 DEF Promise!IsDispatchOutcome, None, Promise!None
<1> QED
  BY <1>7, RecordIsPromised

(* Nothing the caller sees changes while the tasks run.                     *)
LEMMA QuietPromise ==
  ASSUME UNCHANGED <<strategy, applied>>,
         UNCHANGED <<mpc, out>> \/ {mpc, mpc'} \cap {"undo", "returned"} = {}
  PROVE  UNCHANGED Promise!promiseVars
  BY DEF Promise!promiseVars, Promise!EmptyOutcome, EmptyOutcome

LEMMA ExecutePromise ==
  ASSUME EffectInv, VerdictInv, TypeOK, NEW u \in UnitId, NEW r \in Results, Execute(u, r)
  PROVE  [Promise!Next]_(Promise!promiseVars)
<1> DEFINE e == EntryOf(u)
<1>1. /\ wpc[u] = "execute" /\ applied' = IF r = "Written" THEN applied \cup {e} ELSE applied
      /\ UNCHANGED <<strategy, mpc, out>>
  BY DEF Execute, mainVars
<1>2. mpc \notin {"undo", "returned"}
  BY <1>1, RunsBeforeJoin
<1>3. CASE r # "Written"
  BY <1>1, <1>3, QuietPromise
<1>4. CASE r = "Written"
  <2>1. widx[u] \in 1 .. Len(Units[u].entries) /\ e = At(u, widx[u])
    BY <1>1, HandFacts DEF InHand
  <2>2. e \in Planned
    BY <2>1, PlaceFacts
  <2>3. e \notin Entries(out.succeeded)
    BY <1>1 DEF VerdictInv, ListInv, TaskInv
  <2>4. ASSUME NEW v \in Writers PROVE EntryOf(v) # e
    <3>1. v \in UnitId /\ v # u /\ InHand(v)
      BY <1>1 DEF Writers, InHand
    <3>2. widx[v] \in 1 .. Len(Units[v].entries) /\ EntryOf(v) = At(v, widx[v])
      BY <3>1, HandFacts
    <3> QED
      BY <2>1, <3>1, <3>2, PlaceFacts
  <2>5. e \notin applied
    BY <1>2, <2>3, <2>4 DEF EffectInv, Landed
  <2>6. Promise!Apply(e)
    BY <1>1, <1>2, <1>4, <2>5 DEF Promise!Apply
  <2> QED
    BY <2>2, <2>6 DEF Promise!Next
<1> QED
  BY <1>3, <1>4

LEMMA JoinPromise ==
  ASSUME EffectInv, ReasonInv, VerdictInv, TypeOK, Join
  PROVE  Promise!Next
<1>1. /\ mpc = "join" /\ AllJoined /\ out' = [out EXCEPT !.stoppedEarly = FinalReason]
      /\ UNCHANGED <<strategy, applied>>
      /\ IF RollsBack(FinalReason) THEN mpc' = "undo" ELSE mpc' = "returned"
  BY DEF Join, effectVars
<1>2. CASE RollsBack(FinalReason)
  <2>1. Promise!BeginUndo
    BY <1>1, <1>2 DEF Promise!BeginUndo, RollsBack
  <2> QED
    BY <2>1 DEF Promise!Next
<1>3. CASE ~RollsBack(FinalReason)
  <2> DEFINE o == [succeeded |-> Entries(out.succeeded), skipped |-> Entries(out.skipped),
                   failed |-> Entries(out.failed), stoppedEarly |-> FinalReason]
  <2>1. /\ out'.succeeded = out.succeeded /\ out'.skipped = out.skipped
        /\ out'.failed = out.failed /\ out'.stoppedEarly = FinalReason
    BY <1>1 DEF TypeOK, Outcome
  <2>2. /\ FinalReason \in Reasons \cup {None}
        /\ FinalReason = out.stoppedEarly \/ (FinalReason = "Cancelled" /\ out.stoppedEarly = None)
    BY DEF FinalReason, TypeOK, Outcome, Reasons
  <2>3. o \in Promise!DispatchOutcomes(Planned, strategy)
    BY <1>1, <1>3, <2>2, WholePlanListed, AnswerIsPromised DEF RollsBack
  <2>4. applied = Entries(out.succeeded)
    <3>1. Landed = {}
      BY <1>1 DEF Landed, Writers, AllJoined, Running
    <3> QED
      BY <1>1, <3>1 DEF EffectInv
  <2>5. /\ ~(strategy = "Undo" /\ o.stoppedEarly # Promise!None)
        /\ o.succeeded = applied
    BY <1>3, <2>4 DEF RollsBack, None, Promise!None
  <2>6. [succeeded |-> Entries(out'.succeeded), skipped |-> Entries(out'.skipped),
         failed |-> Entries(out'.failed), stoppedEarly |-> out'.stoppedEarly] = o
    BY <2>1
  <2>7. Promise!Return
    <3> HIDE DEF o
    <3> QED
      BY <1>1, <1>3, <2>3, <2>5, <2>6 DEF Promise!Return, Entries
  <2> QED
    BY <2>7 DEF Promise!Next
<1> QED
  BY <1>2, <1>3

LEMMA UndoPromise ==
  ASSUME EffectInv, VerdictInv, TypeOK, NEW ok \in BOOLEAN, UndoOne(ok)
  PROVE  [Promise!Next]_(Promise!promiseVars)
<1> DEFINE e == out.succeeded[undoLeft]
<1>1. /\ mpc = "undo" /\ mpc' = mpc /\ out' = out /\ strategy' = strategy
      /\ applied' = IF ok THEN applied \ {e} ELSE applied
  BY DEF UndoOne
<1>2. CASE ~ok
  BY <1>1, <1>2, QuietPromise
<1>3. CASE ok
  <2>1. out.succeeded \in Seq(Entry) /\ undoLeft \in 1 .. Len(out.succeeded) /\ Len(out.succeeded) \in Nat
    BY DEF UndoOne, TypeOK, Outcome
  <2>2. undoLeft \in 1 .. undoLeft /\ undoLeft \in DOMAIN out.succeeded
    BY <2>1
  <2>3. e \in applied
    BY <1>1, <2>2 DEF EffectInv
  <2>4. e \in Planned
    BY <2>2 DEF VerdictInv, ListInv, Listed, Entries
  <2>5. Promise!TakeBack(e)
    BY <1>1, <1>3, <2>3 DEF Promise!TakeBack
  <2> QED
    BY <2>4, <2>5 DEF Promise!Next
<1> QED
  BY <1>2, <1>3

LEMMA UndonePromise ==
  ASSUME EffectInv, ReasonInv, VerdictInv, TypeOK, UndoDone
  PROVE  Promise!Next
<1> DEFINE o == [succeeded |-> {}, skipped |-> Entries(out.skipped),
                 failed |-> Entries(out.failed), stoppedEarly |-> out.stoppedEarly]
<1>1. /\ mpc = "undo" /\ mpc' = "returned" /\ out' = [out EXCEPT !.succeeded = <<>>]
      /\ UNCHANGED <<strategy, applied>>
  BY DEF UndoDone, effectVars
<1>2. /\ out'.succeeded = <<>> /\ out'.skipped = out.skipped
      /\ out'.failed = out.failed /\ out'.stoppedEarly = out.stoppedEarly
  BY <1>1 DEF TypeOK, Outcome
<1>3. strategy = "Undo" /\ out.stoppedEarly # None /\ out.stoppedEarly \in Reasons \cup {None}
  BY <1>1 DEF VerdictInv, RollsBack, TypeOK, Outcome
<1>4. o \in Promise!DispatchOutcomes(Planned, strategy)
  BY <1>3, AnswerIsPromised
<1>5. [succeeded |-> Entries(out'.succeeded), skipped |-> Entries(out'.skipped),
       failed |-> Entries(out'.failed), stoppedEarly |-> out'.stoppedEarly] = o
  <2>1. Entries(<<>>) = {}
    BY DEF Entries
  <2> QED
    BY <1>2, <2>1
<1>6. o.stoppedEarly # Promise!None
  BY <1>3 DEF None, Promise!None
<1>7. Promise!Return
  <2> HIDE DEF o
  <2> QED
    BY <1>1, <1>3, <1>4, <1>5, <1>6 DEF Promise!Return, Entries
<1> QED
  BY <1>7 DEF Promise!Next

LEMMA PromiseStep ==
  ASSUME EffectInv, ReasonInv, VerdictInv, TypeOK, [Next]_vars
  PROVE  [Promise!Next]_(Promise!promiseVars)
<1> USE DEF mainVars, sharedVars, workerVars, samplerVars, effectVars
<1>1. CASE CheckStop \/ SelectCancelled \/ SelectPermit \/ RecheckStop \/ Spawn \/ Cancel
           \/ UNCHANGED vars
  <2>1. /\ UNCHANGED <<strategy, applied>>
        /\ UNCHANGED <<mpc, out>> \/ {mpc, mpc'} \cap {"undo", "returned"} = {}
    BY <1>1 DEF CheckStop, SelectCancelled, SelectPermit, RecheckStop, Spawn, Cancel, vars
  <2> QED
    BY <2>1, QuietPromise
<1>2. ASSUME NEW u \in UnitId, RecordEntry(u) PROVE [Promise!Next]_(Promise!promiseVars)
  <2>1. mpc \notin {"undo", "returned"} /\ UNCHANGED <<strategy, applied, mpc>>
    BY <1>2, RunsBeforeJoin DEF RecordEntry
  <2> QED
    BY <2>1, QuietPromise
<1>3. ASSUME NEW u \in UnitId,
             StartEntry(u) \/ ReportEntry(u) \/ HaltUnit(u) \/ ExitUnit(u) \/ Sampler(u)
      PROVE  [Promise!Next]_(Promise!promiseVars)
  <2>1. UNCHANGED <<strategy, applied, mpc, out>>
    BY <1>3 DEF StartEntry, ReportEntry, HaltUnit, ExitUnit, Sampler, SamplerReturn,
                SamplerMeasure, SamplerSend
  <2> QED
    BY <2>1, QuietPromise
<1>4. ASSUME NEW u \in UnitId, Worker(u) PROVE [Promise!Next]_(Promise!promiseVars)
  BY <1>2, <1>3, <1>4, ExecutePromise DEF Worker
<1> QED
  BY <1>1, <1>3, <1>4, JoinPromise, UndoPromise, UndonePromise DEF Next, Main, Returned

(* dispatch() implements its promise: whatever the plan, the concurrency,   *)
(* the strategy, the results and the moment of a cancellation, each step is *)
(* one of DispatchPromise or invisible to it.                               *)
THEOREM PromiseKept == Spec => ImplementsPromise
<1>1. Init => Promise!Init
  BY DEF Init, Promise!Init, Strategies, Promise!Strategies, EmptyOutcome, Promise!EmptyOutcome,
         None, Promise!None
<1>2. EffectInv /\ ReasonInv /\ VerdictInv /\ TypeOK /\ [Next]_vars => [Promise!Next]_(Promise!promiseVars)
  BY PromiseStep
<1> QED
  BY <1>1, <1>2, EffectInvariant, ReasonInvariant, VerdictInvariant, TypeCorrect, PTL
  DEF Spec, ImplementsPromise, Promise!Spec

-----------------------------------------------------------------------------
(* Copies run by the engine, for every plan, concurrency, strategy and      *)
(* number of files that appear from outside.                                *)

(* What the engine keeps true whatever its actions do.                      *)
EngineInv == TypeOK /\ VerdictInv /\ EffectInv

DestTypes ==
  /\ overwrite \in BOOLEAN /\ skipIdentical \in BOOLEAN
  /\ dest \in [Entry -> Content] /\ dest0 \in [Entry -> {"absent", "other", "same"}]
  /\ apc \in [UnitId -> {"parent", "check", "copy", "copying"}]

(* A task that got past the check is at an entry it may write.              *)
InsideInv(u) ==
  /\ apc[u] # "parent" => wpc[u] = "execute"
  /\ apc[u] = "check" => ~overwrite
  /\ apc[u] \in {"copy", "copying"} /\ ~overwrite => dest0[EntryOf(u)] = "absent"
  /\ apc[u] = "copying" => dest[EntryOf(u)] = "partial"
  /\ wpc[u] \in {"drain", "record"} /\ wres[u] = "Skipped" => dest[EntryOf(u)] = "same"

(* A truncated file is in the hands of a task that is writing it, or that   *)
(* failed to and has not said so yet.                                       *)
Broken(u) ==
  \/ apc[u] = "copying"
  \/ wpc[u] \in {"drain", "record"} /\ wres[u] \in {"Error", "Fatal"}
PartialInv ==
  \A e \in Entry : dest[e] = "partial" =>
    e \in Entries(out.failed) \/ \E u \in UnitId : Broken(u) /\ e = EntryOf(u)

(* The engine's applied entries are the copies on the disk.                 *)
CopyInv ==
  /\ DestTypes /\ PartialInv /\ ExistingFileKept
  /\ \A u \in UnitId : InsideInv(u)
  /\ \A e \in Entry : e \in applied <=> dest[e] = "copy"
  /\ \A e \in Entries(out.skipped) : dest[e] = "same"

-----------------------------------------------------------------------------
(* What the engine did for any action it does for copies.                   *)
LEMMA CopyStepIsEngineStep == ASSUME CopyNext PROVE [Next]_vars
<1> USE DEF Next, Main, Worker, Sampler, Results
<1>1. CASE Engine
  BY <1>1 DEF Engine
<1>2. CASE UndoCopy
  BY <1>2 DEF UndoCopy
<1>3. ASSUME NEW u \in UnitId, CopyTask(u) PROVE [Next]_vars
  BY <1>3 DEF CopyTask, MakeParent, CheckDest, BeginCopy, EndCopy, FailExecute, Stay, SkipResult,
              BrokenCopyResult
<1>4. ASSUME NEW e \in Entry, Intrude(e) PROVE [Next]_vars
  BY <1>4 DEF Intrude
<1> QED
  BY <1>1, <1>2, <1>3, <1>4 DEF CopyNext

LEMMA EngineInvInit == ASSUME Init PROVE EngineInv
  BY TypeInit, VerdictInit, EffectInit DEF EngineInv

LEMMA EngineInvStep == ASSUME EngineInv, [Next]_vars PROVE EngineInv'
  BY TypeStep, VerdictStep, EffectStep DEF EngineInv

(* The entry a task is executing is its alone, not listed, not written.     *)
LEMMA ExecuteFacts ==
  ASSUME EngineInv, NEW u \in UnitId, wpc[u] = "execute"
  PROVE  /\ EntryOf(u) \in Entry /\ EntryOf(u) \notin Listed /\ EntryOf(u) \notin applied
         /\ \A v \in UnitId : v # u /\ wpc[v] \in {"execute", "drain", "record"} =>
              EntryOf(v) # EntryOf(u)
<1>1. EntryOf(u) \in Entry
  BY EntryOfIsEntry DEF EngineInv
<1>2. EntryOf(u) \notin Listed
  BY DEF EngineInv, VerdictInv, TaskInv, ListInv, Listed
<1>3. ASSUME NEW v \in UnitId, v # u, wpc[v] \in {"execute", "drain", "record"}
      PROVE  EntryOf(v) # EntryOf(u)
  BY <1>3, HandFacts, PlaceFacts DEF EngineInv, InHand
<1>4. EntryOf(u) \notin applied
  BY <1>2, <1>3, RunsBeforeJoin DEF EngineInv, EffectInv, Listed, Landed, Writers
<1> QED
  BY <1>1, <1>2, <1>3, <1>4

LEMMA SkippedAreEntries == ASSUME EngineInv PROVE Entries(out.skipped) \subseteq Entry
<1>1. out.skipped \in Seq(Entry)
  BY DEF EngineInv, TypeOK, Outcome
<1> QED
  BY <1>1 DEF Entries

-----------------------------------------------------------------------------
LEMMA CopyInvInit == ASSUME CopyInit PROVE CopyInv
  BY DEF CopyInit, Init, CopyInv, DestTypes, Content, PartialInv, ExistingFileKept, InsideInv,
         Entries

LEMMA QuietCopy == ASSUME CopyInv, UNCHANGED <<vars, copyVars>> PROVE CopyInv'
<1>1. UNCHANGED <<out, wpc, widx, wres, applied, overwrite, skipIdentical, dest, dest0, apc>>
  BY DEF vars, workerVars, effectVars, copyVars
<1> QED
  BY <1>1 DEF CopyInv, DestTypes, PartialInv, ExistingFileKept, InsideInv, Broken, EntryOf

(* Nothing happens to a destination while the loop goes about its business. *)
LEMMA LoopCopy ==
  ASSUME CopyInv, EngineInv, UNCHANGED copyVars,
         \/ CheckStop \/ SelectCancelled \/ SelectPermit \/ RecheckStop \/ Spawn \/ Join
         \/ UndoDone \/ Cancel \/ Returned \/ \E u \in UnitId : Sampler(u)
  PROVE  CopyInv'
<1> USE DEF mainVars, workerVars, effectVars, sharedVars, copyVars
<1>1. /\ out'.skipped = out.skipped /\ out'.failed = out.failed
      /\ UNCHANGED <<applied, widx, wres>>
  <2>1. CASE Join \/ UndoDone
    BY <2>1 DEF Join, UndoDone, EngineInv, TypeOK, Outcome
  <2>2. CASE ~(Join \/ UndoDone)
    BY <2>2 DEF CheckStop, SelectCancelled, SelectPermit, RecheckStop, Spawn, Cancel, Returned,
                vars, Sampler, SamplerReturn, SamplerMeasure, SamplerSend
  <2> QED
    BY <2>1, <2>2
<1>2. ASSUME NEW u \in UnitId
      PROVE  \/ wpc'[u] = wpc[u]
             \/ wpc[u] \in {"unspawned", "loop"} /\ wpc'[u] \in {"unspawned", "loop"}
  <2>1. CASE Spawn
    BY <2>1 DEF Spawn, EngineInv, TypeOK, WorkerOK, UnitId
  <2>2. CASE ~Spawn
    BY <2>2 DEF CheckStop, SelectCancelled, SelectPermit, RecheckStop, Join, UndoDone, Cancel,
                Returned, vars, Sampler, SamplerReturn, SamplerMeasure, SamplerSend
  <2> QED
    BY <2>1, <2>2
<1>3. \A u \in UnitId : EntryOf(u)' = EntryOf(u)
  BY <1>1 DEF EntryOf
<1>4. ASSUME NEW u \in UnitId PROVE InsideInv(u)' /\ (Broken(u) => Broken(u)')
  <2>1. InsideInv(u)
    BY DEF CopyInv
  <2> QED
    BY <1>1, <1>2, <1>3, <2>1 DEF InsideInv, Broken
<1>5. PartialInv'
  BY <1>1, <1>3, <1>4 DEF CopyInv, PartialInv, Entries
<1> QED
  BY <1>1, <1>4, <1>5 DEF CopyInv, DestTypes, ExistingFileKept, Entries

(* A task between two actions.                                              *)
LEMMA TaskCopy ==
  ASSUME CopyInv, EngineInv, UNCHANGED copyVars, NEW u \in UnitId,
         StartEntry(u) \/ ReportEntry(u) \/ RecordEntry(u) \/ HaltUnit(u) \/ ExitUnit(u)
  PROVE  CopyInv'
<1> USE DEF workerVars, effectVars, copyVars
<1>1. /\ applied' = applied /\ wres' = wres /\ apc[u] = "parent"
      /\ \A v \in UnitId : v # u => wpc'[v] = wpc[v] /\ EntryOf(v)' = EntryOf(v)
  BY DEF StartEntry, ReportEntry, RecordEntry, HaltUnit, ExitUnit, EngineInv, TypeOK, EntryOf,
         CopyInv, InsideInv
<1>2. \A v \in UnitId : v # u => InsideInv(v)' /\ (Broken(v) => Broken(v)')
  BY <1>1 DEF CopyInv, InsideInv, Broken
<1>3. CASE ReportEntry(u)
  <2>1. wpc[u] = "drain" /\ wpc'[u] = "record" /\ EntryOf(u)' = EntryOf(u) /\ out' = out
    BY <1>3 DEF ReportEntry, EngineInv, TypeOK, EntryOf
  <2>2. InsideInv(u)' /\ (Broken(u) => Broken(u)')
    BY <1>1, <2>1 DEF CopyInv, InsideInv, Broken
  <2>3. PartialInv'
    BY <1>1, <1>2, <2>1, <2>2 DEF CopyInv, PartialInv
  <2> QED
    BY <1>1, <1>2, <2>1, <2>2, <2>3 DEF CopyInv, DestTypes, ExistingFileKept
<1>4. CASE RecordEntry(u)
  <2> DEFINE e == EntryOf(u)
  <2>1. /\ wpc[u] = "record" /\ wpc'[u] \in {"loop", "halt"}
        /\ out'.skipped = IF wres[u] = "Skipped" THEN Append(out.skipped, e) ELSE out.skipped
        /\ out'.failed = IF wres[u] \in {"Error", "Fatal"} THEN Append(out.failed, e) ELSE out.failed
    BY <1>4 DEF RecordEntry, EngineInv, TypeOK, AfterRecord
  <2>2. e \in Entry /\ out.skipped \in Seq(Entry) /\ out.failed \in Seq(Entry)
    BY <2>1, EntryOfIsEntry DEF EngineInv, TypeOK, Outcome
  <2>3. /\ Entries(out'.skipped) = Entries(out.skipped) \cup (IF wres[u] = "Skipped" THEN {e} ELSE {})
        /\ Entries(out'.failed) = Entries(out.failed)
                                    \cup (IF wres[u] \in {"Error", "Fatal"} THEN {e} ELSE {})
    BY <2>1, <2>2, AppendFacts
  <2>4. InsideInv(u)'
    BY <1>1, <2>1 DEF InsideInv
  <2>5. Broken(u) => e \in Entries(out'.failed)
    BY <1>1, <2>1, <2>3 DEF Broken
  <2>6. PartialInv'
    BY <1>1, <1>2, <2>3, <2>5 DEF CopyInv, PartialInv
  <2>7. \A f \in Entries(out'.skipped) : dest'[f] = "same"
    BY <2>1, <2>3 DEF CopyInv, InsideInv
  <2> QED
    BY <1>1, <1>2, <2>4, <2>6, <2>7 DEF CopyInv, DestTypes, ExistingFileKept
<1>5. CASE StartEntry(u) \/ HaltUnit(u) \/ ExitUnit(u)
  <2>1. /\ wpc[u] \notin {"drain", "record"} /\ wpc'[u] \notin {"drain", "record"}
        /\ out' = out
    BY <1>5 DEF StartEntry, HaltUnit, ExitUnit, EngineInv, TypeOK
  <2>2. InsideInv(u)' /\ ~Broken(u)
    BY <1>1, <2>1 DEF InsideInv, Broken
  <2>3. PartialInv'
    BY <1>1, <1>2, <2>1, <2>2 DEF CopyInv, PartialInv
  <2> QED
    BY <1>1, <1>2, <2>1, <2>2, <2>3 DEF CopyInv, DestTypes, ExistingFileKept
<1> QED
  BY <1>3, <1>4, <1>5

-----------------------------------------------------------------------------
(* A step inside execute that does not end it.                              *)
LEMMA StayCopy ==
  ASSUME CopyInv, EngineInv, NEW u \in UnitId, wpc[u] = "execute", Stay, Options,
         NEW label \in {"check", "copy", "copying"}, Goto(u, label),
         label = "check" => ~overwrite,
         label # "check" /\ ~overwrite => dest0[EntryOf(u)] = "absent",
         IF label = "copying" THEN dest' = [dest EXCEPT ![EntryOf(u)] = "partial"]
                              ELSE apc[u] # "copying" /\ dest' = dest
  PROVE  CopyInv'
<1> DEFINE e == EntryOf(u)
<1> USE DEF Stay, Options, vars, workerVars, effectVars
<1>1. /\ UNCHANGED <<out, applied, wpc, widx, wres, overwrite, skipIdentical, dest0>>
      /\ apc' = [apc EXCEPT ![u] = label] /\ \A v \in UnitId : EntryOf(v)' = EntryOf(v)
  BY DEF Goto, EntryOf
<1>2. e \in Entry /\ e \notin Listed /\ e \notin applied
      /\ \A v \in UnitId : v # u /\ wpc[v] \in {"execute", "drain", "record"} => EntryOf(v) # e
  BY ExecuteFacts
<1>3. DestTypes'
  BY <1>1, <1>2 DEF CopyInv, DestTypes, Content
<1>4. \A f \in Entry : f # e => dest'[f] = dest[f]
  BY <1>2 DEF CopyInv, DestTypes
<1>5. dest'[e] = IF label = "copying" THEN "partial" ELSE dest[e]
  BY <1>2 DEF CopyInv, DestTypes
<1>6. apc'[u] = label /\ \A v \in UnitId : v # u => apc'[v] = apc[v]
  BY <1>1 DEF CopyInv, DestTypes
<1> HIDE DEF e
<1>7. InsideInv(u)'
  BY <1>1, <1>5, <1>6 DEF InsideInv, e
<1>8. ASSUME NEW v \in UnitId, v # u PROVE InsideInv(v)' /\ (Broken(v) => Broken(v)')
  <2>1. InsideInv(v)
    BY DEF CopyInv
  <2>2. wpc[v] \in {"execute", "drain", "record"} => dest'[EntryOf(v)] = dest[EntryOf(v)]
    BY <1>2, <1>4, <1>8, EntryOfIsEntry DEF EngineInv
  <2> QED
    BY <1>1, <1>6, <1>8, <2>1, <2>2 DEF InsideInv, Broken
<1>9. PartialInv'
  <2> SUFFICES ASSUME NEW f \in Entry, dest'[f] = "partial"
               PROVE  f \in Entries(out'.failed) \/ \E v \in UnitId : Broken(v)' /\ f = EntryOf(v)'
    BY DEF PartialInv
  <2>1. CASE f = e /\ label = "copying"
    <3>1. Broken(u)'
      BY <1>6, <2>1 DEF Broken
    <3>2. f = EntryOf(u)'
      BY <1>1, <2>1 DEF e
    <3> QED
      BY <3>1, <3>2
  <2>2. CASE ~(f = e /\ label = "copying")
    <3>1. dest[f] = "partial"
      BY <1>4, <1>5, <2>2
    <3>2. CASE f \in Entries(out.failed)
      BY <1>1, <3>2
    <3>3. ASSUME NEW v \in UnitId, Broken(v), f = EntryOf(v)
          PROVE  \E w \in UnitId : Broken(w)' /\ f = EntryOf(w)'
      <4>1. v # u
        <5>1. label # "copying" => ~Broken(u)
          BY DEF Broken
        <5> QED
          BY <2>2, <3>3, <5>1 DEF e
      <4> QED
        BY <1>1, <1>8, <3>3, <4>1
    <3> QED
      BY <3>1, <3>2, <3>3 DEF CopyInv, PartialInv
  <2> QED
    BY <2>1, <2>2
<1>10. ExistingFileKept'
  BY <1>1, <1>4, <1>5 DEF CopyInv, ExistingFileKept, e
<1>11. \A f \in Entry : f \in applied' <=> dest'[f] = "copy"
  BY <1>1, <1>2, <1>4, <1>5 DEF CopyInv
<1>12. \A f \in Entries(out'.skipped) : dest'[f] = "same"
  BY <1>1, <1>2, <1>4, <1>5, SkippedAreEntries DEF CopyInv, Listed
<1> QED
  BY <1>3, <1>7, <1>8, <1>9, <1>10, <1>11, <1>12 DEF CopyInv

(* A step that ends execute with a result.                                  *)
LEMMA EndsCopy ==
  ASSUME CopyInv, EngineInv, NEW u \in UnitId, NEW r \in Results, Execute(u, r), Options,
         Goto(u, "parent"),
         IF r = "Written" THEN /\ dest' = [dest EXCEPT ![EntryOf(u)] = "copy"]
                               /\ ~overwrite => dest0[EntryOf(u)] = "absent"
                          ELSE dest' = dest,
         r = "Skipped" => dest[EntryOf(u)] = "same"
  PROVE  CopyInv'
<1> DEFINE e == EntryOf(u)
<1>1. /\ UNCHANGED <<out, widx, overwrite, skipIdentical, dest0>>
      /\ wpc[u] = "execute" /\ apc' = [apc EXCEPT ![u] = "parent"]
      /\ wpc' = [wpc EXCEPT ![u] = "drain"] /\ wres' = [wres EXCEPT ![u] = r]
      /\ applied' = IF r = "Written" THEN applied \cup {e} ELSE applied
      /\ \A v \in UnitId : EntryOf(v)' = EntryOf(v)
  BY DEF Execute, Goto, Options, EntryOf
<1>2. e \in Entry /\ e \notin Listed /\ e \notin applied
      /\ \A v \in UnitId : v # u /\ wpc[v] \in {"execute", "drain", "record"} => EntryOf(v) # e
  BY <1>1, ExecuteFacts
<1>3. DestTypes'
  BY <1>1, <1>2 DEF CopyInv, DestTypes, Content
<1>4. \A f \in Entry : f # e => dest'[f] = dest[f]
  BY <1>2 DEF CopyInv, DestTypes
<1>5. dest'[e] = IF r = "Written" THEN "copy" ELSE dest[e]
  BY <1>2 DEF CopyInv, DestTypes
<1>6. /\ apc'[u] = "parent" /\ wpc'[u] = "drain" /\ wres'[u] = r
      /\ \A v \in UnitId : v # u => apc'[v] = apc[v] /\ wpc'[v] = wpc[v] /\ wres'[v] = wres[v]
  BY <1>1 DEF CopyInv, DestTypes, EngineInv, TypeOK
<1>7. r = "Skipped" => dest'[e] = "same"
  BY <1>5
<1>8. r = "Written" /\ ~overwrite => dest0[e] = "absent"
  OBVIOUS
<1> HIDE DEF e
<1>9. InsideInv(u)'
  BY <1>1, <1>6, <1>7 DEF InsideInv, e
<1>10. ASSUME NEW v \in UnitId, v # u PROVE InsideInv(v)' /\ (Broken(v) => Broken(v)')
  <2>1. InsideInv(v)
    BY DEF CopyInv
  <2>2. wpc[v] \in {"execute", "drain", "record"} => dest'[EntryOf(v)] = dest[EntryOf(v)]
    BY <1>2, <1>4, <1>10, EntryOfIsEntry DEF EngineInv
  <2> QED
    BY <1>1, <1>6, <1>10, <2>1, <2>2 DEF InsideInv, Broken
<1>11. PartialInv'
  <2> SUFFICES ASSUME NEW f \in Entry, dest'[f] = "partial", f \notin Entries(out.failed)
               PROVE  \E v \in UnitId : Broken(v)' /\ f = EntryOf(v)'
    BY <1>1 DEF PartialInv
  <2>1. CASE f = e
    <3>1. r \in {"Error", "Fatal"}
      BY <1>5, <1>7, <2>1 DEF Results
    <3>2. Broken(u)'
      BY <1>6, <3>1 DEF Broken
    <3>3. f = EntryOf(u)'
      BY <1>1, <2>1 DEF e
    <3> QED
      BY <3>2, <3>3
  <2>2. CASE f # e
    <3>1. PICK v \in UnitId : Broken(v) /\ f = EntryOf(v)
      BY <1>4, <2>2 DEF CopyInv, PartialInv
    <3>2. v # u
      BY <2>2, <3>1 DEF e
    <3> QED
      BY <1>1, <1>10, <3>1, <3>2
  <2> QED
    BY <2>1, <2>2
<1>12. ExistingFileKept'
  BY <1>1, <1>4, <1>5, <1>8 DEF CopyInv, ExistingFileKept
<1>13. \A f \in Entry : f \in applied' <=> dest'[f] = "copy"
  BY <1>1, <1>2, <1>4, <1>5 DEF CopyInv
<1>14. \A f \in Entries(out'.skipped) : dest'[f] = "same"
  BY <1>1, <1>2, <1>4, SkippedAreEntries DEF CopyInv, Listed
<1> QED
  BY <1>3, <1>9, <1>10, <1>11, <1>12, <1>13, <1>14 DEF CopyInv

LEMMA TaskStepCopy == ASSUME CopyInv, EngineInv, NEW u \in UnitId, CopyTask(u) PROVE CopyInv'
<1> DEFINE e == EntryOf(u)
<1>0. wpc[u] = "execute" /\ Options /\ InsideInv(u)
  BY DEF CopyTask, MakeParent, CheckDest, BeginCopy, EndCopy, CopyInv
<1>1. e \in Entry /\ e \notin applied
  BY <1>0, ExecuteFacts
<1>2. ~overwrite /\ dest[e] = "absent" => dest0[e] = "absent"
  BY <1>1 DEF CopyInv, ExistingFileKept
<1>3. ASSUME NEW r \in {"Error", "Fatal"}, Execute(u, r), Goto(u, "parent"), dest' = dest
      PROVE  CopyInv'
  BY <1>0, <1>3, EndsCopy DEF Results
<1>4. CASE MakeParent(u)
  <2>1. CASE Stay /\ Goto(u, IF overwrite THEN "copy" ELSE "check")
    BY <1>0, <1>4, <2>1, StayCopy DEF MakeParent
  <2> QED
    BY <1>3, <1>4, <2>1 DEF MakeParent, FailExecute
<1>5. CASE CheckDest(u)
  <2>1. dest' = dest /\ apc[u] = "check" /\ ~overwrite
    BY <1>0, <1>5 DEF CheckDest, InsideInv
  <2>2. CASE ~Conflict(e) /\ Stay /\ Goto(u, "copy")
    <3>1. dest0[e] = "absent"
      BY <1>2, <2>1, <2>2 DEF Conflict, Exists
    <3> QED
      BY <1>0, <2>1, <2>2, <3>1, StayCopy
  <2>3. CASE Identical(e) /\ Execute(u, "Skipped") /\ Goto(u, "parent")
    <3>1. dest[e] = "same"
      BY <1>1, <2>3 DEF Identical, CopyInv
    <3> QED
      BY <1>0, <2>1, <2>3, <3>1, EndsCopy DEF Results
  <2> QED
    BY <1>3, <1>5, <2>1, <2>2, <2>3 DEF CheckDest, SkipResult, FailExecute
<1>6. CASE BeginCopy(u)
  <2>1. CASE Stay /\ Goto(u, "copying") /\ dest' = [dest EXCEPT ![e] = "partial"]
    <3>1. ~overwrite => dest0[e] = "absent"
      BY <1>0, <1>6 DEF BeginCopy, InsideInv
    <3> QED
      BY <1>0, <2>1, <3>1, StayCopy
  <2> QED
    BY <1>3, <1>6, <2>1 DEF BeginCopy, FailExecute
<1>7. CASE EndCopy(u)
  <2>1. CASE Execute(u, "Written") /\ dest' = [dest EXCEPT ![e] = "copy"]
    <3>1. Goto(u, "parent") /\ (~overwrite => dest0[e] = "absent")
      BY <1>0, <1>7 DEF EndCopy, InsideInv
    <3> QED
      BY <1>0, <2>1, <3>1, EndsCopy DEF Results
  <2> QED
    BY <1>3, <1>7, <2>1 DEF EndCopy, BrokenCopyResult
<1> QED
  BY <1>4, <1>5, <1>6, <1>7 DEF CopyTask

-----------------------------------------------------------------------------
(* A rollback visits copies of this call only.                              *)
LEMMA RollbackCopy == ASSUME CopyInv, EngineInv, UndoCopy PROVE CopyInv'
<1> DEFINE list == out.succeeded  e == list[undoLeft]
<1>1. PICK ok \in BOOLEAN :
        /\ UndoOne(ok) /\ Options /\ apc' = apc
        /\ dest' = IF ok THEN [dest EXCEPT ![e] = "absent"] ELSE dest
  BY DEF UndoCopy, UndoResult
<1>2. /\ mpc = "undo" /\ UNCHANGED <<out, wpc, widx, wres, overwrite, skipIdentical, dest0>>
      /\ applied' = IF ok THEN applied \ {e} ELSE applied
  BY <1>1 DEF UndoOne, workerVars, Options
<1>3. undoLeft \in 1 .. Len(list) /\ list \in Seq(Entry) /\ Len(list) \in Nat
  BY <1>1 DEF UndoOne, EngineInv, TypeOK, Outcome
<1>4. e \in Entry /\ e \in Entries(list)
  BY <1>3 DEF Entries
<1>5. e \in applied
  BY <1>2, <1>3 DEF EngineInv, EffectInv
<1>6. e \notin Entries(out.skipped)
  BY <1>4 DEF EngineInv, VerdictInv, ListInv
<1>7. \A u \in UnitId : apc[u] = "parent" /\ wpc[u] \notin {"drain", "record"}
  BY <1>2 DEF EngineInv, VerdictInv, JoinedInv, AllJoined, Running, CopyInv, InsideInv
<1>8. dest[e] = "copy" /\ (~overwrite => dest0[e] = "absent")
  BY <1>4, <1>5 DEF CopyInv, ExistingFileKept, DestTypes
<1>9. /\ \A f \in Entry : f # e => dest'[f] = dest[f]
      /\ dest'[e] = IF ok THEN "absent" ELSE "copy"
  BY <1>1, <1>4, <1>8 DEF CopyInv, DestTypes
<1>10. DestTypes'
  BY <1>1, <1>2, <1>4 DEF CopyInv, DestTypes, Content
<1> HIDE DEF list, e
<1>11. \A u \in UnitId : InsideInv(u)'
  BY <1>1, <1>2, <1>7 DEF InsideInv
<1>12. PartialInv'
  BY <1>2, <1>7, <1>8, <1>9 DEF CopyInv, PartialInv, Broken
<1>13. ExistingFileKept'
  BY <1>2, <1>8, <1>9 DEF CopyInv, ExistingFileKept
<1>14. \A f \in Entry : f \in applied' <=> dest'[f] = "copy"
  BY <1>2, <1>5, <1>9 DEF CopyInv
<1>15. \A f \in Entries(out'.skipped) : dest'[f] = "same"
  BY <1>2, <1>6, <1>9, SkippedAreEntries DEF CopyInv
<1> QED
  BY <1>10, <1>11, <1>12, <1>13, <1>14, <1>15 DEF CopyInv

(* A file that appears takes a place no copy and no skipped file is at.     *)
LEMMA IntruderCopy == ASSUME CopyInv, EngineInv, NEW e \in Entry, Intrude(e) PROVE CopyInv'
<1>1. /\ dest[e] = "absent" /\ dest' = [dest EXCEPT ![e] = "other"]
      /\ UNCHANGED <<out, wpc, widx, wres, applied, overwrite, skipIdentical, dest0, apc>>
  BY DEF Intrude, vars, workerVars, effectVars
<1>2. \A f \in Entry : dest'[f] = IF f = e THEN "other" ELSE dest[f]
  BY <1>1 DEF CopyInv, DestTypes
<1>3. DestTypes'
  BY <1>1 DEF CopyInv, DestTypes, Content
<1>4. \A u \in UnitId : EntryOf(u)' = EntryOf(u)
  BY <1>1 DEF EntryOf
<1>5. ASSUME NEW u \in UnitId PROVE InsideInv(u)' /\ Broken(u)' = Broken(u)
  <2>1. InsideInv(u)
    BY DEF CopyInv
  <2>2. wpc[u] \in {"execute", "drain", "record"} => EntryOf(u) \in Entry
    BY EntryOfIsEntry DEF EngineInv
  <2> QED
    BY <1>1, <1>2, <1>4, <2>1, <2>2 DEF InsideInv, Broken
<1>6. PartialInv'
  BY <1>1, <1>2, <1>4, <1>5 DEF CopyInv, PartialInv
<1> QED
  BY <1>1, <1>2, <1>3, <1>5, <1>6, SkippedAreEntries DEF CopyInv, ExistingFileKept

-----------------------------------------------------------------------------
LEMMA CopyInvStep ==
  ASSUME CopyInv, EngineInv, [CopyNext]_<<vars, copyVars>>
  PROVE  CopyInv'
<1>1. CASE Engine
  BY <1>1, LoopCopy, TaskCopy DEF Engine
<1>2. CASE UNCHANGED <<vars, copyVars>>
  BY <1>2, QuietCopy
<1> QED
  BY <1>1, <1>2, TaskStepCopy, RollbackCopy, IntruderCopy DEF CopyNext

(* The engine's invariants hold of copies, whose own invariant ties each    *)
(* task to the state of its destination: a file is a copy of this call iff  *)
(* the engine counts it as applied, and a truncated one is being written or *)
(* its failure is told.                                                     *)
THEOREM CopyInvariant == CopySpec => [](EngineInv /\ CopyInv)
<1>1. CopyInit => EngineInv /\ CopyInv
  BY EngineInvInit, CopyInvInit DEF CopyInit
<1>2. EngineInv /\ CopyInv /\ [CopyNext]_<<vars, copyVars>> => (EngineInv /\ CopyInv)'
  BY CopyInvStep, EngineInvStep, CopyStepIsEngineStep
<1> QED
  BY <1>1, <1>2, PTL DEF CopySpec

(* Every copy is a run of the engine: what CopyAction does inside execute   *)
(* is a step of the engine, for a result the engine allows, or invisible.   *)
THEOREM CopyRunsEngine == CopySpec => Init /\ [][Next]_vars
<1>1. CopyInit => Init
  BY DEF CopyInit
<1>2. [CopyNext]_<<vars, copyVars>> => [Next]_vars
  BY CopyStepIsEngineStep
<1> QED
  BY <1>1, <1>2, PTL DEF CopySpec

(* Without overwrite, what was at a destination before the call stays, for  *)
(* every plan, strategy, failure, rollback and file from outside.           *)
THEOREM NothingOverwritten == CopySpec => []ExistingFileKept
<1>1. CopyInv => ExistingFileKept
  BY DEF CopyInv
<1> QED
  BY <1>1, CopyInvariant, PTL

(* What the outcome of a copy lists is what is on the disk.                 *)
THEOREM OutcomeIsOnDisk == CopySpec => []OutcomeMatchesFiles
<1>1. EngineInv /\ CopyInv => OutcomeMatchesFiles
  <2> SUFFICES ASSUME EngineInv, CopyInv, mpc = "returned" PROVE OutcomeMatchesFiles
    BY DEF OutcomeMatchesFiles
  <2>1. applied = Entries(out.succeeded) \cup undoFailed /\ applied \subseteq Entry
    BY DEF EngineInv, TypeOK, EffectInv, OutcomeTellsEffects
  <2>2. \A u \in UnitId : ~Broken(u)
    BY DEF EngineInv, VerdictInv, JoinedInv, AllJoined, Running, CopyInv, InsideInv, Broken
  <2>3. \A e \in Entries(out.succeeded) : dest[e] = "copy"
    BY <2>1 DEF CopyInv
  <2>4. \A e \in Entry : dest[e] = "copy" => e \in Entries(out.succeeded) \cup undoFailed
    BY <2>1 DEF CopyInv
  <2>5. \A e \in Entry : dest[e] = "partial" => e \in Entries(out.failed)
    BY <2>2 DEF CopyInv, PartialInv
  <2>6. \A e \in Entries(out.skipped) : Identical(e)
    BY DEF CopyInv, Identical
  <2> QED
    BY <2>3, <2>4, <2>5, <2>6 DEF OutcomeMatchesFiles
<1> QED
  BY <1>1, CopyInvariant, PTL

-----------------------------------------------------------------------------
(***************************************************************************)
(* The estimator that observes a copy, for every plan, threshold, number of *)
(* directories and orphans.                                                 *)
(***************************************************************************)

(* Every state its fields can be in.                                        *)
Estimators ==
  [threshold : Nat, dirs : Nat, small : Nat, bytes : Nat, dirsOn : BOOLEAN,
   smallOn : Nat, largeOn : Nat, credited : [Entry -> Nat], awaiting : BOOLEAN,
   worked : SUBSET Rates, rate : [Rates -> RateState]]

(* From x to y no work is added.                                            *)
NoMore(x, y) == y.dirs <= x.dirs /\ y.small <= x.small /\ y.bytes <= x.bytes

(* An event turned x to y, before its interval is charged: the rates F got  *)
(* work, and no rate has changed.                                           *)
Adds(x, y, F) == y.rate = x.rate /\ F \subseteq y.worked
Fits(x, y, F) == NoMore(x, y) /\ Adds(x, y, F)

(* From x to z, interval included: a known rate is only lost where work was *)
(* in flight and F brought none, and a rate that was not known cannot fade. *)
Lasts(x, z, F, r) ==
  /\ Known(x, r) /\ (r \in Busy(x) => r \in F) => Known(z, r)
  /\ x.rate[r] \in {"none", "work"} => z.rate[r] # "faded"
Surer(x, z, F)   == \A r \in Rates : Lasts(x, z, F, r)
Settled(x, z, F) == NoMore(x, z) /\ Surer(x, z, F)

(* The same books: all but the rates.                                       *)
SameBooks(x, y) ==
  /\ y.threshold = x.threshold /\ y.dirs = x.dirs /\ y.small = x.small /\ y.bytes = x.bytes
  /\ y.dirsOn = x.dirsOn /\ y.smallOn = x.smallOn /\ y.largeOn = x.largeOn
  /\ y.credited = x.credited /\ y.awaiting = x.awaiting

LEMMA MinusFacts ==
  ASSUME NEW a \in Nat, NEW b \in Nat
  PROVE  /\ Minus(a, b) \in Nat /\ Minus(a, b) <= a
         /\ b <= a => Minus(a, b) = a - b
         /\ a <= b => Minus(a, b) = 0
  BY DEF Minus

LEMMA RateFacts == Rates = {"Directory", "SmallFile", "LargeFile", "Overall"}
  BY DEF Rates, Regimes

LEMMA SampledFacts ==
  ASSUME NEW state \in RateState, NEW worked \in BOOLEAN, NEW timed \in BOOLEAN,
         NEW t \in Sampled(state, worked, timed)
  PROVE  /\ t \in RateState
         /\ state = "known" /\ (timed => worked) => t = "known"
         /\ state \in {"none", "work"} => t # "faded"
  BY DEF Sampled, RateState

LEMMA WorkedFacts ==
  ASSUME NEW x \in Estimators, NEW rates \in SUBSET Rates, NEW n \in Nat
  PROVE  /\ Worked(x, rates, n) \in Estimators /\ SameBooks(x, Worked(x, rates, n))
         /\ Adds(x, Worked(x, rates, n), x.worked)
         /\ n > 0 => Adds(x, Worked(x, rates, n), x.worked \cup rates)
<1> DEFINE y == Worked(x, rates, n)
<1>1. CASE n = 0
  <2>1. y = x
    BY <1>1 DEF Worked
  <2> QED
    BY <1>1, <2>1 DEF SameBooks, Adds
<1>2. CASE n # 0
  <2>1. PICK w : w = x.worked \cup rates
    OBVIOUS
  <2>2. w \in SUBSET Rates
    BY <2>1 DEF Estimators
  <2>3. y = [x EXCEPT !.worked = w]
    BY <1>2, <2>1 DEF Worked
  <2>4. y \in Estimators /\ SameBooks(x, y) /\ y.rate = x.rate /\ y.worked = w
    BY <2>2, <2>3 DEF SameBooks, Estimators
  <2> HIDE DEF y
  <2>5. Adds(x, y, x.worked) /\ Adds(x, y, x.worked \cup rates)
    BY <2>1, <2>4 DEF Adds
  <2> QED
    BY <2>4, <2>5 DEF y
<1> QED
  BY <1>1, <1>2

(* The interval before an event leaves a known rate where it had no work in *)
(* flight, or where the event brought work.                                 *)
LEMMA ChargedFacts ==
  ASSUME NEW x \in Estimators, NEW y \in Estimators, NEW z \in Charged(x, y)
  PROVE  z \in Estimators /\ SameBooks(y, z) /\ \A F : Adds(x, y, F) => Surer(x, z, F)
<1>1. PICK moved \in BOOLEAN : z \in ChargedIf(moved, x, y)
  <2>1. (IF CoarseClock THEN BOOLEAN ELSE {TRUE}) \subseteq BOOLEAN
    OBVIOUS
  <2> QED
    BY <2>1 DEF Charged
<1>2. PICK d \in Next1(moved, x, y, "Directory"), s \in Next1(moved, x, y, "SmallFile"),
           l \in Next1(moved, x, y, "LargeFile"), o \in Next1(moved, x, y, "Overall") :
        z = Settle(y, d, s, l, o)
  BY <1>1 DEF ChargedIf
<1> DEFINE q == [r \in Rates |-> CASE r = "Directory" -> d [] r = "SmallFile" -> s
                                   [] r = "LargeFile" -> l [] OTHER -> o]
<1>3. q["Directory"] = d /\ q["SmallFile"] = s /\ q["LargeFile"] = l /\ q["Overall"] = o
  BY RateFacts
<1>4. q = [r \in Rates |-> q[r]]
  OBVIOUS
<1>5. z = [y EXCEPT !.worked = {}, !.rate = q]
  BY <1>2 DEF Settle
<1> HIDE DEF q
<1>6. \A r \in Rates : q[r] \in Next1(moved, x, y, r)
  BY <1>3, RateFacts
<1>7. ASSUME NEW r \in Rates
      PROVE  /\ q[r] \in RateState
             /\ y.rate[r] = "known" /\ (moved /\ r \in Busy(x) => r \in y.worked) => q[r] = "known"
             /\ y.rate[r] \in {"none", "work"} => q[r] # "faded"
  <2>1. y.rate[r] \in RateState /\ (r \in y.worked) \in BOOLEAN /\ (moved /\ r \in Busy(x)) \in BOOLEAN
    BY DEF Estimators
  <2>2. PICK state, worked, timed : /\ state = y.rate[r] /\ worked = (r \in y.worked)
                                    /\ timed = (moved /\ r \in Busy(x))
    OBVIOUS
  <2>3. q[r] \in Sampled(state, worked, timed)
    BY <1>6, <2>2, Zenon DEF Next1
  <2>4. state \in RateState /\ worked \in BOOLEAN /\ timed \in BOOLEAN
    BY <2>1, <2>2, Zenon
  <2>5. /\ q[r] \in RateState
        /\ state = "known" /\ (timed => worked) => q[r] = "known"
        /\ state \in {"none", "work"} => q[r] # "faded"
    BY <2>3, <2>4, SampledFacts
  <2> QED
    BY <2>2, <2>5, Zenon
<1>8. q \in [Rates -> RateState]
  BY <1>4, <1>7
<1>9. z.rate = q /\ SameBooks(y, z) /\ z \in Estimators
  BY <1>5, <1>8 DEF SameBooks, Estimators
<1>10. ASSUME NEW F, Adds(x, y, F) PROVE Surer(x, z, F)
  BY <1>7, <1>9, <1>10 DEF Surer, Lasts, Known, Adds
<1> QED
  BY <1>9, <1>10

LEMMA Settling ==
  ASSUME NEW x \in Estimators, NEW y \in Estimators, NEW F, Fits(x, y, F), NEW z \in Charged(x, y)
  PROVE  z \in Estimators /\ SameBooks(y, z) /\ Settled(x, z, F)
<1>1. z \in Estimators /\ SameBooks(y, z) /\ Surer(x, z, F)
  BY ChargedFacts DEF Fits
<1> QED
  BY <1>1 DEF Settled, NoMore, SameBooks, Fits

LEMMA SettledForLess ==
  ASSUME NEW x, NEW z, NEW F, NEW G, Settled(x, z, F), G \subseteq F PROVE Settled(x, z, G)
  BY DEF Settled, Surer, Lasts

LEMMA EstimateStays ==
  ASSUME NEW x \in Estimators, NEW z \in Estimators, NEW F, Settled(x, z, F), HasEstimate(x),
         \A r \in Basis(x) \cap Busy(x) : r \in F
  PROVE  HasEstimate(z)
<1>1. \A r \in {"Directory", "SmallFile", "LargeFile", "Overall"} :
        /\ Known(x, r) /\ r \in Basis(x) => Known(z, r)
        /\ x.rate[r] \in {"none", "work"} => z.rate[r] # "faded"
  BY RateFacts DEF Settled, Surer, Lasts
<1>2. /\ z.dirs > 0 => x.dirs > 0
      /\ z.small > 0 => x.small > 0
      /\ z.bytes > 0 => x.bytes > 0
  BY DEF Estimators, Settled, NoMore
<1>3. x.dirs > 0 => Known(z, "Directory")
  BY <1>1 DEF HasEstimate, Basis
<1>4. x.small > 0 => Known(z, "SmallFile")
  BY <1>1 DEF HasEstimate, Basis
<1>5. x.bytes > 0 => Known(z, ByteRate(z))
  <2> SUFFICES ASSUME x.bytes > 0 PROVE Known(z, ByteRate(z))
    OBVIOUS
  <2>1. ByteRate(x) \in Basis(x) /\ Known(x, ByteRate(x))
    BY DEF HasEstimate, Basis
  <2>2. CASE ByteRate(x) = "LargeFile"
    BY <1>1, <2>1, <2>2 DEF ByteRate, Known
  <2>3. CASE ByteRate(x) = "Overall"
    <3>1. x.rate["LargeFile"] \in {"none", "work"}
      BY <2>3, RateFacts DEF ByteRate, Estimators, RateState
    <3>2. Known(z, "Overall") /\ z.rate["LargeFile"] # "faded"
      BY <1>1, <2>1, <2>3, <3>1
    <3> QED
      BY <3>2 DEF ByteRate, Known
  <2> QED
    BY <2>2, <2>3 DEF ByteRate
<1> QED
  BY <1>2, <1>3, <1>4, <1>5 DEF HasEstimate, Basis

-----------------------------------------------------------------------------
(* What each event changes in the books.                                    *)
LEMMA DirectoryEndedFacts ==
  ASSUME NEW x \in Estimators
  PROVE  LET y == DirectoryEnded(x) IN
         /\ y \in Estimators /\ Fits(x, y, {"Directory"})
         /\ y.threshold = x.threshold /\ y.dirs = Minus(x.dirs, 1) /\ y.small = x.small
         /\ y.bytes = x.bytes /\ y.smallOn = x.smallOn /\ y.largeOn = x.largeOn
         /\ y.credited = x.credited /\ y.awaiting = x.awaiting
<1> DEFINE y == DirectoryEnded(x)
<1>1. PICK w : w = Worked(x, {"Directory"}, 1)
  OBVIOUS
<1>2. w \in Estimators /\ SameBooks(x, w) /\ Adds(x, w, x.worked \cup {"Directory"})
  BY <1>1, WorkedFacts, RateFacts
<1>3. y = [w EXCEPT !.dirs = Minus(w.dirs, 1), !.dirsOn = w.dirsOn /\ x.dirs > 1]
  BY <1>1 DEF DirectoryEnded
<1>4. Minus(x.dirs, 1) \in Nat /\ Minus(x.dirs, 1) <= x.dirs
  BY MinusFacts DEF Estimators
<1>5. y \in Estimators /\ y.rate = w.rate /\ y.worked = w.worked
  BY <1>2, <1>3, <1>4 DEF Estimators, SameBooks
<1>6. /\ y.threshold = x.threshold /\ y.dirs = Minus(x.dirs, 1) /\ y.small = x.small
      /\ y.bytes = x.bytes /\ y.smallOn = x.smallOn /\ y.largeOn = x.largeOn
      /\ y.credited = x.credited /\ y.awaiting = x.awaiting
  BY <1>2, <1>3 DEF Estimators, SameBooks
<1> HIDE DEF y
<1>7. Adds(x, y, {"Directory"})
  BY <1>2, <1>5 DEF Adds
<1>8. NoMore(x, y)
  BY <1>4, <1>6 DEF NoMore, Estimators
<1> QED
  BY <1>5, <1>6, <1>7, <1>8 DEF y, Fits

LEMMA EntryStartedFacts ==
  ASSUME NEW x \in Estimators, NEW size \in Nat
  PROVE  LET y == EntryStarted(x, size) IN
         /\ y \in Estimators /\ Fits(x, y, {})
         /\ y.threshold = x.threshold /\ y.dirs = x.dirs /\ y.dirsOn = x.dirsOn
         /\ y.small = x.small /\ y.bytes = x.bytes /\ y.credited = x.credited
         /\ size > x.threshold => y.largeOn = x.largeOn + 1 /\ y.smallOn = x.smallOn
         /\ ~(size > x.threshold) => y.largeOn = x.largeOn /\ y.smallOn = x.smallOn + 1
<1> DEFINE y == EntryStarted(x, size)
<1>1. CASE size > x.threshold
  <2>1. y = [x EXCEPT !.largeOn = x.largeOn + 1]
    BY <1>1 DEF EntryStarted, OverThreshold
  <2> QED
    BY <1>1, <2>1 DEF Estimators, Fits, NoMore, Adds
<1>2. CASE ~(size > x.threshold)
  <2>1. y = [x EXCEPT !.smallOn = x.smallOn + 1]
    BY <1>2 DEF EntryStarted, OverThreshold
  <2> QED
    BY <1>2, <2>1 DEF Estimators, Fits, NoMore, Adds
<1> QED
  BY <1>1, <1>2

(* An entry over the threshold is counted in bytes, any other as a file.    *)
LEMMA EntrySkippedFacts ==
  ASSUME NEW x \in Estimators, NEW size \in Nat
  PROVE  LET y == EntrySkipped(x, size) IN
         /\ y \in Estimators /\ Fits(x, y, {})
         /\ y.threshold = x.threshold /\ y.dirs = x.dirs /\ y.dirsOn = x.dirsOn
         /\ y.credited = x.credited
         /\ size > x.threshold =>
              /\ y.bytes = Minus(x.bytes, size) /\ y.largeOn = Minus(x.largeOn, 1)
              /\ y.small = x.small /\ y.smallOn = x.smallOn
         /\ ~(size > x.threshold) =>
              /\ y.small = Minus(x.small, 1) /\ y.smallOn = Minus(x.smallOn, 1)
              /\ y.bytes = x.bytes /\ y.largeOn = x.largeOn
<1> DEFINE y == EntrySkipped(x, size)
<1>0. \A a, b \in Nat : Minus(a, b) \in Nat /\ Minus(a, b) <= a
  BY MinusFacts
<1>1. CASE size > x.threshold
  <2>1. y = [x EXCEPT !.bytes = Minus(x.bytes, size), !.largeOn = Minus(x.largeOn, 1)]
    BY <1>1 DEF EntrySkipped, OverThreshold
  <2>2. Minus(x.bytes, size) \in Nat /\ Minus(x.bytes, size) <= x.bytes /\ Minus(x.largeOn, 1) \in Nat
    BY <1>0 DEF Estimators
  <2>3. /\ y \in Estimators /\ y.rate = x.rate
        /\ y.threshold = x.threshold /\ y.dirs = x.dirs /\ y.dirsOn = x.dirsOn
        /\ y.credited = x.credited
        /\ y.bytes = Minus(x.bytes, size) /\ y.largeOn = Minus(x.largeOn, 1)
        /\ y.small = x.small /\ y.smallOn = x.smallOn
    BY <2>1, <2>2 DEF Estimators
  <2> HIDE DEF y
  <2>4. Fits(x, y, {})
    BY <2>2, <2>3 DEF Estimators, Fits, NoMore, Adds
  <2> QED
    BY <1>1, <2>3, <2>4 DEF y
<1>2. CASE ~(size > x.threshold)
  <2>1. y = [x EXCEPT !.small = Minus(x.small, 1), !.smallOn = Minus(x.smallOn, 1)]
    BY <1>2 DEF EntrySkipped, OverThreshold
  <2>2. Minus(x.small, 1) \in Nat /\ Minus(x.small, 1) <= x.small /\ Minus(x.smallOn, 1) \in Nat
    BY <1>0 DEF Estimators
  <2>3. /\ y \in Estimators /\ y.rate = x.rate
        /\ y.threshold = x.threshold /\ y.dirs = x.dirs /\ y.dirsOn = x.dirsOn
        /\ y.credited = x.credited
        /\ y.small = Minus(x.small, 1) /\ y.smallOn = Minus(x.smallOn, 1)
        /\ y.bytes = x.bytes /\ y.largeOn = x.largeOn
    BY <2>1, <2>2 DEF Estimators
  <2> HIDE DEF y
  <2>4. Fits(x, y, {})
    BY <2>2, <2>3 DEF Estimators, Fits, NoMore, Adds
  <2> QED
    BY <1>2, <2>3, <2>4 DEF y
<1> QED
  BY <1>1, <1>2

EndFeeds(large, whole, rest) ==
  IF large THEN (IF rest > 0 THEN {"LargeFile", "Overall"} ELSE {})
  ELSE {"SmallFile"} \cup (IF whole > 0 THEN {"Overall"} ELSE {})

LEMMA EntryEndedFacts ==
  ASSUME NEW x \in Estimators, NEW e \in Entry
  PROVE  LET y == EntryEnded(x, e) IN
         /\ y \in Estimators
         /\ Fits(x, y, EndFeeds(Size[e] > x.threshold, Size[e], Minus(Size[e], x.credited[e])))
         /\ y.threshold = x.threshold /\ y.dirs = x.dirs /\ y.dirsOn = x.dirsOn
         /\ \A f \in Entry : f # e => y.credited[f] = x.credited[f]
         /\ Size[e] > x.threshold =>
              /\ y.bytes = Minus(x.bytes, Minus(Size[e], x.credited[e]))
              /\ y.largeOn = Minus(x.largeOn, 1) /\ y.small = x.small /\ y.smallOn = x.smallOn
         /\ ~(Size[e] > x.threshold) =>
              /\ y.small = Minus(x.small, 1) /\ y.smallOn = Minus(x.smallOn, 1)
              /\ y.bytes = x.bytes /\ y.largeOn = x.largeOn
<1> DEFINE y == EntryEnded(x, e)
           n == Minus(Size[e], x.credited[e])
<1>0. \A a, b \in Nat : Minus(a, b) \in Nat /\ Minus(a, b) <= a
  BY MinusFacts
<1>1. Size[e] \in Nat /\ x.credited[e] \in Nat /\ n \in Nat
  BY <1>0, SizeAssumption DEF Estimators
<1> HIDE DEF n
<1>2. CASE Size[e] > x.threshold
  <2>1. PICK w : w = Worked(x, {"LargeFile", "Overall"}, n)
    OBVIOUS
  <2>2. w \in Estimators /\ SameBooks(x, w) /\ Adds(x, w, x.worked)
        /\ (n > 0 => Adds(x, w, x.worked \cup {"LargeFile", "Overall"}))
    BY <1>1, <2>1, WorkedFacts, RateFacts
  <2>3. y = [w EXCEPT !.bytes = Minus(w.bytes, n), !.largeOn = Minus(w.largeOn, 1),
                      !.credited = [w.credited EXCEPT ![e] = 0]]
    BY <1>2, <2>1 DEF EntryEnded, OverThreshold, Outstanding, n
  <2>4. Minus(w.bytes, n) \in Nat /\ Minus(w.bytes, n) <= w.bytes /\ Minus(w.largeOn, 1) \in Nat
    BY <1>0, <1>1, <2>2 DEF Estimators
  <2>a. [w.credited EXCEPT ![e] = 0] \in [Entry -> Nat]
    BY <2>2 DEF Estimators
  <2>5. y \in Estimators /\ y.rate = w.rate /\ y.worked = w.worked
    BY <2>2, <2>3, <2>4, <2>a DEF Estimators
  <2>6. /\ y.threshold = x.threshold /\ y.dirs = x.dirs /\ y.dirsOn = x.dirsOn
        /\ y.credited = [x.credited EXCEPT ![e] = 0]
        /\ y.bytes = Minus(x.bytes, n) /\ y.largeOn = Minus(x.largeOn, 1)
        /\ y.small = x.small /\ y.smallOn = x.smallOn
    BY <2>2, <2>3 DEF Estimators, SameBooks
  <2> HIDE DEF y
  <2>7. Adds(x, y, EndFeeds(TRUE, Size[e], n))
    BY <2>2, <2>5 DEF Adds, EndFeeds
  <2>8. NoMore(x, y)
    BY <2>2, <2>4, <2>6 DEF NoMore, Estimators, SameBooks
  <2>9. \A f \in Entry : f # e => y.credited[f] = x.credited[f]
    BY <2>6 DEF Estimators
  <2> QED
    BY <1>2, <2>5, <2>6, <2>7, <2>8, <2>9 DEF y, n, Fits, EndFeeds
<1>3. CASE ~(Size[e] > x.threshold)
  <2>1. PICK v, w : v = Worked(x, {"SmallFile"}, 1) /\ w = Worked(v, {"Overall"}, Size[e])
    OBVIOUS
  <2>2. v \in Estimators /\ SameBooks(x, v) /\ Adds(x, v, x.worked \cup {"SmallFile"})
    BY <2>1, WorkedFacts, RateFacts
  <2>3. w \in Estimators /\ SameBooks(v, w) /\ Adds(v, w, v.worked)
        /\ (Size[e] > 0 => Adds(v, w, v.worked \cup {"Overall"}))
    BY <1>1, <2>1, <2>2, WorkedFacts, RateFacts
  <2>4. y = [w EXCEPT !.small = Minus(w.small, 1), !.smallOn = Minus(w.smallOn, 1)]
    BY <1>3, <2>1 DEF EntryEnded, OverThreshold
  <2>5. Minus(w.small, 1) \in Nat /\ Minus(w.small, 1) <= w.small /\ Minus(w.smallOn, 1) \in Nat
    BY <1>0, <2>3 DEF Estimators
  <2>6. y \in Estimators /\ y.rate = w.rate /\ y.worked = w.worked
    BY <2>3, <2>4, <2>5 DEF Estimators
  <2>7. /\ y.threshold = x.threshold /\ y.dirs = x.dirs /\ y.dirsOn = x.dirsOn
        /\ y.credited = x.credited /\ y.bytes = x.bytes /\ y.largeOn = x.largeOn
        /\ y.small = Minus(x.small, 1) /\ y.smallOn = Minus(x.smallOn, 1)
    BY <2>2, <2>3, <2>4 DEF Estimators, SameBooks
  <2> HIDE DEF y
  <2>8. Adds(x, y, EndFeeds(FALSE, Size[e], n))
    BY <2>2, <2>3, <2>6 DEF Adds, EndFeeds
  <2>9. NoMore(x, y)
    BY <2>2, <2>3, <2>5, <2>7 DEF NoMore, Estimators, SameBooks
  <2> QED
    BY <1>3, <2>6, <2>7, <2>8, <2>9 DEF y, n, Fits, EndFeeds
<1> QED
  BY <1>2, <1>3

(* Only what a sample adds to the last one is taken off.                    *)
LEMMA EntryProgressFacts ==
  ASSUME NEW x \in Estimators, NEW e \in Entry, NEW n \in Nat, n > x.credited[e]
  PROVE  LET y == EntryProgress(x, e, n) IN
         /\ y \in Estimators /\ Fits(x, y, {"LargeFile", "Overall"})
         /\ y.threshold = x.threshold /\ y.dirs = x.dirs /\ y.dirsOn = x.dirsOn
         /\ y.credited = [x.credited EXCEPT ![e] = n]
         /\ y.bytes = Minus(x.bytes, n - x.credited[e]) /\ y.largeOn = x.largeOn
         /\ y.small = x.small /\ y.smallOn = x.smallOn
<1> DEFINE y == EntryProgress(x, e, n)
           d == Minus(n, x.credited[e])
<1>0. x.credited[e] \in Nat
  BY DEF Estimators
<1>1. d \in Nat /\ d = n - x.credited[e] /\ d # 0
  <2>1. PICK c \in Nat : c = x.credited[e]
    BY <1>0
  <2>2. n > c
    BY <2>1
  <2>3. Minus(n, c) \in Nat /\ Minus(n, c) = n - c /\ n - c # 0
    BY <2>2 DEF Minus
  <2> QED
    BY <2>1, <2>3
<1> HIDE DEF d
<1>2. PICK w : w = Worked(x, {"LargeFile", "Overall"}, d)
  OBVIOUS
<1>3. w \in Estimators /\ SameBooks(x, w) /\ Adds(x, w, x.worked \cup {"LargeFile", "Overall"})
  <2>1. d > 0
    BY <1>1
  <2> QED
    BY <1>1, <1>2, <2>1, WorkedFacts, RateFacts
<1>4. y = [w EXCEPT !.credited = [w.credited EXCEPT ![e] = n], !.bytes = Minus(w.bytes, d)]
  BY <1>1, <1>2 DEF EntryProgress, d
<1>5. Minus(w.bytes, d) \in Nat /\ Minus(w.bytes, d) <= w.bytes
  BY <1>1, <1>3, MinusFacts DEF Estimators
<1>a. [w.credited EXCEPT ![e] = n] \in [Entry -> Nat]
  BY <1>3 DEF Estimators
<1>6. y \in Estimators /\ y.rate = w.rate /\ y.worked = w.worked
  BY <1>3, <1>4, <1>5, <1>a DEF Estimators
<1>7. /\ y.threshold = x.threshold /\ y.dirs = x.dirs /\ y.dirsOn = x.dirsOn
      /\ y.credited = [x.credited EXCEPT ![e] = n]
      /\ y.bytes = Minus(x.bytes, d) /\ y.largeOn = x.largeOn
      /\ y.small = x.small /\ y.smallOn = x.smallOn
  BY <1>3, <1>4 DEF Estimators, SameBooks
<1> HIDE DEF y
<1>8. Adds(x, y, {"LargeFile", "Overall"})
  BY <1>3, <1>6 DEF Adds
<1>9. NoMore(x, y)
  BY <1>3, <1>5, <1>7 DEF NoMore, Estimators, SameBooks
<1> QED
  BY <1>1, <1>6, <1>7, <1>8, <1>9 DEF y, Fits

-----------------------------------------------------------------------------
(* What the engine's steps send.                                            *)
Streamed == \A u \in UnitId : sampler[u] # "off" => Units[u].kind = "stream"

AnnouncesStart(e) ==
  /\ reported[e] = "none" /\ reported' = [reported EXCEPT ![e] = "Started"]
  /\ UNCHANGED progress
AnnouncesEnd(e, verdict) ==
  /\ reported[e] = "Started" /\ reported' = [reported EXCEPT ![e] = verdict]
  /\ UNCHANGED progress
AnnouncesSample(e, n) ==
  /\ IsLarge(e) /\ reported[e] = "Started" /\ n > progress[e] /\ n <= Size[e]
  /\ progress' = [progress EXCEPT ![e] = n] /\ UNCHANGED reported

LEMMA StreamsAreLarge ==
  ASSUME NEW u \in UnitId, Units[u].kind = "stream", NEW i \in 1 .. Len(Units[u].entries)
  PROVE  IsLarge(At(u, i))
<1>1. u \in DOMAIN Units /\ i \in DOMAIN Units[u].entries
  BY UnitFacts
<1> QED
  BY <1>1, EtaAssumption DEF IsLarge, At

LEMMA StartAnnounces ==
  ASSUME EngineInv, Streamed, NEW u \in UnitId, StartEntry(u)
  PROVE  Streamed' /\ \E e \in Planned : AnnouncesStart(e)
<1> DEFINE k == widx[u] + 1  e == At(u, k)
<1>1. /\ k \in 1 .. Len(Units[u].entries) /\ widx[u] \in Nat
      /\ reported' = [reported EXCEPT ![e] = "Started"]
      /\ UNCHANGED progress
  BY HandFacts DEF StartEntry, HasMore, At, EngineInv, TypeOK
<1>2. e \in Planned /\ reported[e] = "none"
  BY <1>1, PlaceFacts DEF EngineInv, VerdictInv, TaskInv
<1>3. sampler' = IF Units[u].kind = "stream" /\ HasTarget
                 THEN [sampler EXCEPT ![u] = "sleep"] ELSE sampler
  BY DEF StartEntry
<1>4. \A v \in UnitId : sampler'[v] # "off" => sampler[v] # "off" \/ (v = u /\ Units[u].kind = "stream")
  BY <1>3 DEF EngineInv, TypeOK
<1> QED
  BY <1>1, <1>2, <1>4 DEF Streamed, AnnouncesStart

LEMMA ReportAnnounces ==
  ASSUME EngineInv, Streamed, NEW u \in UnitId, ReportEntry(u)
  PROVE  Streamed' /\ \E e \in Planned : \E verdict \in Verdicts : AnnouncesEnd(e, verdict)
<1> DEFINE e == EntryOf(u)
<1>1. /\ wpc[u] = "drain" /\ reported' = [reported EXCEPT ![e] = Terminal(wres[u])]
      /\ UNCHANGED <<sampler, progress>>
  BY DEF ReportEntry, samplerVars
<1>2. widx[u] \in 1 .. Len(Units[u].entries) /\ e = At(u, widx[u])
  BY <1>1, HandFacts DEF InHand, EngineInv
<1>3. e \in Planned /\ reported[e] = "Started"
  BY <1>1, <1>2, PlaceFacts DEF EngineInv, VerdictInv, TaskInv
<1>4. Terminal(wres[u]) \in Verdicts
  BY DEF Terminal, Verdicts
<1> QED
  BY <1>1, <1>3, <1>4 DEF Streamed, AnnouncesEnd

LEMMA SamplerAnnounces ==
  ASSUME EngineInv, Streamed, NEW u \in UnitId, SamplerSend(u)
  PROVE  /\ Streamed'
         /\ \/ UNCHANGED <<reported, progress>>
            \/ \E e \in Planned : \E n \in Nat : AnnouncesSample(e, n)
<1> DEFINE e == EntryOf(u)  n == Clamped(u)
<1>1. /\ sampler[u] = "measured" /\ sampler' = [sampler EXCEPT ![u] = "sleep"]
      /\ progress' = IF n > progress[e] THEN [progress EXCEPT ![e] = n] ELSE progress
      /\ UNCHANGED reported
  BY DEF SamplerSend
<1>2. wpc[u] \in {"execute", "drain"} /\ Units[u].kind = "stream"
  BY <1>1 DEF EngineInv, TypeOK, WorkerOK, Streamed
<1>3. widx[u] \in 1 .. Len(Units[u].entries) /\ e = At(u, widx[u])
  BY <1>2, HandFacts DEF InHand, EngineInv
<1>4. e \in Planned /\ e \in Entry /\ IsLarge(e)
  BY <1>2, <1>3, PlaceFacts, StreamsAreLarge
<1>5. reported[e] = "Started"
  BY <1>2 DEF EngineInv, VerdictInv, TaskInv
<1>6. measured[u] \in Nat /\ Size[e] \in Nat
  BY <1>4, SizeAssumption DEF EngineInv, TypeOK
<1>7. n \in Nat /\ n <= Size[e]
  BY <1>6 DEF Clamped
<1>8. Streamed'
  BY <1>1, <1>2 DEF Streamed, EngineInv, TypeOK
<1> HIDE DEF n, e
<1>9. CASE n > progress[e]
  <2>1. AnnouncesSample(e, n)
    BY <1>1, <1>4, <1>5, <1>7, <1>9 DEF AnnouncesSample
  <2> QED
    BY <1>4, <1>7, <1>8, <2>1
<1>10. CASE ~(n > progress[e])
  BY <1>1, <1>8, <1>10
<1> QED
  BY <1>9, <1>10

LEMMA EngineAnnounces ==
  ASSUME EngineInv, Streamed, [Next]_vars
  PROVE  /\ Streamed'
         /\ \/ UNCHANGED <<reported, progress>>
            \/ \E e \in Planned : AnnouncesStart(e)
            \/ \E e \in Planned : \E verdict \in Verdicts : AnnouncesEnd(e, verdict)
            \/ \E e \in Planned : \E n \in Nat : AnnouncesSample(e, n)
<1> USE DEF samplerVars
<1>1. CASE UNCHANGED <<sampler, reported, progress>>
  BY <1>1 DEF Streamed
<1>2. CASE Main \/ Cancel \/ UNCHANGED vars
  <2>1. UNCHANGED <<sampler, reported, progress>>
    BY <1>2 DEF Main, CheckStop, SelectCancelled, SelectPermit, RecheckStop, Spawn, Join, UndoOne,
                UndoDone, Cancel, vars
  <2> QED
    BY <1>1, <2>1
<1>3. ASSUME NEW u \in UnitId, Worker(u), ~StartEntry(u), ~ReportEntry(u)
      PROVE  UNCHANGED <<sampler, reported, progress>>
  BY <1>3 DEF Worker, Execute, RecordEntry, HaltUnit, ExitUnit
<1>4. ASSUME NEW u \in UnitId, SamplerReturn(u) \/ \E len \in 0 .. MaxLen : SamplerMeasure(u, len)
      PROVE  Streamed' /\ UNCHANGED <<reported, progress>>
  <2>1. sampler[u] = "sleep" /\ UNCHANGED <<reported, progress>>
    BY <1>4 DEF SamplerReturn, SamplerMeasure
  <2>2. \A v \in UnitId : v # u => sampler'[v] = sampler[v]
    BY <1>4 DEF SamplerReturn, SamplerMeasure, EngineInv, TypeOK
  <2>3. Units[u].kind = "stream"
    BY <2>1 DEF Streamed
  <2> QED
    BY <2>1, <2>2, <2>3 DEF Streamed
<1>5. ASSUME NEW u \in UnitId, Worker(u) \/ Sampler(u), ~UNCHANGED <<sampler, reported, progress>>
      PROVE  \/ StartEntry(u) \/ ReportEntry(u) \/ SamplerSend(u)
             \/ SamplerReturn(u) \/ \E len \in 0 .. MaxLen : SamplerMeasure(u, len)
  BY <1>3, <1>5 DEF Sampler
<1>6. CASE \E u \in UnitId : Worker(u) \/ Sampler(u)
  <2>1. PICK u \in UnitId : Worker(u) \/ Sampler(u)
    BY <1>6
  <2> QED
    BY <1>1, <1>4, <1>5, <2>1, StartAnnounces, ReportAnnounces, SamplerAnnounces
<1> QED
  BY <1>2, <1>6 DEF Next, Returned

-----------------------------------------------------------------------------
(* Entries by regime, and the bytes still to come.                          *)
LEMMA PlannedIsFinite == IsFiniteSet(Planned) /\ Planned \subseteq Entry
<1>1. ASSUME NEW u \in UnitId PROVE IsFiniteSet(EntriesOf(u)) /\ EntriesOf(u) \subseteq Entry
  <2> DEFINE list == Units[u].entries
  <2>1. list \in Seq(Entry) /\ DOMAIN list = 1 .. Len(list) /\ Len(list) \in Nat
    BY UnitFacts
  <2>2. list \in Surjection(DOMAIN list, EntriesOf(u)) /\ EntriesOf(u) \subseteq Entry
    BY <2>1 DEF EntriesOf, Surjection
  <2> QED
    BY <2>1, <2>2, FS_Interval, FS_Surjection
<1>2. Len(Units) \in Nat /\ IsFiniteSet(UnitId)
  BY UnitsAssumption, FS_Interval DEF UnitId
<1> DEFINE each == [u \in UnitId |-> EntriesOf(u)]
           all == {EntriesOf(u) : u \in UnitId}
<1>3. each \in Surjection(UnitId, all)
  BY DEF Surjection
<1>4. IsFiniteSet(all)
  BY <1>2, <1>3, FS_Surjection
<1>5. IsFiniteSet(UNION all)
  BY <1>1, <1>4, FS_UNION
<1> QED
  BY <1>1, <1>5 DEF Planned

LEMMA OneMore ==
  ASSUME NEW S, IsFiniteSet(S), NEW e, e \notin S
  PROVE  LET T == S \cup {e}
             large == IF IsLarge(e) THEN 1 ELSE 0 IN
         /\ Cardinality(LargeIn(S)) \in Nat /\ Cardinality(S \ LargeIn(S)) \in Nat
         /\ Cardinality(LargeIn(T)) = Cardinality(LargeIn(S)) + large
         /\ Cardinality(T \ LargeIn(T)) = Cardinality(S \ LargeIn(S)) + (1 - large)
<1> DEFINE T == S \cup {e}
           A == LargeIn(S)
           B == S \ A
<1>1. IsFiniteSet(A) /\ IsFiniteSet(B) /\ e \notin A /\ e \notin B
  <2>1. A \in SUBSET S /\ B \in SUBSET S
    BY DEF LargeIn
  <2> QED
    BY <2>1, FS_Subset
<1>2. /\ Cardinality(A) \in Nat /\ Cardinality(A \cup {e}) = Cardinality(A) + 1
      /\ Cardinality(B) \in Nat /\ Cardinality(B \cup {e}) = Cardinality(B) + 1
  BY <1>1, FS_AddElement, FS_CardinalityType
<1>3. CASE IsLarge(e)
  <2>1. LargeIn(T) = A \cup {e} /\ T \ LargeIn(T) = B
    BY <1>3 DEF LargeIn
  <2> QED
    BY <1>2, <1>3, <2>1
<1>4. CASE ~IsLarge(e)
  <2>1. LargeIn(T) = A /\ T \ LargeIn(T) = B \cup {e}
    BY <1>4 DEF LargeIn
  <2> QED
    BY <1>2, <1>4, <2>1
<1> QED
  BY <1>3, <1>4

LEMMA OneLess ==
  ASSUME NEW S, IsFiniteSet(S), NEW e \in S
  PROVE  LET T == S \ {e}
             large == IF IsLarge(e) THEN 1 ELSE 0 IN
         /\ Cardinality(LargeIn(T)) \in Nat /\ Cardinality(T \ LargeIn(T)) \in Nat
         /\ Cardinality(LargeIn(S)) = Cardinality(LargeIn(T)) + large
         /\ Cardinality(S \ LargeIn(S)) = Cardinality(T \ LargeIn(T)) + (1 - large)
<1>1. PICK T : T = S \ {e}
  OBVIOUS
<1>2. IsFiniteSet(T) /\ e \notin T /\ S = T \cup {e}
  BY <1>1, FS_Subset
<1> QED
  BY <1>1, <1>2, OneMore

Rest(sent) == [e \in Entry |-> Size[e] - sent[e]]
Due(sent, S) == SumFunctionOnSet(Rest(sent), S)
Sent == {p \in [Entry -> Nat] : \A e \in Entry : p[e] <= Size[e]}

LEMMA RestFacts ==
  ASSUME NEW p \in Sent
  PROVE  \A e \in Entry : Rest(p)[e] \in Nat /\ Rest(p)[e] = Size[e] - p[e]
  BY SizeAssumption DEF Sent, Rest

LEMMA DueIsNat ==
  ASSUME NEW p \in Sent, NEW S \in SUBSET Entry, IsFiniteSet(S) PROVE Due(p, S) \in Nat
<1>1. PICK w : w = Rest(p)
  OBVIOUS
<1>2. \A y \in S : w[y] \in Nat
  BY <1>1, RestFacts
<1>3. PICK it : IsSum(it, w, S) /\ SumFunctionOnSet(w, S) = it[S]
  BY SumIsSum
<1>4. it[S] \in Nat
  BY <1>2, <1>3, SumsAreNat
<1> QED
  BY <1>1, <1>3, <1>4 DEF Due

(* An entry that ended is no longer due.                                    *)
LEMMA DueWithout ==
  ASSUME NEW p \in Sent, NEW S \in SUBSET Entry, IsFiniteSet(S), NEW e \in S
  PROVE  Due(p, S \ {e}) \in Nat /\ Due(p, S) = Due(p, S \ {e}) + (Size[e] - p[e])
<1>1. PICK w : w = Rest(p)
  OBVIOUS
<1>2. PICK D : D = S \ {e}
  OBVIOUS
<1>3. IsFiniteSet(D) /\ e \notin D /\ S = D \cup {e}
  BY <1>2, FS_Subset
<1>4. w[e] = Size[e] - p[e] /\ \A y \in D \cup {e} : w[y] \in Nat
  BY <1>1, <1>3, RestFacts
<1>5. SumFunctionOnSet(w, D) \in Nat /\ SumFunctionOnSet(w, D \cup {e}) = SumFunctionOnSet(w, D) + w[e]
  BY <1>3, <1>4, SumAdd
<1> QED
  BY <1>1, <1>2, <1>3, <1>4, <1>5 DEF Due

(* Bytes sent of an entry are bytes less to come.                           *)
LEMMA DueAfterSample ==
  ASSUME NEW p \in Sent, NEW S \in SUBSET Entry, IsFiniteSet(S), NEW e \in S,
         NEW n \in Nat, n >= p[e], n <= Size[e]
  PROVE  /\ [p EXCEPT ![e] = n] \in Sent /\ p[e] \in Nat /\ Size[e] \in Nat
         /\ Due([p EXCEPT ![e] = n], S) = Due(p, S) - (n - p[e])
<1>1. PICK q : q = [p EXCEPT ![e] = n]
  OBVIOUS
<1>2. q \in Sent /\ p[e] \in Nat /\ Size[e] \in Nat /\ q[e] = n
  BY <1>1, SizeAssumption DEF Sent
<1>3. PICK D : D = S \ {e}
  OBVIOUS
<1>4. IsFiniteSet(D) /\ D \subseteq Entry
  BY <1>3, FS_Subset
<1>5. \A y \in D : Rest(p)[y] = Rest(q)[y]
  BY <1>1, <1>3, <1>4 DEF Rest, Sent
<1>6. Due(p, D) = Due(q, D)
  BY <1>4, <1>5, SumAgrees DEF Due
<1>7. /\ Due(p, D) \in Nat /\ Due(p, S) = Due(p, D) + (Size[e] - p[e])
      /\ Due(q, S) = Due(q, D) + (Size[e] - q[e])
  BY <1>2, <1>3, DueWithout
<1> QED
  BY <1>1, <1>2, <1>6, <1>7

-----------------------------------------------------------------------------
(* What the estimator is told when the engine announces something.          *)
LEMMA ToldOfNothing ==
  ASSUME UNCHANGED <<reported, progress>>, Observed PROVE eta' = eta
<1>1. {e \in Entry : reported'[e] # reported[e]} = {} /\ {e \in Entry : progress'[e] # progress[e]} = {}
  OBVIOUS
<1> QED
  BY <1>1 DEF Observed

LEMMA ToldOfEntry ==
  ASSUME TypeOK, NEW e \in Entry, NEW k, k # reported[e], UNCHANGED progress,
         reported' = [reported EXCEPT ![e] = k], Observed
  PROVE  eta' \in Charged(eta, CASE k = "Started" -> EntryStarted(eta, Size[e])
                                 [] k = "Skipped" -> EntrySkipped(eta, Size[e])
                                 [] OTHER -> EntryEnded(eta, e))
<1>1. \A x \in Entry : reported'[x] = IF x = e THEN k ELSE reported[x]
  BY DEF TypeOK
<1>2. {x \in Entry : reported'[x] # reported[x]} = {e}
  BY <1>1
<1>3. {x \in Entry : progress'[x] # progress[x]} = {}
  OBVIOUS
<1>4. (CHOOSE x \in {e} : TRUE) = e /\ reported'[e] = k
  BY <1>1
<1> QED
  BY <1>2, <1>3, <1>4 DEF Observed

LEMMA ToldOfSample ==
  ASSUME TypeOK, NEW e \in Entry, NEW n \in Nat, n > progress[e], UNCHANGED reported,
         progress' = [progress EXCEPT ![e] = n], Observed
  PROVE  eta' \in Charged(eta, EntryProgress(eta, e, n))
<1>0. progress[e] \in Nat
  BY DEF TypeOK
<1>1. \A x \in Entry : progress'[x] = IF x = e THEN n ELSE progress[x]
  BY DEF TypeOK
<1>2. {x \in Entry : progress'[x] # progress[x]} = {e}
  BY <1>0, <1>1
<1>3. {x \in Entry : reported'[x] # reported[x]} = {}
  OBVIOUS
<1>4. (CHOOSE x \in {e} : TRUE) = e /\ progress'[e] = n
  BY <1>1
<1> QED
  BY <1>2, <1>3, <1>4 DEF Observed

-----------------------------------------------------------------------------
(* The estimator's books during dispatch.                                   *)
SkipsUnsampled == \A e \in Planned : reported[e] = "Skipped" => progress[e] = 0

Books ==
  /\ eta.threshold = Threshold /\ eta.dirs = 0 /\ ~eta.dirsOn
  /\ \A e \in Planned : reported[e] \in {"none", "Started"} => eta.credited[e] = progress[e]
  /\ eta.largeOn = Cardinality(LargeIn(Ongoing))
  /\ eta.smallOn = Cardinality(Ongoing \ LargeIn(Ongoing))
  /\ eta.small = Cardinality(Open(Planned \ LargeIn(Planned)))
  /\ eta.bytes <= BytesLeft
  /\ SkipsUnsampled => eta.bytes = BytesLeft

LEMMA OngoingFacts ==
  /\ IsFiniteSet(Ongoing) /\ IsFiniteSet(Open(Planned))
  /\ IsFiniteSet(Open(LargeIn(Planned))) /\ IsFiniteSet(Open(Planned \ LargeIn(Planned)))
  /\ Ongoing \subseteq Entry /\ Open(LargeIn(Planned)) \subseteq Entry
<1>1. /\ Ongoing \subseteq Planned /\ Open(Planned) \subseteq Planned
      /\ Open(LargeIn(Planned)) \subseteq Planned /\ Open(Planned \ LargeIn(Planned)) \subseteq Planned
  BY DEF Ongoing, Open, LargeIn
<1> QED
  BY <1>1, PlannedIsFinite, FS_Subset

LEMMA OpenPlanned ==
  /\ Open(LargeIn(Planned)) = LargeIn(Open(Planned))
  /\ Open(Planned \ LargeIn(Planned)) = Open(Planned) \ LargeIn(Open(Planned))
  BY DEF Open, LargeIn

LEMMA EntryIsLarge ==
  ASSUME NEW e \in Entry, eta.threshold = Threshold
  PROVE  IsLarge(e) <=> Size[e] > eta.threshold
  BY DEF IsLarge

(* An entry starts: one more in flight, nothing less to come.               *)
LEMMA StartKeepsBooks ==
  ASSUME EngineInv, eta \in Estimators, Books, NEW e \in Planned, AnnouncesStart(e), Observed
  PROVE  eta' \in Estimators /\ Settled(eta, eta', {}) /\ Books'
<1>0. e \in Entry /\ Size[e] \in Nat /\ TypeOK
  BY PlannedIsFinite, SizeAssumption DEF EngineInv
<1>1. eta' \in Charged(eta, EntryStarted(eta, Size[e]))
  BY <1>0, ToldOfEntry DEF AnnouncesStart
<1>2. PICK y : y = EntryStarted(eta, Size[e])
  OBVIOUS
<1> DEFINE large == IF IsLarge(e) THEN 1 ELSE 0
<1>3. /\ y \in Estimators /\ Fits(eta, y, {})
      /\ y.threshold = eta.threshold /\ y.dirs = eta.dirs /\ y.dirsOn = eta.dirsOn
      /\ y.small = eta.small /\ y.bytes = eta.bytes /\ y.credited = eta.credited
      /\ y.largeOn = eta.largeOn + large /\ y.smallOn = eta.smallOn + (1 - large)
  <2>1. IsLarge(e) <=> Size[e] > eta.threshold
    BY <1>0, EntryIsLarge DEF Books
  <2>2. eta.largeOn \in Nat /\ eta.smallOn \in Nat
    BY DEF Estimators
  <2>3. PICK size : size = Size[e]
    OBVIOUS
  <2>4. /\ y \in Estimators /\ Fits(eta, y, {})
        /\ y.threshold = eta.threshold /\ y.dirs = eta.dirs /\ y.dirsOn = eta.dirsOn
        /\ y.small = eta.small /\ y.bytes = eta.bytes /\ y.credited = eta.credited
        /\ size > eta.threshold => y.largeOn = eta.largeOn + 1 /\ y.smallOn = eta.smallOn
        /\ ~(size > eta.threshold) => y.largeOn = eta.largeOn /\ y.smallOn = eta.smallOn + 1
    BY <1>0, <1>2, <2>3, EntryStartedFacts
  <2> QED
    BY <2>1, <2>2, <2>3, <2>4
<1>4. eta' \in Estimators /\ SameBooks(y, eta') /\ Settled(eta, eta', {})
  BY <1>1, <1>2, <1>3, Settling
<1>5. /\ \A x \in Entry : reported'[x] = IF x = e THEN "Started" ELSE reported[x]
      /\ reported[e] = "none" /\ progress' = progress
  BY <1>0 DEF AnnouncesStart, TypeOK
<1>6. PICK S : S = Ongoing
  OBVIOUS
<1>7. IsFiniteSet(S) /\ e \notin S /\ Ongoing' = S \cup {e}
  BY <1>0, <1>5, <1>6, PlannedIsFinite, OngoingFacts DEF Ongoing
<1>8. /\ Cardinality(LargeIn(S \cup {e})) = Cardinality(LargeIn(S)) + large
      /\ Cardinality((S \cup {e}) \ LargeIn(S \cup {e})) = Cardinality(S \ LargeIn(S)) + (1 - large)
  BY <1>7, OneMore
<1>9. /\ eta'.largeOn = Cardinality(LargeIn(Ongoing'))
      /\ eta'.smallOn = Cardinality(Ongoing' \ LargeIn(Ongoing'))
  BY <1>3, <1>4, <1>6, <1>7, <1>8 DEF Books, SameBooks
<1>10. /\ Open(LargeIn(Planned))' = Open(LargeIn(Planned))
       /\ Open(Planned \ LargeIn(Planned))' = Open(Planned \ LargeIn(Planned))
  BY <1>5, PlannedIsFinite DEF Open, LargeIn
<1>11. BytesLeft' = BytesLeft
  BY <1>5, <1>10 DEF BytesLeft
<1>12. SkipsUnsampled' => SkipsUnsampled
  BY <1>5, PlannedIsFinite DEF SkipsUnsampled
<1>13. \A x \in Planned : reported'[x] \in {"none", "Started"} => eta'.credited[x] = progress'[x]
  BY <1>3, <1>4, <1>5, PlannedIsFinite DEF Books, SameBooks
<1>14. Books'
  BY <1>3, <1>4, <1>9, <1>10, <1>11, <1>12, <1>13 DEF Books, SameBooks
<1> QED
  BY <1>4, <1>14

(* What the end of an entry takes off: its bytes that were not credited, or *)
(* all of them when it is skipped.                                          *)
TakenOff(y, e, amount) ==
  /\ y \in Estimators
  /\ y.threshold = eta.threshold /\ y.dirs = eta.dirs /\ y.dirsOn = eta.dirsOn
  /\ \A f \in Entry : f # e => y.credited[f] = eta.credited[f]
  /\ IsLarge(e) => /\ y.bytes = Minus(eta.bytes, amount) /\ y.largeOn = Minus(eta.largeOn, 1)
                   /\ y.small = eta.small /\ y.smallOn = eta.smallOn
  /\ ~IsLarge(e) => /\ y.small = Minus(eta.small, 1) /\ y.smallOn = Minus(eta.smallOn, 1)
                    /\ y.bytes = eta.bytes /\ y.largeOn = eta.largeOn

FedByEnd(e, k) ==
  IF k = "Skipped" THEN {} ELSE EndFeeds(IsLarge(e), Size[e], Size[e] - progress[e])

LEMMA EndTakesOff ==
  ASSUME EngineInv, eta \in Estimators, Books, NEW e \in Planned, NEW k \in Verdicts,
         AnnouncesEnd(e, k), Observed
  PROVE  \E amount \in Nat :
           /\ amount = IF k = "Skipped" THEN Size[e] ELSE Size[e] - progress[e]
           /\ TakenOff(eta', e, amount)
           /\ Settled(eta, eta', FedByEnd(e, k))
<1>0. e \in Entry /\ Size[e] \in Nat /\ progress[e] \in Nat /\ progress[e] <= Size[e] /\ TypeOK
  BY PlannedIsFinite, SizeAssumption DEF EngineInv, TypeOK
<1>1. /\ IsLarge(e) <=> Size[e] > eta.threshold
      /\ eta.credited[e] = progress[e]
  BY <1>0, EntryIsLarge DEF Books, AnnouncesEnd
<1>2. CASE k = "Skipped"
  <2>1. eta' \in Charged(eta, EntrySkipped(eta, Size[e]))
    BY <1>0, <1>2, ToldOfEntry DEF AnnouncesEnd
  <2>2. PICK size : size = Size[e]
    OBVIOUS
  <2>3. PICK y : y = EntrySkipped(eta, size)
    OBVIOUS
  <2>4. /\ y \in Estimators /\ Fits(eta, y, {})
        /\ y.threshold = eta.threshold /\ y.dirs = eta.dirs /\ y.dirsOn = eta.dirsOn
        /\ y.credited = eta.credited
        /\ size > eta.threshold =>
             /\ y.bytes = Minus(eta.bytes, size) /\ y.largeOn = Minus(eta.largeOn, 1)
             /\ y.small = eta.small /\ y.smallOn = eta.smallOn
        /\ ~(size > eta.threshold) =>
             /\ y.small = Minus(eta.small, 1) /\ y.smallOn = Minus(eta.smallOn, 1)
             /\ y.bytes = eta.bytes /\ y.largeOn = eta.largeOn
    BY <1>0, <2>2, <2>3, EntrySkippedFacts
  <2>5. eta' \in Estimators /\ SameBooks(y, eta') /\ Settled(eta, eta', {})
    BY <2>1, <2>2, <2>3, <2>4, Settling
  <2>7. TakenOff(eta', e, size)
    BY <1>1, <2>2, <2>4, <2>5 DEF TakenOff, SameBooks
  <2>8. Settled(eta, eta', FedByEnd(e, k))
    BY <1>2, <2>5 DEF FedByEnd
  <2> QED
    BY <1>0, <1>2, <2>2, <2>7, <2>8
<1>3. CASE k # "Skipped"
  <2>1. eta' \in Charged(eta, EntryEnded(eta, e))
    BY <1>0, <1>3, ToldOfEntry DEF AnnouncesEnd, Verdicts
  <2>2. PICK amount : amount = Minus(Size[e], eta.credited[e])
    OBVIOUS
  <2>3. amount \in Nat /\ amount = Size[e] - progress[e]
    BY <1>0, <1>1, <2>2 DEF Minus
  <2>4. PICK y : y = EntryEnded(eta, e)
    OBVIOUS
  <2> DEFINE F == EndFeeds(Size[e] > eta.threshold, Size[e], amount)
  <2>5. /\ y \in Estimators /\ Fits(eta, y, F)
        /\ y.threshold = eta.threshold /\ y.dirs = eta.dirs /\ y.dirsOn = eta.dirsOn
        /\ \A f \in Entry : f # e => y.credited[f] = eta.credited[f]
        /\ Size[e] > eta.threshold =>
             /\ y.bytes = Minus(eta.bytes, amount) /\ y.largeOn = Minus(eta.largeOn, 1)
             /\ y.small = eta.small /\ y.smallOn = eta.smallOn
        /\ ~(Size[e] > eta.threshold) =>
             /\ y.small = Minus(eta.small, 1) /\ y.smallOn = Minus(eta.smallOn, 1)
             /\ y.bytes = eta.bytes /\ y.largeOn = eta.largeOn
    BY <1>0, <2>2, <2>4, EntryEndedFacts
  <2>a. FedByEnd(e, k) = F
    BY <1>1, <1>3, <2>3 DEF FedByEnd, EndFeeds
  <2> HIDE DEF F
  <2>6. eta' \in Estimators /\ SameBooks(y, eta') /\ Settled(eta, eta', F)
    BY <2>1, <2>4, <2>5, Settling
  <2>8. TakenOff(eta', e, amount)
    BY <1>1, <2>5, <2>6 DEF TakenOff, SameBooks
  <2> QED
    BY <1>3, <2>3, <2>6, <2>8, <2>a
<1> QED
  BY <1>2, <1>3

(* An entry ends: one less in flight, and it is no longer to come.          *)
LEMMA EndKeepsBooks ==
  ASSUME EngineInv, eta \in Estimators, Books, NEW e \in Planned, NEW k \in Verdicts,
         AnnouncesEnd(e, k), Observed
  PROVE  eta' \in Estimators /\ Settled(eta, eta', FedByEnd(e, k)) /\ Books'
<1>0. e \in Entry /\ TypeOK /\ progress \in Sent /\ Size[e] \in Nat /\ progress[e] \in Nat
  BY PlannedIsFinite, SizeAssumption DEF EngineInv, TypeOK, Sent
<1>1. PICK amount \in Nat : /\ amount = IF k = "Skipped" THEN Size[e] ELSE Size[e] - progress[e]
                            /\ TakenOff(eta', e, amount)
                            /\ Settled(eta, eta', FedByEnd(e, k))
  BY EndTakesOff
<1>2. /\ \A x \in Entry : reported'[x] = IF x = e THEN k ELSE reported[x]
      /\ reported[e] = "Started" /\ progress' = progress /\ k \notin {"none", "Started"}
  BY <1>0 DEF AnnouncesEnd, TypeOK, Verdicts
<1>3. PICK S, W : S = Ongoing /\ W = Open(Planned)
  OBVIOUS
<1>4. /\ IsFiniteSet(S) /\ e \in S /\ Ongoing' = S \ {e}
      /\ IsFiniteSet(W) /\ e \in W /\ W \subseteq Entry /\ Open(Planned)' = W \ {e}
  BY <1>2, <1>3, PlannedIsFinite, OngoingFacts DEF Ongoing, Open
<1> DEFINE large == IF IsLarge(e) THEN 1 ELSE 0
<1>5. PICK T, V : T = S \ {e} /\ V = W \ {e}
  OBVIOUS
<1>6. /\ Cardinality(LargeIn(T)) \in Nat /\ Cardinality(T \ LargeIn(T)) \in Nat
      /\ Cardinality(LargeIn(S)) = Cardinality(LargeIn(T)) + large
      /\ Cardinality(S \ LargeIn(S)) = Cardinality(T \ LargeIn(T)) + (1 - large)
  BY <1>4, <1>5, OneLess
<1>7. /\ Cardinality(V \ LargeIn(V)) \in Nat
      /\ Cardinality(W \ LargeIn(W)) = Cardinality(V \ LargeIn(V)) + (1 - large)
  BY <1>4, <1>5, OneLess
<1>8. Open(LargeIn(Planned)) = LargeIn(W) /\ Open(Planned \ LargeIn(Planned)) = W \ LargeIn(W)
  BY <1>3, OpenPlanned
<1>9. Open(LargeIn(Planned))' = LargeIn(V) /\ Open(Planned \ LargeIn(Planned))' = V \ LargeIn(V)
  BY <1>2, <1>3, <1>5, PlannedIsFinite DEF Open, LargeIn
<1>10. /\ eta.largeOn = Cardinality(LargeIn(S)) /\ eta.smallOn = Cardinality(S \ LargeIn(S))
       /\ eta.small = Cardinality(W \ LargeIn(W))
  BY <1>3, <1>8 DEF Books
<1>11. /\ eta'.largeOn = Cardinality(LargeIn(T)) /\ eta'.smallOn = Cardinality(T \ LargeIn(T))
       /\ eta'.small = Cardinality(V \ LargeIn(V))
  <2>1. CASE IsLarge(e)
    BY <1>1, <1>6, <1>7, <1>10, <2>1 DEF TakenOff, Minus
  <2>2. CASE ~IsLarge(e)
    BY <1>1, <1>6, <1>7, <1>10, <2>2 DEF TakenOff, Minus
  <2> QED
    BY <2>1, <2>2
<1>12. BytesLeft = Due(progress, LargeIn(W)) /\ BytesLeft' = Due(progress, LargeIn(V))
  BY <1>2, <1>8, <1>9 DEF BytesLeft, Due, Rest
<1>13. LargeIn(W) \subseteq Entry /\ IsFiniteSet(LargeIn(W))
  BY <1>4, FS_Subset DEF LargeIn
<1>14. /\ BytesLeft \in Nat /\ BytesLeft' \in Nat
       /\ IsLarge(e) => BytesLeft = BytesLeft' + (Size[e] - progress[e])
       /\ ~IsLarge(e) => BytesLeft' = BytesLeft
  <2>1. CASE IsLarge(e)
    <3>1. e \in LargeIn(W) /\ LargeIn(V) = LargeIn(W) \ {e}
      BY <1>4, <1>5, <2>1 DEF LargeIn
    <3>2. Due(progress, LargeIn(W)) \in Nat
      BY <1>0, <1>13, DueIsNat
    <3> QED
      BY <1>0, <1>12, <1>13, <2>1, <3>1, <3>2, DueWithout
  <2>2. CASE ~IsLarge(e)
    <3>1. LargeIn(V) = LargeIn(W)
      BY <1>5, <2>2 DEF LargeIn
    <3> QED
      BY <1>0, <1>12, <1>13, <2>2, <3>1, DueIsNat
  <2> QED
    BY <2>1, <2>2
<1>15. SkipsUnsampled' => SkipsUnsampled /\ (k = "Skipped" => progress[e] = 0)
  BY <1>0, <1>2, PlannedIsFinite DEF SkipsUnsampled
<1>16. eta.bytes \in Nat /\ eta.bytes <= BytesLeft /\ (SkipsUnsampled => eta.bytes = BytesLeft)
  BY DEF Estimators, Books
<1>17. eta'.bytes <= BytesLeft' /\ (SkipsUnsampled' => eta'.bytes = BytesLeft')
  <2>1. CASE IsLarge(e)
    <3>1. eta'.bytes = Minus(eta.bytes, amount)
      BY <1>1, <2>1 DEF TakenOff
    <3>2. /\ amount >= Size[e] - progress[e]
          /\ SkipsUnsampled' => amount = Size[e] - progress[e]
      BY <1>0, <1>1, <1>15
    <3> QED
      BY <1>0, <1>14, <1>15, <1>16, <2>1, <3>1, <3>2 DEF Minus
  <2>2. CASE ~IsLarge(e)
    BY <1>1, <1>14, <1>15, <1>16, <2>2 DEF TakenOff
  <2> QED
    BY <2>1, <2>2
<1>18. \A x \in Planned : reported'[x] \in {"none", "Started"} => eta'.credited[x] = progress'[x]
  BY <1>1, <1>2, PlannedIsFinite DEF Books, TakenOff
<1>19. Ongoing' = T
  BY <1>4, <1>5
<1>20. eta'.threshold = Threshold /\ eta'.dirs = 0 /\ ~eta'.dirsOn
  BY <1>1 DEF Books, TakenOff
<1>21. Books'
  BY <1>9, <1>11, <1>17, <1>18, <1>19, <1>20 DEF Books
<1> QED
  BY <1>1, <1>21 DEF TakenOff

(* A sample: its new bytes are credited and no longer to come.              *)
LEMMA SampleKeepsBooks ==
  ASSUME EngineInv, eta \in Estimators, Books, NEW e \in Planned, NEW n \in Nat,
         AnnouncesSample(e, n), Observed
  PROVE  eta' \in Estimators /\ Settled(eta, eta', {"LargeFile", "Overall"}) /\ Books'
<1>0. e \in Entry /\ TypeOK /\ progress \in Sent /\ Size[e] \in Nat /\ progress[e] \in Nat
  BY PlannedIsFinite, SizeAssumption DEF EngineInv, TypeOK, Sent
<1>1. /\ IsLarge(e) /\ reported[e] = "Started" /\ n > progress[e] /\ n <= Size[e]
      /\ progress' = [progress EXCEPT ![e] = n] /\ reported' = reported
      /\ eta.credited[e] = progress[e]
  BY DEF AnnouncesSample, Books
<1>2. eta' \in Charged(eta, EntryProgress(eta, e, n))
  BY <1>0, <1>1, ToldOfSample
<1>3. PICK y : y = EntryProgress(eta, e, n)
  OBVIOUS
<1>4. PICK d \in Nat : d = n - progress[e]
  BY <1>0, <1>1
<1>5. /\ y \in Estimators /\ Fits(eta, y, {"LargeFile", "Overall"})
      /\ y.threshold = eta.threshold /\ y.dirs = eta.dirs /\ y.dirsOn = eta.dirsOn
      /\ y.credited = [eta.credited EXCEPT ![e] = n]
      /\ y.bytes = Minus(eta.bytes, d) /\ y.largeOn = eta.largeOn
      /\ y.small = eta.small /\ y.smallOn = eta.smallOn
  BY <1>0, <1>1, <1>3, <1>4, EntryProgressFacts
<1>6. /\ eta' \in Estimators /\ SameBooks(y, eta')
      /\ Settled(eta, eta', {"LargeFile", "Overall"})
  BY <1>2, <1>3, <1>5, Settling
<1>8. /\ Ongoing' = Ongoing /\ Open(LargeIn(Planned))' = Open(LargeIn(Planned))
      /\ Open(Planned \ LargeIn(Planned))' = Open(Planned \ LargeIn(Planned))
  BY <1>1 DEF Ongoing, Open
<1>9. PICK D : D = Open(LargeIn(Planned))
  OBVIOUS
<1>10. IsFiniteSet(D) /\ D \in SUBSET Entry /\ e \in D
  BY <1>1, <1>9, OngoingFacts DEF Open, LargeIn
<1>11. BytesLeft = Due(progress, D) /\ BytesLeft' = Due(progress', D)
  BY <1>8, <1>9 DEF BytesLeft, Due, Rest
<1>12. BytesLeft \in Nat /\ BytesLeft' \in Nat /\ BytesLeft' = BytesLeft - d
  <2>1. PICK p, q : p = progress /\ q = [p EXCEPT ![e] = n]
    OBVIOUS
  <2>a. p \in Sent /\ n >= p[e] /\ n <= Size[e]
    BY <1>0, <1>1, <2>1
  <2>2. q \in Sent /\ Due(q, D) = Due(p, D) - (n - p[e])
    BY <1>10, <2>1, <2>a, DueAfterSample
  <2>3. Due(p, D) \in Nat /\ Due(q, D) \in Nat
    BY <1>0, <1>10, <2>1, <2>2, DueIsNat
  <2> QED
    BY <1>1, <1>4, <1>11, <2>1, <2>2, <2>3
<1>13. SkipsUnsampled' => SkipsUnsampled
  BY <1>0, <1>1, PlannedIsFinite DEF SkipsUnsampled, Sent
<1>14. eta.bytes \in Nat /\ eta.bytes <= BytesLeft /\ (SkipsUnsampled => eta.bytes = BytesLeft)
  BY DEF Estimators, Books
<1>15. eta'.bytes = Minus(eta.bytes, d)
  BY <1>5, <1>6 DEF SameBooks
<1>16. eta'.bytes <= BytesLeft' /\ (SkipsUnsampled' => eta'.bytes = BytesLeft')
  BY <1>12, <1>13, <1>14, <1>15 DEF Minus
<1>17. \A x \in Entry : /\ progress'[x] = IF x = e THEN n ELSE progress[x]
                        /\ eta'.credited[x] = IF x = e THEN n ELSE eta.credited[x]
  BY <1>0, <1>1, <1>5, <1>6 DEF SameBooks, Estimators, Sent
<1>18. \A x \in Planned : reported'[x] \in {"none", "Started"} => eta'.credited[x] = progress'[x]
  BY <1>1, <1>17, PlannedIsFinite DEF Books
<1>19. Books'
  BY <1>5, <1>6, <1>8, <1>16, <1>18 DEF Books, SameBooks
<1> QED
  BY <1>6, <1>19

-----------------------------------------------------------------------------
LEMMA EngineStepKeepsBooks ==
  ASSUME EngineInv, Streamed, eta \in Estimators, Books, [Next]_vars, Observed, stage = "dispatch"
  PROVE  Streamed' /\ eta' \in Estimators /\ Settled(eta, eta', Fed) /\ Books'
<1>0. /\ Streamed'
      /\ \/ UNCHANGED <<reported, progress>>
         \/ \E e \in Planned : AnnouncesStart(e)
         \/ \E e \in Planned : \E verdict \in Verdicts : AnnouncesEnd(e, verdict)
         \/ \E e \in Planned : \E n \in Nat : AnnouncesSample(e, n)
  BY EngineAnnounces
<1>a. TypeOK /\ Planned \subseteq Entry
  BY PlannedIsFinite DEF EngineInv
<1>b. PICK F : F = Fed
  OBVIOUS
<1>1. CASE UNCHANGED <<reported, progress>>
  <2>1. eta' = eta
    BY <1>1, ToldOfNothing
  <2>2. Books'
    BY <1>1, <2>1 DEF Books, SkipsUnsampled, Ongoing, Open, BytesLeft
  <2>3. Settled(eta, eta', F)
    BY <2>1 DEF Settled, Surer, Lasts, NoMore, Estimators, Known
  <2> QED
    BY <1>0, <1>b, <2>1, <2>2, <2>3
<1>2. ASSUME NEW e \in Planned, AnnouncesStart(e) PROVE eta' \in Estimators /\ Settled(eta, eta', F) /\ Books'
  <2>1. eta' \in Estimators /\ Settled(eta, eta', {}) /\ Books'
    BY <1>2, StartKeepsBooks
  <2>2. \A x \in Entry : ~Ends(x) /\ ~(progress'[x] > progress[x])
    BY <1>2, <1>a DEF AnnouncesStart, Ends, TypeOK
  <2>3. Fed = {}
    BY <2>2 DEF Fed, LargeWork, SmallWork, SmallBytes
  <2> QED
    BY <1>b, <2>1, <2>3
<1>3. ASSUME NEW e \in Planned, NEW k \in Verdicts, AnnouncesEnd(e, k)
      PROVE  eta' \in Estimators /\ Settled(eta, eta', F) /\ Books'
  <2>1. eta' \in Estimators /\ Settled(eta, eta', FedByEnd(e, k)) /\ Books'
    BY <1>3, EndKeepsBooks
  <2>2. /\ \A x \in Entry : Ends(x) => x = e /\ k # "Skipped"
        /\ \A x \in Entry : ~(progress'[x] > progress[x])
    BY <1>3, <1>a DEF AnnouncesEnd, Ends, TypeOK, Verdicts
  <2>3. Size[e] \in Nat /\ progress[e] \in Nat
    BY <1>a, SizeAssumption DEF TypeOK
  <2>4. Fed \subseteq FedByEnd(e, k)
    <3>1. CASE k = "Skipped"
      BY <2>2, <3>1 DEF Fed, LargeWork, SmallWork, SmallBytes
    <3>2. CASE k # "Skipped" /\ IsLarge(e)
      <4>1. ~SmallWork /\ ~SmallBytes /\ (LargeWork => Size[e] - progress[e] > 0)
        BY <2>2, <2>3, <3>2 DEF LargeWork, SmallWork, SmallBytes
      <4> QED
        BY <3>2, <4>1 DEF Fed, FedByEnd, EndFeeds
    <3>3. CASE k # "Skipped" /\ ~IsLarge(e)
      <4>1. ~LargeWork /\ (SmallBytes => Size[e] > 0)
        BY <2>2, <3>3 DEF LargeWork, SmallBytes
      <4> QED
        BY <3>3, <4>1 DEF Fed, FedByEnd, EndFeeds
    <3> QED
      BY <3>1, <3>2, <3>3
  <2> QED
    BY <1>b, <2>1, <2>4, SettledForLess
<1>4. ASSUME NEW e \in Planned, NEW n \in Nat, AnnouncesSample(e, n)
      PROVE  eta' \in Estimators /\ Settled(eta, eta', F) /\ Books'
  <2>1. eta' \in Estimators /\ Settled(eta, eta', {"LargeFile", "Overall"}) /\ Books'
    BY <1>4, SampleKeepsBooks
  <2>2. \A x \in Entry : ~Ends(x)
    BY <1>4 DEF AnnouncesSample, Ends
  <2>3. Fed \subseteq {"LargeFile", "Overall"}
    BY <2>2 DEF Fed, SmallWork, SmallBytes
  <2> QED
    BY <1>b, <2>1, <2>3, SettledForLess
<1> QED
  BY <1>0, <1>1, <1>2, <1>3, <1>4, <1>b

(* Before dispatch the engine has sent nothing, and the plan is what the    *)
(* estimator knows; then its books are those of the engine.                 *)
PrepareInv ==
  /\ stage \in {"plan", "mkdirs", "directories"} =>
       /\ \A e \in Entry : reported[e] = "none" /\ progress[e] = 0 /\ eta.credited[e] = 0
       /\ eta.smallOn = 0 /\ eta.largeOn = 0
  /\ stage \in {"mkdirs", "directories"} =>
       /\ eta.awaiting /\ eta.threshold = Threshold
       /\ eta.small = Cardinality(Planned \ LargeIn(Planned))
       /\ eta.bytes = BytesOf(LargeIn(Planned))
  /\ stage = "directories" => eta.dirs = left
  /\ stage = "orphan" => left > 0

EtaInv ==
  /\ eta \in Estimators /\ left \in Nat /\ Streamed /\ PrepareInv
  /\ stage = "dispatch" => Books

LEMMA PlanFacts ==
  /\ Cardinality(Planned \ LargeIn(Planned)) \in Nat /\ BytesOf(LargeIn(Planned)) \in Nat
  /\ (\A e \in Entry : progress[e] = 0) => BytesOf(LargeIn(Planned)) = Due(progress, LargeIn(Planned))
<1>1. PICK D : D = LargeIn(Planned)
  OBVIOUS
<1>2. IsFiniteSet(D) /\ D \subseteq Entry /\ IsFiniteSet(Planned \ D)
  BY <1>1, PlannedIsFinite, FS_Subset DEF LargeIn
<1>3. BytesOf(D) \in Nat
  <2>1. \A y \in D : Size[y] \in Nat
    BY <1>2, SizeAssumption
  <2>2. PICK it : IsSum(it, Size, D) /\ SumFunctionOnSet(Size, D) = it[D]
    BY <1>2, SumIsSum
  <2>3. it[D] \in Nat
    BY <1>2, <2>1, <2>2, SumsAreNat
  <2> QED
    BY <2>2, <2>3 DEF BytesOf
<1>4. ASSUME \A e \in Entry : progress[e] = 0 PROVE BytesOf(D) = Due(progress, D)
  <2>1. PICK w : w = Rest(progress)
    OBVIOUS
  <2>2. \A y \in D : Size[y] = w[y]
    BY <1>2, <1>4, <2>1, SizeAssumption DEF Rest
  <2>3. SumFunctionOnSet(Size, D) = SumFunctionOnSet(w, D)
    BY <1>2, <2>2, SumAgrees
  <2> QED
    BY <2>1, <2>3 DEF BytesOf, Due
<1> QED
  BY <1>1, <1>2, <1>3, <1>4, FS_CardinalityType

LEMMA PlannedKeeps == ASSUME EtaInv, SendPlanned PROVE EtaInv'
<1>1. eta' \in Charged(eta, Planned_(eta)) /\ stage = "plan" /\ stage' = "mkdirs"
      /\ UNCHANGED <<sampler, reported, progress, left>>
  BY DEF SendPlanned, vars, samplerVars
<1>2. PICK y : y = Planned_(eta)
  OBVIOUS
<1>3. PICK m, b : m = Cardinality(Planned \ LargeIn(Planned)) /\ b = BytesOf(LargeIn(Planned))
  OBVIOUS
<1>4. m \in Nat /\ b \in Nat
  BY <1>3, PlanFacts
<1>5. y = [eta EXCEPT !.threshold = Threshold, !.dirs = Directories, !.awaiting = TRUE,
                      !.small = m, !.bytes = b]
  BY <1>2, <1>3 DEF Planned_
<1>6. /\ y \in Estimators /\ y.awaiting /\ y.threshold = Threshold /\ y.small = m /\ y.bytes = b
      /\ y.credited = eta.credited /\ y.smallOn = eta.smallOn /\ y.largeOn = eta.largeOn
  BY <1>4, <1>5, EtaAssumption DEF EtaInv, Estimators
<1>7. eta' \in Estimators /\ SameBooks(y, eta')
  BY <1>1, <1>2, <1>6, ChargedFacts DEF EtaInv
<1> QED
  BY <1>1, <1>3, <1>6, <1>7 DEF EtaInv, PrepareInv, Streamed, SameBooks

LEMMA DirectoriesKeep == ASSUME EtaInv, StartDirectories PROVE EtaInv'
<1>1. eta' \in Charged(eta, DirectoriesStarted(eta, Directories))
      /\ stage = "mkdirs" /\ stage' = "directories" /\ left' = Directories
      /\ UNCHANGED <<sampler, reported, progress>>
  BY DEF StartDirectories, vars, samplerVars
<1>2. PICK y : y = DirectoriesStarted(eta, Directories)
  OBVIOUS
<1>3. y = [eta EXCEPT !.dirs = Directories, !.dirsOn = Directories > 0]
  BY <1>2 DEF DirectoriesStarted
<1>a. y \in Estimators
  <2>1. Directories \in Nat
    BY EtaAssumption
  <2>2. CASE Directories > 0
    <3>a. (Directories > 0) = TRUE
      BY <2>2
    <3>1. y = [eta EXCEPT !.dirs = Directories, !.dirsOn = TRUE]
      BY <1>3, <3>a, Zenon
    <3> QED
      BY <2>1, <3>1 DEF EtaInv, Estimators
  <2>3. CASE ~(Directories > 0)
    <3>a. (Directories > 0) = FALSE
      BY <2>3
    <3>1. y = [eta EXCEPT !.dirs = Directories, !.dirsOn = FALSE]
      BY <1>3, <3>a, Zenon
    <3> QED
      BY <2>1, <3>1 DEF EtaInv, Estimators
  <2> QED
    BY <2>2, <2>3
<1>4. /\ y \in Estimators /\ y.awaiting = eta.awaiting /\ y.threshold = eta.threshold
      /\ y.small = eta.small /\ y.bytes = eta.bytes /\ y.dirs = Directories
      /\ y.credited = eta.credited /\ y.smallOn = eta.smallOn /\ y.largeOn = eta.largeOn
  BY <1>3, <1>a DEF EtaInv, Estimators
<1>5. eta' \in Estimators /\ SameBooks(y, eta')
  BY <1>1, <1>2, <1>4, ChargedFacts DEF EtaInv
<1> QED
  BY <1>1, <1>4, <1>5, EtaAssumption DEF EtaInv, PrepareInv, Streamed, SameBooks

LEMMA DirectoryKeeps ==
  ASSUME EtaInv, EndDirectory PROVE EtaInv' /\ Settled(eta, eta', Fed)
<1>1. eta' \in Charged(eta, DirectoryEnded(eta)) /\ stage = "directories" /\ stage' = stage
      /\ left > 0 /\ left' = left - 1 /\ UNCHANGED <<sampler, reported, progress>>
  BY DEF EndDirectory, vars, samplerVars
<1>2. PICK y : y = DirectoryEnded(eta)
  OBVIOUS
<1>3. /\ y \in Estimators /\ Fits(eta, y, {"Directory"})
      /\ y.threshold = eta.threshold /\ y.dirs = Minus(eta.dirs, 1) /\ y.small = eta.small
      /\ y.bytes = eta.bytes /\ y.smallOn = eta.smallOn /\ y.largeOn = eta.largeOn
      /\ y.credited = eta.credited /\ y.awaiting = eta.awaiting
  BY <1>2, DirectoryEndedFacts DEF EtaInv
<1>4. eta' \in Estimators /\ SameBooks(y, eta') /\ Settled(eta, eta', {"Directory"})
  BY <1>1, <1>2, <1>3, Settling DEF EtaInv
<1>5. Settled(eta, eta', Fed)
  <2>1. \A x \in Entry : ~Ends(x) /\ ~(progress'[x] > progress[x])
    BY <1>1 DEF Ends, EtaInv, PrepareInv
  <2>2. Fed \subseteq {"Directory"}
    BY <1>1, <2>1 DEF Fed, SmallWork, SmallBytes, LargeWork
  <2>3. PICK F : F = Fed
    OBVIOUS
  <2> QED
    BY <1>4, <2>2, <2>3, SettledForLess
<1>6. left \in Nat /\ eta.dirs = left /\ left' \in Nat /\ eta'.dirs = left'
  BY <1>1, <1>3, <1>4 DEF EtaInv, PrepareInv, SameBooks, Minus
<1> QED
  BY <1>1, <1>3, <1>4, <1>5, <1>6 DEF EtaInv, PrepareInv, Streamed, SameBooks

LEMMA StartedKeeps == ASSUME EtaInv, SendStarted PROVE EtaInv'
<1>1. eta' \in Charged(eta, Started(eta, Cardinality(Planned), MaxLen + 1))
      /\ stage = "directories" /\ stage' = "dispatch" /\ left = 0
      /\ UNCHANGED <<left, sampler, reported, progress>>
  BY DEF SendStarted, vars, samplerVars
<1>2. PICK y : y = Started(eta, Cardinality(Planned), MaxLen + 1)
  OBVIOUS
<1>3. y = [eta EXCEPT !.dirsOn = FALSE, !.awaiting = FALSE]
  BY <1>1, <1>2 DEF Started, EtaInv, PrepareInv
<1>4. /\ y \in Estimators /\ ~y.dirsOn /\ y.threshold = eta.threshold
      /\ y.small = eta.small /\ y.bytes = eta.bytes /\ y.dirs = eta.dirs
      /\ y.credited = eta.credited /\ y.smallOn = eta.smallOn /\ y.largeOn = eta.largeOn
  BY <1>3 DEF EtaInv, Estimators
<1>5. eta' \in Estimators /\ SameBooks(y, eta')
  BY <1>1, <1>2, <1>4, ChargedFacts DEF EtaInv
<1>6. /\ \A e \in Entry : reported[e] = "none" /\ progress[e] = 0 /\ eta.credited[e] = 0
      /\ eta.smallOn = 0 /\ eta.largeOn = 0 /\ eta.threshold = Threshold /\ eta.dirs = 0
      /\ eta.small = Cardinality(Planned \ LargeIn(Planned))
      /\ eta.bytes = BytesOf(LargeIn(Planned))
  BY <1>1 DEF EtaInv, PrepareInv
<1>7. /\ Ongoing' = {} /\ LargeIn({}) = {}
      /\ Open(LargeIn(Planned))' = LargeIn(Planned)
      /\ Open(Planned \ LargeIn(Planned))' = Planned \ LargeIn(Planned)
  BY <1>1, <1>6, PlannedIsFinite DEF Ongoing, Open, LargeIn
<1>8. BytesLeft' = Due(progress, LargeIn(Planned))
  BY <1>1, <1>7 DEF BytesLeft, Due, Rest
<1>9. eta.bytes = BytesLeft' /\ eta.bytes \in Nat
  BY <1>6, <1>8, PlanFacts
<1>10. Cardinality({}) = 0
  BY FS_EmptySet
<1>11. \A e \in Planned : eta'.credited[e] = progress'[e]
  BY <1>1, <1>4, <1>5, <1>6, PlannedIsFinite DEF SameBooks
<1>12. /\ eta'.largeOn = Cardinality(LargeIn(Ongoing'))
       /\ eta'.smallOn = Cardinality(Ongoing' \ LargeIn(Ongoing'))
       /\ eta'.small = Cardinality(Open(Planned \ LargeIn(Planned))')
  BY <1>4, <1>5, <1>6, <1>7, <1>10 DEF SameBooks
<1>13. Books'
  BY <1>4, <1>5, <1>6, <1>9, <1>11, <1>12 DEF Books, SameBooks
<1> QED
  BY <1>1, <1>5, <1>13 DEF EtaInv, PrepareInv, Streamed

(* The sweep that may follow starts new books.                              *)
LEMMA SweepKeeps ==
  ASSUME EngineInv, EtaInv, StartSweep \/ \E size \in 0 .. MaxLen : StartOrphan(size) \/ EndOrphan(size)
  PROVE  EtaInv' /\ (SamePhase => Settled(eta, eta', Fed))
<1>0. eta \in Estimators /\ left \in Nat /\ MaxLen \in Nat /\ Orphans \in Nat
  BY EtaAssumption, BoundsAssumption DEF EtaInv
<1>1. stage' \in {"sweep", "orphan"} /\ left' \in Nat /\ UNCHANGED sampler
      /\ (stage' = "orphan" => left' > 0)
  <2>1. CASE StartSweep
    BY <1>0, <2>1 DEF StartSweep, vars, samplerVars
  <2>2. ASSUME NEW size, StartOrphan(size)
        PROVE  stage' = "orphan" /\ left' \in Nat /\ left' > 0 /\ UNCHANGED sampler
    BY <1>0, <2>2 DEF StartOrphan, vars, samplerVars
  <2>3. ASSUME NEW size, EndOrphan(size)
        PROVE  stage' = "sweep" /\ left' \in Nat /\ UNCHANGED sampler
    <3>1. stage = "orphan" /\ left' = left - 1 /\ stage' = "sweep" /\ UNCHANGED vars
      BY <2>3, Zenon DEF EndOrphan
    <3> QED
      BY <1>0, <3>1 DEF vars, samplerVars, EtaInv, PrepareInv
  <2> QED
    BY <2>1, <2>2, <2>3
<1>b. UNCHANGED vars => \A x \in Entry : ~Ends(x) /\ ~(progress'[x] > progress[x])
  <2> SUFFICES ASSUME UNCHANGED vars, NEW x \in Entry PROVE ~Ends(x) /\ ~(progress'[x] > progress[x])
    OBVIOUS
  <2>1. reported' = reported /\ progress' = progress /\ progress[x] \in Nat
    BY DEF vars, samplerVars, EngineInv, TypeOK
  <2> QED
    BY <2>1 DEF Ends
<1>2. eta' \in Estimators /\ (SamePhase => Settled(eta, eta', Fed))
  <2>1. CASE StartSweep
    <3>1. PICK y : y = Started(eta, Orphans, MaxLen + 1)
      OBVIOUS
    <3>2. y \in Estimators
      <4>1. CASE eta.awaiting
        <5>1. y = [eta EXCEPT !.dirsOn = FALSE, !.awaiting = FALSE]
          BY <3>1, <4>1 DEF Started
        <5> QED
          BY <1>0, <5>1 DEF Estimators
      <4>2. CASE ~eta.awaiting
        <5>1. PICK m \in Nat : m = MaxLen + 1
          BY <1>0
        <5>2. y = [eta EXCEPT !.dirsOn = FALSE, !.small = Orphans, !.bytes = 0, !.threshold = m]
          BY <3>1, <4>2, <5>1 DEF Started
        <5> QED
          BY <1>0, <5>1, <5>2 DEF Estimators
      <4> QED
        BY <4>1, <4>2
    <3>3. ~SamePhase
      BY <2>1 DEF StartSweep, SamePhase
    <3> QED
      BY <1>0, <2>1, <3>1, <3>2, <3>3, ChargedFacts DEF StartSweep
  <2>2. ASSUME NEW size \in 0 .. MaxLen, StartOrphan(size) PROVE eta' \in Estimators /\ Settled(eta, eta', Fed)
    <3>1. PICK y : y = EntryStarted(eta, size)
      OBVIOUS
    <3>2. y \in Estimators /\ Fits(eta, y, {})
      BY <1>0, <2>2, <3>1, EntryStartedFacts
    <3>3. eta' \in Estimators /\ Settled(eta, eta', {})
      BY <1>0, <2>2, <3>1, <3>2, Settling DEF StartOrphan
    <3>4. Fed = {}
      <4>1. \A x \in Entry : ~Ends(x) /\ ~(progress'[x] > progress[x])
        BY <1>b, <2>2 DEF StartOrphan
      <4> QED
        BY <2>2, <4>1 DEF StartOrphan, Fed, LargeWork, SmallWork, SmallBytes
    <3> QED
      BY <3>3, <3>4
  <2>3. ASSUME NEW size \in 0 .. MaxLen, EndOrphan(size) PROVE eta' \in Estimators /\ Settled(eta, eta', Fed)
    <3>1. PICK v, w : v = Worked(eta, {"SmallFile"}, 1) /\ w = Worked(v, {"Overall"}, size)
      OBVIOUS
    <3>a. v \in Estimators /\ SameBooks(eta, v) /\ Adds(eta, v, eta.worked \cup {"SmallFile"})
      BY <1>0, <3>1, WorkedFacts, RateFacts
    <3>b. size \in Nat
      BY <1>0
    <3>2. w \in Estimators /\ SameBooks(v, w) /\ Adds(v, w, v.worked)
      BY <3>b, <3>1, <3>a, WorkedFacts, RateFacts
    <3>3. PICK y : y = [w EXCEPT !.small = Minus(w.small, 1), !.smallOn = Minus(w.smallOn, 1)]
      OBVIOUS
    <3>4. Minus(w.small, 1) \in Nat /\ Minus(w.small, 1) <= w.small /\ Minus(w.smallOn, 1) \in Nat
      BY <3>2, MinusFacts DEF Estimators
    <3>5. /\ y \in Estimators /\ y.rate = w.rate /\ y.worked = w.worked
          /\ y.dirs = w.dirs /\ y.small <= w.small /\ y.bytes = w.bytes
      BY <3>2, <3>3, <3>4 DEF Estimators
    <3>6. NoMore(eta, y)
      BY <1>0, <3>a, <3>2, <3>5 DEF NoMore, SameBooks, Estimators
    <3>7. Fits(eta, y, {"SmallFile"})
      BY <3>a, <3>2, <3>5, <3>6 DEF Fits, Adds
    <3>8. eta' \in Charged(eta, y)
      BY <2>3, <3>1, <3>3 DEF EndOrphan
    <3>9. eta' \in Estimators /\ Settled(eta, eta', {"SmallFile"})
      BY <1>0, <3>5, <3>7, <3>8, Settling
    <3>10. Fed \subseteq {"SmallFile"}
      <4>1. \A x \in Entry : ~Ends(x) /\ ~(progress'[x] > progress[x])
        BY <1>b, <2>3 DEF EndOrphan
      <4> QED
        BY <2>3, <4>1 DEF EndOrphan, Fed, LargeWork, SmallBytes
    <3>11. PICK F : F = Fed
      OBVIOUS
    <3> QED
      BY <3>9, <3>10, <3>11, SettledForLess
  <2> QED
    BY <2>1, <2>2, <2>3
<1> QED
  BY <1>1, <1>2 DEF EtaInv, PrepareInv, Streamed

LEMMA EtaInvInit == ASSUME EtaInit PROVE EtaInv
<1>1. eta = NewEstimator /\ left = 0 /\ stage = "plan" /\ Init
  BY DEF EtaInit
<1>2. [e \in Entry |-> 0] \in [Entry -> Nat] /\ [r \in Rates |-> "none"] \in [Rates -> RateState]
  BY DEF RateState
<1>3. eta \in Estimators
  BY <1>1, <1>2 DEF NewEstimator, Estimators
<1>4. \A e \in Entry : reported[e] = "none" /\ progress[e] = 0 /\ eta.credited[e] = 0
  BY <1>1 DEF Init, NewEstimator
<1>5. Streamed /\ eta.smallOn = 0 /\ eta.largeOn = 0
  BY <1>1 DEF Init, Streamed, NewEstimator
<1> QED
  BY <1>1, <1>3, <1>4, <1>5 DEF EtaInv, PrepareInv

LEMMA EtaStepIsEngineStep == ASSUME [EtaNext]_etaVars PROVE [Next]_vars
  BY DEF EtaNext, Prepare, SendPlanned, StartDirectories, EndDirectory, SendStarted, EngineStep,
         StartSweep, StartOrphan, EndOrphan, SweepEnded, etaVars

LEMMA EtaStep ==
  ASSUME EngineInv, EtaInv, [EtaNext]_etaVars
  PROVE  EtaInv' /\ (SamePhase => Settled(eta, eta', Fed))
<1>1. CASE UNCHANGED etaVars
  <2>1. UNCHANGED <<eta, stage, left, sampler, reported, progress>>
    BY <1>1 DEF etaVars, vars, samplerVars
  <2>2. PICK F : F = Fed
    OBVIOUS
  <2>3. Settled(eta, eta', F)
    BY <2>1 DEF EtaInv, Settled, Surer, Lasts, NoMore, Estimators, Known
  <2> QED
    BY <2>1, <2>2, <2>3 DEF EtaInv, PrepareInv, Streamed, Books, SkipsUnsampled, Ongoing, Open, BytesLeft
<1>2. CASE SendPlanned \/ StartDirectories \/ SendStarted
  <2>1. ~SamePhase
    BY <1>2 DEF SendPlanned, StartDirectories, SendStarted, SamePhase
  <2> QED
    BY <1>2, <2>1, PlannedKeeps, DirectoriesKeep, StartedKeeps
<1>3. CASE EndDirectory
  BY <1>3, DirectoryKeeps
<1>4. CASE EngineStep
  <2>1. stage = "dispatch" /\ stage' = stage /\ left' = left /\ Books /\ [Next]_vars /\ Observed
    BY <1>4 DEF EngineStep, EtaInv
  <2>2. Streamed' /\ eta' \in Estimators /\ Settled(eta, eta', Fed) /\ Books'
    BY <2>1, EngineStepKeepsBooks DEF EtaInv
  <2> QED
    BY <2>1, <2>2 DEF EtaInv, PrepareInv
<1>5. CASE StartSweep \/ \E size \in 0 .. MaxLen : StartOrphan(size) \/ EndOrphan(size)
  BY <1>5, SweepKeeps
<1> QED
  BY <1>1, <1>2, <1>3, <1>4, <1>5 DEF EtaNext, Prepare, SweepEnded

(* What an estimator believes of the call it observes: nothing of dispatch  *)
(* has happened before it, then its books are those of the engine.          *)
THEOREM EtaInvariant == EtaSpec => [](EngineInv /\ EtaInv)
<1>1. EtaInit => EngineInv /\ EtaInv
  BY EngineInvInit, EtaInvInit DEF EtaInit
<1>2. EngineInv /\ EtaInv /\ [EtaNext]_etaVars => (EngineInv /\ EtaInv)'
  BY EtaStep, EtaStepIsEngineStep, EngineInvStep
<1> QED
  BY <1>1, <1>2, PTL DEF EtaSpec

(* During dispatch the estimator's counts are those of the engine, for any  *)
(* plan, threshold and concurrency (observe() against dispatch()).          *)
THEOREM EstimateIsTheEngines == EtaSpec => []CountsFollowEngine
<1>1. EtaInv => CountsFollowEngine
  BY DEF EtaInv, Books, SkipsUnsampled, CountsFollowEngine
<1> QED
  BY <1>1, EtaInvariant, PTL

(* For every plan, threshold and clock: within a phase an estimate is only  *)
(* lost at an event that brought no work to a rate it rests on while work   *)
(* of that kind was in flight (estimate(), Rate::add_time).                 *)
THEOREM EstimateLasts == EtaSpec => EstimateLastsWithWork
<1>1. ASSUME EngineInv, EtaInv, [EtaNext]_etaVars
      PROVE  [SamePhase /\ HasEstimate(eta) /\ ~HasEstimate(eta')
                => \E r \in Basis(eta) \cap Busy(eta) : r \notin Fed]_etaVars
  <2>1. EtaInv' /\ (SamePhase => Settled(eta, eta', Fed))
    BY <1>1, EtaStep
  <2>2. PICK F : F = Fed
    OBVIOUS
  <2>3. eta \in Estimators /\ eta' \in Estimators
    BY <1>1, <2>1 DEF EtaInv
  <2> SUFFICES ASSUME SamePhase, HasEstimate(eta), \A r \in Basis(eta) \cap Busy(eta) : r \in F
               PROVE  HasEstimate(eta')
    BY <2>2
  <2>4. Settled(eta, eta', F)
    BY <2>1, <2>2
  <2> QED
    BY <2>3, <2>4, EstimateStays
<1> QED
  BY <1>1, EtaInvariant, PTL DEF EtaSpec, EstimateLastsWithWork

-----------------------------------------------------------------------------
(* Induction up to a bound, for a set of numbers.                           *)
LEMMA UpTo ==
  ASSUME NEW n \in Nat, NEW P, 0 \in P, \A k \in 0 .. n - 1 : k \in P => k + 1 \in P
  PROVE  \A k \in 0 .. n : k \in P
<1> SUFFICES ASSUME NEW k \in 0 .. n, k \notin P PROVE FALSE
  OBVIOUS
<1> DEFINE T == {m \in 0 .. n : m \notin P}
<1>1. T \in SUBSET Nat /\ T # {}
  OBVIOUS
<1>2. PICK m \in T : \A l \in T : m <= l
  BY <1>1, LeastNat
<1>3. m # 0 /\ m \in 0 .. n
  BY <1>2
<1>4. m - 1 \in 0 .. n - 1 /\ m - 1 + 1 = m /\ m - 1 \in 0 .. n
  BY <1>3
<1>5. m - 1 \in P
  BY <1>2, <1>4
<1> QED
  BY <1>2, <1>4, <1>5

LEMMA MaxOfAll == ASSUME NEW n \in Nat, NEW s \in SUBSET (1 .. n), n \in s PROVE Max(s) = n
<1>1. \A y \in s : n >= y
  OBVIOUS
<1>2. Max(s) \in s /\ \A y \in s : Max(s) >= y
  BY <1>1 DEF Max
<1>3. Max(s) \in 1 .. n /\ Max(s) >= n
  BY <1>2
<1> QED
  BY <1>3

LEMMA MaxIsMember ==
  ASSUME NEW n \in Nat, NEW s \in SUBSET (1 .. n), s # {} PROVE Max(s) \in s
<1> DEFINE P == {k \in 0 .. n : \A t \in SUBSET (1 .. k) : t # {} => Max(t) \in t}
<1>1. 0 \in P
  <2>1. 0 \in 0 .. n /\ 1 .. 0 = {}
    OBVIOUS
  <2> QED
    BY <2>1
<1>2. ASSUME NEW k \in 0 .. n - 1, k \in P PROVE k + 1 \in P
  <2>1. ASSUME NEW t \in SUBSET (1 .. k + 1), t # {} PROVE Max(t) \in t
    <3>1. CASE k + 1 \in t
      BY <3>1, MaxOfAll
    <3>2. CASE k + 1 \notin t
      <4>1. t \in SUBSET (1 .. k)
        BY <3>2
      <4> QED
        BY <1>2, <2>1, <4>1
    <3> QED
      BY <3>1, <3>2
  <2> QED
    BY <2>1
<1> HIDE DEF P
<1>3. n \in P
  BY <1>1, <1>2, UpTo
<1> QED
  BY <1>3 DEF P

LEMMA WithoutLast ==
  ASSUME NEW k \in Nat, NEW s \in SUBSET (1 .. k + 1)
  PROVE  /\ s \ {k + 1} \in SUBSET (1 .. k)
         /\ k + 1 \notin s => s \in SUBSET (1 .. k)
         /\ k + 1 \in s => Max(s) = k + 1
<1>1. \A x \in s : x \in 1 .. k + 1
  OBVIOUS
<1>2. \A x \in s : x # k + 1 => x \in 1 .. k
  BY <1>1
<1>3. k + 1 \in Nat
  OBVIOUS
<1> QED
  BY <1>2, <1>3, MaxOfAll

(* A fold over the places of a list, last place first, as FoldLeft is: the  *)
(* step takes the value so far and the place.                               *)
IsFold(it, n, base, step) ==
  it = [s \in SUBSET (1 .. n) |-> IF s = {} THEN base ELSE step[<<it[s \ {Max(s)}], Max(s)>>]]

LEMMA FoldExists ==
  ASSUME NEW n \in Nat, NEW X, NEW base \in X, NEW step, \A x \in X, i \in 1 .. n : step[<<x, i>>] \in X
  PROVE  \E it \in [SUBSET (1 .. n) -> X] : IsFold(it, n, base, step)
<1> DEFINE Folds(k) == {it \in [SUBSET (1 .. k) -> X] : IsFold(it, k, base, step)}
           P == {k \in 0 .. n : Folds(k) # {}}
<1>1. 0 \in P
  <2> DEFINE it == [s \in SUBSET (1 .. 0) |-> base]
  <2>1. \A s \in SUBSET (1 .. 0) : s = {}
    <3>1. 1 .. 0 = {}
      OBVIOUS
    <3> QED
      BY <3>1
  <2>2. it \in [SUBSET (1 .. 0) -> X]
    OBVIOUS
  <2>3. it = [s \in SUBSET (1 .. 0) |-> IF s = {} THEN base ELSE step[<<it[s \ {Max(s)}], Max(s)>>]]
    BY <2>1
  <2>4. it \in Folds(0)
    BY <2>2, <2>3 DEF IsFold
  <2>5. 0 \in 0 .. n
    OBVIOUS
  <2> QED
    BY <2>4, <2>5
<1>2. ASSUME NEW k \in 0 .. n - 1, k \in P PROVE k + 1 \in P
  <2>1. PICK f \in [SUBSET (1 .. k) -> X] : IsFold(f, k, base, step)
    BY <1>2
  <2>2. k \in Nat /\ k + 1 \in 0 .. n /\ k + 1 \in 1 .. n
    OBVIOUS
  <2> DEFINE g == [s \in SUBSET (1 .. k + 1) |->
                     IF k + 1 \in s THEN step[<<f[s \ {k + 1}], k + 1>>] ELSE f[s]]
             h == [s \in SUBSET (1 .. k + 1) |->
                     IF s = {} THEN base ELSE step[<<g[s \ {Max(s)}], Max(s)>>]]
  <2>3. g \in [SUBSET (1 .. k + 1) -> X]
    <3> SUFFICES ASSUME NEW s \in SUBSET (1 .. k + 1)
                 PROVE (IF k + 1 \in s THEN step[<<f[s \ {k + 1}], k + 1>>] ELSE f[s]) \in X
      OBVIOUS
    <3>1. s \ {k + 1} \in SUBSET (1 .. k) /\ (k + 1 \notin s => s \in SUBSET (1 .. k))
      BY <2>2, WithoutLast
    <3> QED
      BY <2>1, <2>2, <3>1
  <2>4. ASSUME NEW s \in SUBSET (1 .. k + 1) PROVE g[s] = h[s]
    <3>0. /\ s \ {k + 1} \in SUBSET (1 .. k)
          /\ k + 1 \notin s => s \in SUBSET (1 .. k)
          /\ k + 1 \in s => Max(s) = k + 1
      BY <2>2, WithoutLast
    <3>1. h[s] = IF s = {} THEN base ELSE step[<<g[s \ {Max(s)}], Max(s)>>]
      OBVIOUS
    <3>2. CASE k + 1 \in s
      <4>1. s \ {k + 1} \in SUBSET (1 .. k + 1) /\ k + 1 \notin s \ {k + 1}
        OBVIOUS
      <4>2. g[s \ {k + 1}] = f[s \ {k + 1}]
        BY <4>1
      <4>3. g[s] = step[<<f[s \ {k + 1}], k + 1>>]
        BY <3>2
      <4>4. s # {}
        BY <3>2
      <4> HIDE DEF g, h
      <4> QED
        BY <3>0, <3>1, <3>2, <4>2, <4>3, <4>4
    <3>3. CASE k + 1 \notin s
      <4>1. s \in SUBSET (1 .. k) /\ g[s] = f[s]
        BY <3>0, <3>3
      <4>2. f[s] = IF s = {} THEN base ELSE step[<<f[s \ {Max(s)}], Max(s)>>]
        BY <2>1, <4>1 DEF IsFold
      <4>3. s \ {Max(s)} \in SUBSET (1 .. k + 1) /\ k + 1 \notin s \ {Max(s)}
        BY <3>3
      <4>4. g[s \ {Max(s)}] = f[s \ {Max(s)}]
        BY <4>3
      <4> HIDE DEF g, h
      <4> QED
        BY <3>1, <4>1, <4>2, <4>4
    <3> QED
      BY <3>2, <3>3
  <2>5. g = h
    BY <2>4
  <2>6. IsFold(g, k + 1, base, step)
    BY <2>5 DEF IsFold
  <2> HIDE DEF g, h
  <2>7. g \in Folds(k + 1)
    BY <2>3, <2>6
  <2> QED
    BY <2>2, <2>7
<1> HIDE DEF P
<1>3. n \in P
  <2>1. \A k \in 0 .. n : k \in P
    BY <1>1, <1>2, UpTo
  <2> QED
    BY <2>1
<1> QED
  BY <1>3 DEF P

LEMMA FirstPlaces ==
  ASSUME NEW n \in Nat, NEW k \in 1 .. n
  PROVE  /\ 1 .. k \in SUBSET (1 .. n) /\ 1 .. k # {}
         /\ Max(1 .. k) = k /\ (1 .. k) \ {k} = 1 .. (k - 1)
<1>1. k \in 1 .. k /\ k \in Nat
  OBVIOUS
<1>2. Max(1 .. k) = k
  BY <1>1, MaxOfAll
<1> QED
  BY <1>2

LEMMA AppendAny ==
  ASSUME NEW E, NEW s \in Seq(E), NEW e \in E
  PROVE  /\ Append(s, e) \in Seq(E)
         /\ Len(Append(s, e)) = Len(s) + 1
         /\ \A i \in DOMAIN s : Append(s, e)[i] = s[i]
         /\ Append(s, e)[Len(s) + 1] = e
         /\ ToSet(Append(s, e)) = ToSet(s) \cup {e}
         /\ IsInjective(s) /\ e \notin ToSet(s) => IsInjective(Append(s, e))
<1> DEFINE n == Len(s)
           t == Append(s, e)
<1>1. n \in Nat /\ DOMAIN s = 1 .. n /\ DOMAIN t = 1 .. n + 1 /\ t \in Seq(E) /\ Len(t) = n + 1
  OBVIOUS
<1>2. (\A i \in 1 .. n : t[i] = s[i]) /\ t[n + 1] = e
  OBVIOUS
<1> HIDE DEF t, n
<1>3. 1 .. (n + 1) = (1 .. n) \cup {n + 1}
  BY <1>1
<1>4. ToSet(t) = ToSet(s) \cup {e}
  BY <1>1, <1>2, <1>3 DEF ToSet
<1>5. IsInjective(s) /\ e \notin ToSet(s) => IsInjective(t)
  BY <1>1, <1>2, <1>3 DEF ToSet, IsInjective
<1> QED
  BY <1>1, <1>2, <1>4, <1>5 DEF t, n

(* The folds of the planner, opened: what pack() has after each entry, and  *)
(* what partition() has kept.                                               *)
IsPacking(it, list, size, maxBytes, limit) ==
  it = [s \in SUBSET DOMAIN list |->
          IF s = {} THEN <<<<>>>>
          ELSE Placed(it[s \ {Max(s)}], list[Max(s)], size, maxBytes, limit)]

IsKeeping(it, list, K) ==
  it = [s \in SUBSET DOMAIN list |->
          IF s = {} THEN <<>>
          ELSE IF list[Max(s)] \in K THEN Append(it[s \ {Max(s)}], list[Max(s)])
               ELSE it[s \ {Max(s)}]]

LEMMA PackedFolds ==
  ASSUME NEW list, NEW size, NEW maxBytes, NEW limit
  PROVE  Packed(list, size, maxBytes, limit)
           = (CHOOSE it : IsPacking(it, list, size, maxBytes, limit))[DOMAIN list]
BY DEF Packed, FoldLeft, MapThenFoldSet, IsPacking

LEMMA OnlyFolds ==
  ASSUME NEW list, NEW K
  PROVE  Only(list, K) = (CHOOSE it : IsKeeping(it, list, K))[DOMAIN list]
BY DEF Only, FoldLeft, MapThenFoldSet, IsKeeping

LEMMA PlacedType ==
  ASSUME NEW E, NEW batches \in Seq(Seq(E)), batches # <<>>, NEW e \in E,
         NEW size, NEW maxBytes, NEW limit
  PROVE  Placed(batches, e, size, maxBytes, limit) \in Seq(Seq(E)) \ {<<>>}
<1>1. Len(batches) \in Nat \ {0} /\ Len(batches) \in 1 .. Len(batches)
  OBVIOUS
<1>2. batches[Len(batches)] \in Seq(E)
  BY <1>1
<1>3. <<e>> \in Seq(E) /\ Append(batches[Len(batches)], e) \in Seq(E)
  BY <1>2
<1>4. Append(batches, <<e>>) \in Seq(Seq(E)) \ {<<>>}
  BY <1>3
<1>5. [batches EXCEPT ![Len(batches)] = Append(@, e)] \in Seq(Seq(E)) \ {<<>>}
  BY <1>1, <1>3
<1> QED
  BY <1>4, <1>5 DEF Placed

NoBatchYet == <<<<>>>>

LEMMA PackingRuns ==
  ASSUME NEW E, NEW list \in Seq(E), NEW size, NEW maxBytes, NEW limit
  PROVE  \E run : /\ Packed(list, size, maxBytes, limit) = run[Len(list)]
                  /\ run[0] = NoBatchYet
                  /\ \A k \in 1 .. Len(list) :
                       run[k] = Placed(run[k - 1], list[k], size, maxBytes, limit)
<1> DEFINE n == Len(list)
           X == Seq(Seq(E)) \ {<<>>}
           step == [p \in X \X (1 .. n) |-> Placed(p[1], list[p[2]], size, maxBytes, limit)]
<1>1. n \in Nat /\ DOMAIN list = 1 .. n /\ \A i \in 1 .. n : list[i] \in E
  OBVIOUS
<1>2. <<<<>>>> \in X
  OBVIOUS
<1>3. \A x \in X, i \in 1 .. n : Placed(x, list[i], size, maxBytes, limit) \in X
  BY <1>1, PlacedType
<1>4. \A x \in X, i \in 1 .. n : step[<<x, i>>] = Placed(x, list[i], size, maxBytes, limit)
  OBVIOUS
<1> HIDE DEF n, X, step
<1>5. \A x \in X, i \in 1 .. n : step[<<x, i>>] \in X
  BY <1>3, <1>4
<1>6. PICK f \in [SUBSET (1 .. n) -> X] : IsFold(f, n, <<<<>>>>, step)
  BY <1>1, <1>2, <1>5, FoldExists
<1>7. IsPacking(f, list, size, maxBytes, limit)
  <2> DEFINE g == [s \in SUBSET (1 .. n) |->
                     IF s = {} THEN <<<<>>>>
                     ELSE Placed(f[s \ {Max(s)}], list[Max(s)], size, maxBytes, limit)]
  <2>1. ASSUME NEW s \in SUBSET (1 .. n) PROVE f[s] = g[s]
    <3>1. f[s] = IF s = {} THEN <<<<>>>> ELSE step[<<f[s \ {Max(s)}], Max(s)>>]
      BY <1>6 DEF IsFold
    <3>2. CASE s = {}
      BY <3>1, <3>2
    <3>3. CASE s # {}
      <4>1. PICK m : m = Max(s)
        OBVIOUS
      <4>2. m \in 1 .. n /\ s \ {m} \in SUBSET (1 .. n)
        BY <1>1, <3>3, <4>1, MaxIsMember
      <4>3. PICK x : x = f[s \ {m}]
        OBVIOUS
      <4>4. x \in X
        BY <1>6, <4>2, <4>3
      <4>5. step[<<x, m>>] = Placed(x, list[m], size, maxBytes, limit)
        BY <1>4, <4>2, <4>4
      <4> QED
        BY <3>1, <3>3, <4>1, <4>3, <4>5
    <3> QED
      BY <3>2, <3>3
  <2>2. f = g
    BY <1>6, <2>1
  <2> QED
    BY <1>1, <2>2 DEF IsPacking
<1>8. PICK it : it = (CHOOSE h : IsPacking(h, list, size, maxBytes, limit))
  OBVIOUS
<1>9. IsPacking(it, list, size, maxBytes, limit)
  BY <1>7, <1>8
<1> DEFINE run == [k \in 0 .. n |-> it[1 .. k]]
<1>10. run[0] = <<<<>>>>
  <2>1. 1 .. 0 = {} /\ 0 \in 0 .. n
    BY <1>1
  <2>2. it[{}] = <<<<>>>>
    BY <1>9 DEF IsPacking
  <2> QED
    BY <2>1, <2>2
<1>11. ASSUME NEW k \in 1 .. n PROVE run[k] = Placed(run[k - 1], list[k], size, maxBytes, limit)
  <2>1. /\ 1 .. k \in SUBSET (1 .. n) /\ 1 .. k # {}
        /\ Max(1 .. k) = k /\ (1 .. k) \ {k} = 1 .. (k - 1)
    BY <1>1, FirstPlaces
  <2>2. PICK s : s = 1 .. k
    OBVIOUS
  <2>3. it[s] = Placed(it[s \ {Max(s)}], list[Max(s)], size, maxBytes, limit)
    BY <1>1, <1>9, <2>1, <2>2 DEF IsPacking
  <2>4. run[k] = it[1 .. k] /\ run[k - 1] = it[1 .. (k - 1)]
    BY <1>1
  <2> HIDE DEF run
  <2> QED
    BY <2>1, <2>2, <2>3, <2>4
<1>12. Packed(list, size, maxBytes, limit) = run[n]
  <2>1. run[n] = it[1 .. n]
    BY <1>1
  <2> HIDE DEF run
  <2> QED
    BY <1>1, <1>8, <2>1, PackedFolds
<1> HIDE DEF run
<1> QED
  BY <1>10, <1>11, <1>12 DEF n, NoBatchYet
Kept(kept, e, K) == IF e \in K THEN Append(kept, e) ELSE kept

LEMMA KeptType ==
  ASSUME NEW E, NEW kept \in Seq(E), NEW e \in E, NEW K PROVE Kept(kept, e, K) \in Seq(E)
BY DEF Kept

LEMMA KeepingRuns ==
  ASSUME NEW E, NEW list \in Seq(E), NEW K
  PROVE  \E run : /\ Only(list, K) = run[Len(list)]
                  /\ run[0] = <<>>
                  /\ \A k \in 1 .. Len(list) :
                       run[k] = Kept(run[k - 1], list[k], K)
<1> DEFINE n == Len(list)
           X == Seq(E)
           step == [p \in X \X (1 .. n) |-> Kept(p[1], list[p[2]], K)]
<1>1. n \in Nat /\ DOMAIN list = 1 .. n /\ \A i \in 1 .. n : list[i] \in E
  OBVIOUS
<1>2. <<>> \in X
  OBVIOUS
<1>3. \A x \in X, i \in 1 .. n : Kept(x, list[i], K) \in X
  BY <1>1, KeptType
<1>4. \A x \in X, i \in 1 .. n : step[<<x, i>>] = Kept(x, list[i], K)
  OBVIOUS
<1> HIDE DEF n, X, step
<1>5. \A x \in X, i \in 1 .. n : step[<<x, i>>] \in X
  BY <1>3, <1>4
<1>6. PICK f \in [SUBSET (1 .. n) -> X] : IsFold(f, n, <<>>, step)
  BY <1>1, <1>2, <1>5, FoldExists
<1>7. IsKeeping(f, list, K)
  <2> DEFINE g == [s \in SUBSET (1 .. n) |->
                     IF s = {} THEN <<>>
                     ELSE Kept(f[s \ {Max(s)}], list[Max(s)], K)]
  <2>1. ASSUME NEW s \in SUBSET (1 .. n) PROVE f[s] = g[s]
    <3>1. f[s] = IF s = {} THEN <<>> ELSE step[<<f[s \ {Max(s)}], Max(s)>>]
      BY <1>6 DEF IsFold
    <3>2. CASE s = {}
      BY <3>1, <3>2
    <3>3. CASE s # {}
      <4>1. PICK m : m = Max(s)
        OBVIOUS
      <4>2. m \in 1 .. n /\ s \ {m} \in SUBSET (1 .. n)
        BY <1>1, <3>3, <4>1, MaxIsMember
      <4>3. PICK x : x = f[s \ {m}]
        OBVIOUS
      <4>4. x \in X
        BY <1>6, <4>2, <4>3
      <4>5. step[<<x, m>>] = Kept(x, list[m], K)
        BY <1>4, <4>2, <4>4
      <4> QED
        BY <3>1, <3>3, <4>1, <4>3, <4>5
    <3> QED
      BY <3>2, <3>3
  <2>2. f = g
    BY <1>6, <2>1
  <2> QED
    BY <1>1, <2>2 DEF IsKeeping, Kept
<1>8. PICK it : it = (CHOOSE h : IsKeeping(h, list, K))
  OBVIOUS
<1>9. IsKeeping(it, list, K)
  BY <1>7, <1>8
<1> DEFINE run == [k \in 0 .. n |-> it[1 .. k]]
<1>10. run[0] = <<>>
  <2>1. 1 .. 0 = {} /\ 0 \in 0 .. n
    BY <1>1
  <2>2. it[{}] = <<>>
    BY <1>9 DEF IsKeeping, Kept
  <2> QED
    BY <2>1, <2>2
<1>11. ASSUME NEW k \in 1 .. n PROVE run[k] = Kept(run[k - 1], list[k], K)
  <2>1. /\ 1 .. k \in SUBSET (1 .. n) /\ 1 .. k # {}
        /\ Max(1 .. k) = k /\ (1 .. k) \ {k} = 1 .. (k - 1)
    BY <1>1, FirstPlaces
  <2>2. PICK s : s = 1 .. k
    OBVIOUS
  <2>3. it[s] = Kept(it[s \ {Max(s)}], list[Max(s)], K)
    BY <1>1, <1>9, <2>1, <2>2 DEF IsKeeping, Kept
  <2>4. run[k] = it[1 .. k] /\ run[k - 1] = it[1 .. (k - 1)]
    BY <1>1
  <2> HIDE DEF run
  <2> QED
    BY <2>1, <2>2, <2>3, <2>4
<1>12. Only(list, K) = run[n]
  <2>1. run[n] = it[1 .. n]
    BY <1>1
  <2> HIDE DEF run
  <2> QED
    BY <1>1, <1>8, <2>1, OnlyFolds
<1> HIDE DEF run
<1> QED
  BY <1>10, <1>11, <1>12 DEF n

(* partition() keeps what is on its side, in order, and nothing twice.      *)
LEMMA OnlyKeeps ==
  ASSUME NEW E, NEW list \in Seq(E), NEW K
  PROVE  /\ Only(list, K) \in Seq(E)
         /\ ToSet(Only(list, K)) = ToSet(list) \cap K
         /\ IsInjective(list) => IsInjective(Only(list, K))
<1>1. PICK run : /\ Only(list, K) = run[Len(list)]
                 /\ run[0] = <<>>
                 /\ \A k \in 1 .. Len(list) : run[k] = Kept(run[k - 1], list[k], K)
  BY KeepingRuns
<1> DEFINE n == Len(list)
           Seen(k) == {list[i] : i \in 1 .. k}
           Right(s, k) == /\ s \in Seq(E)
                          /\ ToSet(s) = Seen(k) \cap K
                          /\ IsInjective(list) => IsInjective(s)
           P == {k \in 0 .. n : Right(run[k], k)}
<1>2. n \in Nat /\ DOMAIN list = 1 .. n /\ \A i \in 1 .. n : list[i] \in E
  OBVIOUS
<1>3. 0 \in P
  <2>1. 0 \in 0 .. n /\ 1 .. 0 = {}
    BY <1>2
  <2>2. <<>> \in Seq(E) /\ ToSet(<<>>) = {} /\ IsInjective(<<>>)
    BY DEF ToSet, IsInjective
  <2>3. Right(run[0], 0)
    BY <1>1, <2>1, <2>2
  <2> QED
    BY <2>1, <2>3
<1>4. ASSUME NEW k \in 0 .. n - 1, k \in P PROVE k + 1 \in P
  <2>1. k + 1 \in 1 .. n /\ k + 1 \in 0 .. n /\ k \in Nat /\ k + 1 - 1 = k
    BY <1>2
  <2>2. PICK s, e : s = run[k] /\ e = list[k + 1]
    OBVIOUS
  <2>3. run[k + 1] = Kept(s, e, K)
    BY <1>1, <2>1, <2>2
  <2>4. s \in Seq(E) /\ e \in E /\ ToSet(s) = Seen(k) \cap K
    BY <1>2, <1>4, <2>1, <2>2
  <2>5. Seen(k + 1) = Seen(k) \cup {e}
    <3>1. 1 .. (k + 1) = (1 .. k) \cup {k + 1}
      BY <2>1
    <3> QED
      BY <2>2, <3>1
  <2>6. IsInjective(list) => IsInjective(s) /\ e \notin Seen(k)
    <3>1. IsInjective(list) => IsInjective(s)
      BY <1>4, <2>2
    <3>2. ASSUME IsInjective(list), NEW i \in 1 .. k PROVE list[i] # e
      <4>1. i \in DOMAIN list /\ k + 1 \in DOMAIN list /\ i # k + 1
        BY <1>2, <2>1
      <4> QED
        BY <2>2, <3>2, <4>1 DEF IsInjective
    <3> QED
      BY <3>1, <3>2
  <2> HIDE DEF Seen
  <2>7. Right(Kept(s, e, K), k + 1)
    <3>1. CASE e \in K
      <4>1. Kept(s, e, K) = Append(s, e)
        BY <3>1 DEF Kept
      <4>2. /\ Append(s, e) \in Seq(E) /\ ToSet(Append(s, e)) = ToSet(s) \cup {e}
            /\ IsInjective(s) /\ e \notin ToSet(s) => IsInjective(Append(s, e))
        BY <2>4, AppendAny
      <4> QED
        BY <2>4, <2>5, <2>6, <3>1, <4>1, <4>2
    <3>2. CASE e \notin K
      <4>1. Kept(s, e, K) = s
        BY <3>2 DEF Kept
      <4> QED
        BY <2>4, <2>5, <2>6, <3>2, <4>1
    <3> QED
      BY <3>1, <3>2
  <2> QED
    BY <2>1, <2>3, <2>7
<1> HIDE DEF P
<1>5. n \in P
  <2>1. \A k \in 0 .. n : k \in P
    BY <1>2, <1>3, <1>4, UpTo
  <2> QED
    BY <1>2, <2>1
<1>6. Right(Only(list, K), n)
  BY <1>1, <1>5 DEF P
<1>7. Seen(n) = ToSet(list)
  BY <1>2 DEF ToSet
<1> QED
  BY <1>6, <1>7

(* The stable sort: Comes is a strict order of the places, so each place of *)
(* the list has one entry, and later places have later entries.             *)
LEMMA ComesIsOrder ==
  ASSUME NEW E, NEW entries \in Seq(E), NEW size \in [E -> Nat], NEW order,
         NEW i \in DOMAIN entries, NEW j \in DOMAIN entries
  PROVE  /\ ~Comes(i, i, entries, size, order)
         /\ i # j => Comes(i, j, entries, size, order) \/ Comes(j, i, entries, size, order)
         /\ \A k \in DOMAIN entries :
              Comes(i, j, entries, size, order) /\ Comes(j, k, entries, size, order)
                => Comes(i, k, entries, size, order)
<1>1. DOMAIN entries \subseteq Nat /\ \A k \in DOMAIN entries : entries[k] \in E
  OBVIOUS
<1>2. \A k \in DOMAIN entries : size[entries[k]] \in Nat
  BY <1>1
<1>3. PICK x, y : x = size[entries[i]] /\ y = size[entries[j]]
  OBVIOUS
<1>4. x \in Nat /\ y \in Nat /\ i \in Nat /\ j \in Nat
  BY <1>1, <1>2, <1>3
<1>5. Comes(i, i, entries, size, order)
        <=> (IF order = "Ascending" THEN x < x ELSE x > x) \/ (x = x /\ i < i)
  BY <1>3 DEF Comes
<1>6. Comes(i, j, entries, size, order)
        <=> (IF order = "Ascending" THEN x < y ELSE x > y) \/ (x = y /\ i < j)
  BY <1>3 DEF Comes
<1>7. Comes(j, i, entries, size, order)
        <=> (IF order = "Ascending" THEN y < x ELSE y > x) \/ (y = x /\ j < i)
  BY <1>3 DEF Comes
<1>8. ~Comes(i, i, entries, size, order)
  BY <1>4, <1>5
<1>9. i # j => Comes(i, j, entries, size, order) \/ Comes(j, i, entries, size, order)
  BY <1>4, <1>6, <1>7
<1>10. ASSUME NEW k \in DOMAIN entries,
              Comes(i, j, entries, size, order), Comes(j, k, entries, size, order)
       PROVE  Comes(i, k, entries, size, order)
  <2>1. PICK z : z = size[entries[k]]
    OBVIOUS
  <2>2. z \in Nat /\ k \in Nat
    BY <1>1, <1>2, <2>1
  <2>3. (IF order = "Ascending" THEN y < z ELSE y > z) \/ (y = z /\ j < k)
    BY <1>3, <1>10, <2>1 DEF Comes
  <2>4. (IF order = "Ascending" THEN x < z ELSE x > z) \/ (x = z /\ i < k)
    BY <1>4, <1>6, <1>10, <2>2, <2>3
  <2> QED
    BY <1>3, <2>1, <2>4 DEF Comes
<1> QED
  BY <1>8, <1>9, <1>10

LEMMA CountUpTo ==
  ASSUME NEW n \in Nat
  PROVE  /\ IsFiniteSet(1 .. n) /\ Cardinality(1 .. n) = n
         /\ IsFiniteSet(0 .. n - 1) /\ Cardinality(0 .. n - 1) = n
<1>1. 1 \in Int /\ 0 \in Int /\ n \in Int /\ n - 1 \in Int
  OBVIOUS
<1>2. Cardinality(1 .. n) = IF 1 > n THEN 0 ELSE n - 1 + 1
  BY <1>1, FS_Interval
<1>3. Cardinality(0 .. n - 1) = IF 0 > n - 1 THEN 0 ELSE n - 1 - 0 + 1
  BY <1>1, FS_Interval
<1>4. IsFiniteSet(1 .. n) /\ IsFiniteSet(0 .. n - 1)
  BY <1>1, FS_Interval
<1> QED
  BY <1>2, <1>3, <1>4

LEMMA SortedPlaces ==
  ASSUME NEW E, NEW entries \in Seq(E), NEW size \in [E -> Nat], NEW order
  PROVE  /\ \A k \in DOMAIN entries : SortedPlace(k, entries, size, order) \in DOMAIN entries
         /\ \A i \in DOMAIN entries : \E k \in DOMAIN entries :
              SortedPlace(k, entries, size, order) = i
         /\ \A k, l \in DOMAIN entries : k < l =>
              Comes(SortedPlace(k, entries, size, order), SortedPlace(l, entries, size, order),
                    entries, size, order)
<1> DEFINE D == DOMAIN entries
           n == Len(entries)
           R(i) == Earlier(i, entries, size, order)
           rank == [i \in D |-> Cardinality(R(i))]
           place(k) == SortedPlace(k, entries, size, order)
<1>1. n \in Nat /\ D = 1 .. n
  OBVIOUS
<1>2. IsFiniteSet(D) /\ Cardinality(D) = n
  BY <1>1, CountUpTo
<1>3. ASSUME NEW i \in D
      PROVE R(i) \in SUBSET D /\ i \notin R(i) /\ IsFiniteSet(R(i)) /\ rank[i] \in 0 .. n - 1
  <2>1. R(i) \in SUBSET D /\ i \notin R(i)
    BY ComesIsOrder DEF Earlier
  <2>2. IsFiniteSet(R(i)) /\ Cardinality(R(i)) \in Nat /\ Cardinality(R(i)) <= n
    BY <1>2, <2>1, FS_Subset, FS_CardinalityType
  <2>3. Cardinality(R(i)) # n
    BY <1>2, <2>1, FS_Subset
  <2>4. Cardinality(R(i)) \in 0 .. n - 1
    BY <1>1, <2>2, <2>3
  <2> QED
    BY <2>1, <2>2, <2>4
<1>4. ASSUME NEW i \in D, NEW j \in D, Comes(i, j, entries, size, order) PROVE rank[i] < rank[j]
  <2>1. R(i) \in SUBSET R(j)
    BY <1>4, ComesIsOrder DEF Earlier
  <2>2. i \in R(j) /\ i \notin R(i)
    BY <1>3, <1>4 DEF Earlier
  <2>3. Cardinality(R(i)) <= Cardinality(R(j)) /\ Cardinality(R(i)) # Cardinality(R(j))
    BY <1>3, <2>1, <2>2, FS_Subset
  <2>4. rank[i] \in Nat /\ rank[j] \in Nat
    BY <1>1, <1>3
  <2> QED
    BY <2>3, <2>4
<1>5. \A i \in D : rank[i] \in Nat
  BY <1>1, <1>3
<1>6. ASSUME NEW i \in D, NEW j \in D, rank[i] = rank[j] PROVE i = j
  <2>1. ~Comes(i, j, entries, size, order) /\ ~Comes(j, i, entries, size, order)
    <3>1. ~(rank[i] < rank[j]) /\ ~(rank[j] < rank[i])
      BY <1>5, <1>6
    <3> QED
      BY <1>4, <3>1
  <2> QED
    BY <2>1, ComesIsOrder
<1>7. \A r \in 0 .. n - 1 : \E i \in D : rank[i] = r
  <2>1. rank \in [D -> 0 .. n - 1]
    BY <1>3
  <2>2. rank \in Injection(D, 0 .. n - 1)
    BY <1>6, <2>1 DEF Injection, IsInjective
  <2>3. IsFiniteSet(0 .. n - 1) /\ Cardinality(0 .. n - 1) = n
    BY <1>1, CountUpTo
  <2>4. rank \in Surjection(D, 0 .. n - 1)
    BY <1>2, <2>2, <2>3, FS_Injection
  <2> QED
    BY <2>4 DEF Surjection
<1>8. ASSUME NEW k \in D PROVE place(k) \in D /\ rank[place(k)] = k - 1
  <2>1. k - 1 \in 0 .. n - 1
    BY <1>1
  <2>2. \E i \in DOMAIN entries : Cardinality(Earlier(i, entries, size, order)) = k - 1
    BY <1>7, <2>1
  <2>3. /\ place(k) \in DOMAIN entries
        /\ Cardinality(Earlier(place(k), entries, size, order)) = k - 1
    BY <2>2 DEF SortedPlace
  <2> QED
    BY <2>3
<1> HIDE DEF place, rank
<1>9. ASSUME NEW i \in D PROVE \E k \in D : place(k) = i
  <2>1. PICK r \in 0 .. n - 1 : rank[i] = r
    BY <1>3
  <2>2. r + 1 \in D /\ r + 1 - 1 = r
    BY <1>1
  <2>3. place(r + 1) \in D /\ rank[place(r + 1)] = r
    BY <1>8, <2>2
  <2>4. place(r + 1) = i
    BY <1>6, <2>1, <2>3
  <2> QED
    BY <2>2, <2>4
<1>10. ASSUME NEW k \in D, NEW l \in D, k < l
       PROVE Comes(place(k), place(l), entries, size, order)
  <2>1. PICK i \in D, j \in D : i = place(k) /\ j = place(l)
    BY <1>8
  <2>2. rank[i] = k - 1 /\ rank[j] = l - 1 /\ k \in Nat /\ l \in Nat
    BY <1>1, <1>8, <2>1
  <2>3. ~(rank[j] < rank[i]) /\ i # j
    BY <1>10, <2>2
  <2>4. ~Comes(j, i, entries, size, order)
    BY <1>4, <2>3
  <2> QED
    BY <2>1, <2>3, <2>4, ComesIsOrder
<1> QED
  BY <1>8, <1>9, <1>10 DEF place

LEMMA SortedFacts ==
  ASSUME NEW E, NEW entries \in Seq(E), NEW size \in [E -> Nat], NEW order
  PROVE  LET sorted == Sorted(entries, size, order) IN
         /\ sorted \in Seq(E) /\ Len(sorted) = Len(entries)
         /\ ToSet(sorted) = ToSet(entries)
         /\ IsInjective(entries) => IsInjective(sorted)
<1> DEFINE D == DOMAIN entries
           place(k) == SortedPlace(k, entries, size, order)
           sorted == Sorted(entries, size, order)
<1>1. /\ \A k \in D : place(k) \in D
      /\ \A i \in D : \E k \in D : place(k) = i
      /\ \A k, l \in D : k < l => Comes(place(k), place(l), entries, size, order)
  BY SortedPlaces
<1>2. sorted = [k \in D |-> entries[place(k)]]
  BY DEF Sorted
<1>3. Len(entries) \in Nat /\ D = 1 .. Len(entries) /\ \A i \in D : entries[i] \in E
  OBVIOUS
<1>4. \A k, l \in D : place(k) = place(l) => k = l
  <2> SUFFICES ASSUME NEW k \in D, NEW l \in D, place(k) = place(l), k < l PROVE FALSE
    BY <1>3
  <2>1. Comes(place(k), place(k), entries, size, order)
    BY <1>1
  <2> QED
    BY <1>1, <2>1, ComesIsOrder
<1> HIDE DEF place, sorted
<1>5. sorted \in Seq(E) /\ Len(sorted) = Len(entries) /\ DOMAIN sorted = D
  <2>1. \A k \in D : entries[place(k)] \in E
    BY <1>1, <1>3
  <2> QED
    BY <1>2, <1>3, <2>1
<1>6. ToSet(sorted) = ToSet(entries)
  BY <1>1, <1>2, <1>5 DEF ToSet
<1>7. ASSUME IsInjective(entries) PROVE IsInjective(sorted)
  BY <1>1, <1>2, <1>4, <1>5, <1>7 DEF IsInjective
<1> QED
  BY <1>5, <1>6, <1>7 DEF sorted

LEMMA QuotientIsNat ==
  ASSUME NEW a \in Nat, NEW b \in Nat, b # 0 PROVE a \div b \in Nat
OBVIOUS

(* The derived limit is a number, whatever the sizes: a median of zero is   *)
(* never divided by.                                                        *)
LEMMA MaxFilesType ==
  ASSUME NEW E, NEW entries \in Seq(E), entries # <<>>, NEW size \in [E -> Nat],
         NEW config \in Config
  PROVE  MaxFiles(entries, size, config) \in Nat
<1>1. PICK sorted : sorted = Sorted(entries, size, "Ascending")
  OBVIOUS
<1>2. sorted \in Seq(E) /\ Len(sorted) = Len(entries) /\ Len(entries) \in Nat \ {0}
  BY <1>1, SortedFacts
<1>3. \A i \in 1 .. Len(sorted) : size[sorted[i]] \in Nat
  BY <1>2
<1>4. PICK median : median = MedianSize(sorted, size)
  OBVIOUS
<1>5. median \in Nat
  <2>1. PICK n \in Nat : n = Len(sorted)
    BY <1>2
  <2>2. PICK mid : mid = n \div 2
    OBVIOUS
  <2>3. n # 0 /\ mid \in Nat /\ mid + 1 \in 1 .. n /\ (n % 2 = 0 => mid \in 1 .. n)
    BY <1>2, <2>1, <2>2
  <2>4. sorted # <<>>
    BY <1>2
  <2>5. CASE n % 2 = 0
    <3>1. median = (size[sorted[mid]] + size[sorted[mid + 1]]) \div 2
      BY <1>4, <2>1, <2>2, <2>4, <2>5 DEF MedianSize, Middle
    <3>2. size[sorted[mid]] \in Nat /\ size[sorted[mid + 1]] \in Nat
      BY <1>3, <2>1, <2>3, <2>5
    <3> QED
      BY <3>1, <3>2
  <2>6. CASE n % 2 # 0
    <3>1. median = size[sorted[mid + 1]]
      BY <1>4, <2>1, <2>2, <2>4, <2>6 DEF MedianSize, Middle
    <3> QED
      BY <1>3, <2>1, <2>3, <3>1
  <2> QED
    BY <2>5, <2>6
<1>6. MaxFiles(entries, size, config) = FilesPerBatch(config, median)
  BY <1>1, <1>4 DEF MaxFiles
<1>7. config.maxBytes \in Nat /\ config.maxFiles \in SUBSET Nat
  BY DEF Config
<1>8. CASE config.maxFiles # {}
  <2>1. FilesPerBatch(config, median) = CHOOSE n \in config.maxFiles : TRUE
    BY <1>8 DEF FilesPerBatch
  <2>2. (CHOOSE n \in config.maxFiles : TRUE) \in config.maxFiles
    BY <1>8
  <2> QED
    BY <1>6, <1>7, <2>1, <2>2
<1>9. CASE config.maxFiles = {} /\ median = 0
  <2>1. FilesPerBatch(config, median) = FallbackMaxFiles
    BY <1>9 DEF FilesPerBatch
  <2> QED
    BY <1>6, <2>1 DEF FallbackMaxFiles
<1>10. CASE config.maxFiles = {} /\ median # 0
  <2>1. FilesPerBatch(config, median)
          = IF config.maxBytes < median THEN 1 ELSE config.maxBytes \div median
    BY <1>10 DEF FilesPerBatch
  <2>2. PICK bytes \in Nat : bytes = config.maxBytes
    BY <1>7
  <2>3. bytes \div median \in Nat
    BY <1>5, <1>10, QuotientIsNat
  <2> QED
    BY <1>6, <2>1, <2>2, <2>3
<1> QED
  BY <1>8, <1>9, <1>10

(* A batch and one entry more.                                              *)
LEMMA BytesAppend ==
  ASSUME NEW E, NEW batch \in Seq(E), NEW size \in [E -> Nat], NEW e \in E
  PROVE  /\ Bytes(batch, size) \in Nat
         /\ Bytes(Append(batch, e), size) = Bytes(batch, size) + size[e]
<1> DEFINE w == [i \in DOMAIN batch |-> size[batch[i]]]
           more == Append(batch, e)
           v == [i \in DOMAIN more |-> size[more[i]]]
           n == Len(batch)
           D == 1 .. n
<1>1. n \in Nat /\ DOMAIN batch = D /\ DOMAIN more = D \cup {n + 1} /\ n + 1 \notin D
  OBVIOUS
<1>2. \A i \in D : batch[i] \in E /\ more[i] = batch[i]
  OBVIOUS
<1>3. more[n + 1] = e
  OBVIOUS
<1>4. IsFiniteSet(D)
  BY <1>1, CountUpTo
<1>5. Bytes(batch, size) = SumFunctionOnSet(w, D)
  BY <1>1 DEF Bytes, SumFunction
<1>6. Bytes(more, size) = SumFunctionOnSet(v, D \cup {n + 1})
  BY <1>1 DEF Bytes, SumFunction
<1>7. /\ \A i \in D : v[i] = w[i] /\ w[i] \in Nat /\ v[i] \in Nat
      /\ v[n + 1] = size[e] /\ size[e] \in Nat
  BY <1>1, <1>2, <1>3
<1> HIDE DEF w, v, D, n, more
<1>8. SumFunctionOnSet(v, D) = SumFunctionOnSet(w, D)
  BY <1>4, <1>7, SumAgrees
<1>9. /\ SumFunctionOnSet(v, D) \in Nat
      /\ SumFunctionOnSet(v, D \cup {n + 1}) = SumFunctionOnSet(v, D) + v[n + 1]
  <2>1. \A y \in D \cup {n + 1} : v[y] \in Nat
    BY <1>7
  <2> QED
    BY <1>1, <1>4, <2>1, SumAdd
<1>10. Bytes(batch, size) \in Nat /\ Bytes(more, size) = Bytes(batch, size) + size[e]
  BY <1>5, <1>6, <1>7, <1>8, <1>9
<1> QED
  BY <1>10 DEF more

(* What the loop of pack() keeps true of the batches it has so far: budgets *)
(* and closings, and that they hold the entries up to here, each once.      *)
WithinBudgets(batch, size, maxBytes, limit) ==
  Len(batch) <= 1 \/ (Len(batch) <= limit /\ Bytes(batch, size) <= maxBytes)
ClosedRightly(batch, next_, size, maxBytes, limit) ==
  Bytes(batch, size) + size[next_[1]] > maxBytes \/ Len(batch) >= limit

BudgetInv(batches, size, maxBytes, limit) ==
  /\ \A u \in DOMAIN batches : WithinBudgets(batches[u], size, maxBytes, limit)
  /\ \A u \in DOMAIN batches : u + 1 \in DOMAIN batches =>
       ClosedRightly(batches[u], batches[u + 1], size, maxBytes, limit)

Held(batches) == UNION {ToSet(batches[u]) : u \in DOMAIN batches}
EachOnce(batches) ==
  \A u, v \in DOMAIN batches : \A i \in DOMAIN batches[u], j \in DOMAIN batches[v] :
    batches[u][i] = batches[v][j] => u = v /\ i = j

(* An entry is put at the end of the last batch, or of a new one.           *)
LEMMA Below ==
  ASSUME NEW n \in Nat, n >= 1
  PROVE  /\ n \in 1 .. n /\ n + 1 \in 1 .. n + 1 /\ n + 1 \notin 1 .. n
         /\ \A u \in 1 .. n - 1 : u \in 1 .. n /\ u + 1 \in 1 .. n /\ u # n /\ n # 1
         /\ \A u \in 1 .. n : u = n \/ u \in 1 .. n - 1
         /\ \A u \in 1 .. n + 1 : u = n + 1 \/ u \in 1 .. n
OBVIOUS

LEMMA AppendStart ==
  ASSUME NEW E, NEW s \in Seq(E), NEW e \in E
  PROVE  /\ Append(s, e) # <<>> /\ Len(Append(s, e)) = Len(s) + 1
         /\ s # <<>> => Append(s, e)[1] = s[1]
<1>1. Len(s) \in Nat /\ DOMAIN s = 1 .. Len(s) /\ (s # <<>> => 1 \in 1 .. Len(s))
  OBVIOUS
<1> QED
  BY <1>1

PlacedShape(batches, more, e, last, full, n) ==
  /\ n \in Nat /\ n >= 1 /\ DOMAIN batches = 1 .. n
  /\ full => /\ DOMAIN more = 1 .. n + 1 /\ more[n + 1] = <<e>>
             /\ \A u \in 1 .. n : more[u] = batches[u]
  /\ ~full => /\ DOMAIN more = 1 .. n /\ more[n] = Append(last, e)
              /\ \A u \in 1 .. n - 1 : more[u] = batches[u]

LEMMA PlacedAt ==
  ASSUME NEW E, NEW batches \in Seq(Seq(E)), batches # <<>>, NEW e \in E,
         NEW size, NEW maxBytes, NEW limit
  PROVE  PlacedShape(batches, Placed(batches, e, size, maxBytes, limit), e,
                     batches[Len(batches)],
                     Full(batches[Len(batches)], e, size, maxBytes, limit), Len(batches))
<1> DEFINE more == Placed(batches, e, size, maxBytes, limit)
           n == Len(batches)
           last == batches[n]
           full == Full(last, e, size, maxBytes, limit)
<1>1. n \in Nat /\ n >= 1 /\ DOMAIN batches = 1 .. n
  OBVIOUS
<1>3. more = IF full THEN Append(batches, <<e>>)
             ELSE [batches EXCEPT ![n] = Append(@, e)]
  BY DEF Placed, Last
<1> HIDE DEF full, more, n
<1>4. ASSUME full
      PROVE  /\ DOMAIN more = 1 .. n + 1 /\ more[n + 1] = <<e>>
             /\ \A u \in 1 .. n : more[u] = batches[u]
  <2>1. more = Append(batches, <<e>>)
    BY <1>3, <1>4
  <2> QED
    BY <1>1, <2>1 DEF n
<1>5. ASSUME ~full
      PROVE  /\ DOMAIN more = 1 .. n /\ more[n] = Append(last, e)
             /\ \A u \in 1 .. n - 1 : more[u] = batches[u]
  <2>1. more = [batches EXCEPT ![n] = Append(@, e)]
    BY <1>3, <1>5
  <2>2. n \in DOMAIN batches /\ \A u \in 1 .. n - 1 : u # n /\ u \in DOMAIN batches
    BY <1>1, Below
  <2> QED
    BY <1>1, <2>1, <2>2
<1>6. PlacedShape(batches, more, e, last, full, n)
  BY <1>1, <1>4, <1>5 DEF PlacedShape
<1> QED
  BY <1>6 DEF full, more, n

LEMMA PlacedInBudget ==
  ASSUME NEW E, NEW batches \in Seq(Seq(E)), batches # <<>>, NEW e \in E,
         NEW size \in [E -> Nat], NEW maxBytes \in Nat, NEW limit \in Nat,
         \A u \in DOMAIN batches : batches[u] = <<>> => batches = <<<<>>>>,
         BudgetInv(batches, size, maxBytes, limit)
  PROVE  /\ BudgetInv(Placed(batches, e, size, maxBytes, limit), size, maxBytes, limit)
         /\ \A u \in DOMAIN Placed(batches, e, size, maxBytes, limit) :
              Placed(batches, e, size, maxBytes, limit)[u] # <<>>
<1>0. PICK more, n, last :
        more = Placed(batches, e, size, maxBytes, limit) /\ n = Len(batches) /\ last = batches[n]
  OBVIOUS
<1> DEFINE full == Full(last, e, size, maxBytes, limit)
<1>1. /\ n \in Nat /\ n >= 1 /\ DOMAIN batches = 1 .. n
      /\ full => /\ DOMAIN more = 1 .. n + 1 /\ more[n + 1] = <<e>>
                 /\ \A u \in 1 .. n : more[u] = batches[u]
      /\ ~full => /\ DOMAIN more = 1 .. n /\ more[n] = Append(last, e)
                  /\ \A u \in 1 .. n - 1 : more[u] = batches[u]
  <2>1. PlacedShape(batches, more, e, last, full, n)
    BY <1>0, PlacedAt
  <2> QED
    BY <2>1 DEF PlacedShape
<1> HIDE DEF full
<1>2. last \in Seq(E) /\ Len(last) \in Nat /\ size[e] \in Nat
  BY <1>0, <1>1
<1>3. /\ Bytes(last, size) \in Nat
      /\ Bytes(Append(last, e), size) = Bytes(last, size) + size[e]
  BY <1>2, BytesAppend
<1>a. n \in Nat /\ n >= 1
  BY <1>1
<1>4. /\ Append(last, e) # <<>> /\ Len(Append(last, e)) = Len(last) + 1
      /\ last # <<>> => Append(last, e)[1] = last[1]
  <2>1. e \in E /\ (last # <<>> => 1 \in DOMAIN last)
    BY <1>2
  <2> QED
    BY <1>2, <2>1, AppendStart
<1>b. <<e>>[1] = e /\ Len(<<e>>) = 1 /\ <<e>> # <<>>
  OBVIOUS
<1>5. full <=> last # <<>> /\ (Bytes(last, size) + size[e] > maxBytes \/ Len(last) >= limit)
  BY DEF Full, full
<1>6. /\ \A u \in 1 .. n : WithinBudgets(batches[u], size, maxBytes, limit)
      /\ \A u \in 1 .. n - 1 : ClosedRightly(batches[u], batches[u + 1], size, maxBytes, limit)
  <2>1. \A u \in 1 .. n - 1 : u \in 1 .. n /\ u + 1 \in 1 .. n
    BY <1>a, Below
  <2> QED
    BY <1>1, <2>1 DEF BudgetInv
<1>7. n = 1 \/ \A u \in 1 .. n : batches[u] # <<>>
  <2>1. Len(<<<<>>>>) = 1
    OBVIOUS
  <2> QED
    BY <1>0, <1>1, <2>1
<1>8. CASE full
  <2>1. /\ DOMAIN more = 1 .. n + 1 /\ more[n + 1] = <<e>>
        /\ \A u \in 1 .. n : more[u] = batches[u]
    BY <1>1, <1>8
  <2>2. ASSUME NEW u \in DOMAIN more
        PROVE  /\ WithinBudgets(more[u], size, maxBytes, limit) /\ more[u] # <<>>
               /\ u + 1 \in DOMAIN more =>
                    ClosedRightly(more[u], more[u + 1], size, maxBytes, limit)
    <3>1. CASE u = n + 1
      <4>1. more[u] = <<e>> /\ u + 1 \notin DOMAIN more
        BY <1>a, <2>1, <3>1
      <4> QED
        BY <1>b, <4>1 DEF WithinBudgets
    <3>2. CASE u = n
      <4>1. more[u] = last /\ more[u + 1] = <<e>> /\ n \in 1 .. n
        BY <1>0, <1>a, <2>1, <3>2, Below
      <4>2. WithinBudgets(last, size, maxBytes, limit)
        BY <1>0, <1>6, <4>1
      <4>3. ClosedRightly(last, <<e>>, size, maxBytes, limit) /\ last # <<>>
        BY <1>b, <1>5, <1>8 DEF ClosedRightly
      <4> QED
        BY <4>1, <4>2, <4>3
    <3>3. CASE u \in 1 .. n - 1
      <4>1. u \in 1 .. n /\ u + 1 \in 1 .. n /\ n # 1
        BY <1>a, <3>3, Below
      <4>2. more[u] = batches[u] /\ more[u + 1] = batches[u + 1] /\ batches[u] # <<>>
        BY <1>7, <2>1, <4>1
      <4> QED
        BY <1>6, <3>3, <4>1, <4>2
    <3> QED
      BY <1>a, <2>1, <3>1, <3>2, <3>3, Below
  <2> QED
    BY <1>0, <2>2 DEF BudgetInv
<1>9. CASE ~full
  <2>1. /\ DOMAIN more = 1 .. n /\ more[n] = Append(last, e)
        /\ \A u \in 1 .. n - 1 : more[u] = batches[u]
    BY <1>1, <1>9
  <2>2. WithinBudgets(Append(last, e), size, maxBytes, limit)
    <3>1. CASE last = <<>>
      <4>1. Len(last) = 0
        BY <3>1
      <4> QED
        BY <1>4, <4>1 DEF WithinBudgets
    <3>2. CASE last # <<>>
      <4>1. Bytes(last, size) + size[e] <= maxBytes /\ Len(last) + 1 <= limit
        BY <1>2, <1>3, <1>5, <1>9, <3>2
      <4> QED
        BY <1>3, <1>4, <4>1 DEF WithinBudgets
    <3> QED
      BY <3>1, <3>2
  <2>3. ASSUME NEW u \in DOMAIN more
        PROVE  /\ WithinBudgets(more[u], size, maxBytes, limit) /\ more[u] # <<>>
               /\ u + 1 \in DOMAIN more =>
                    ClosedRightly(more[u], more[u + 1], size, maxBytes, limit)
    <3>1. CASE u = n
      <4>1. more[u] = Append(last, e) /\ u + 1 \notin DOMAIN more
        BY <1>a, <2>1, <3>1
      <4> QED
        BY <1>4, <2>2, <4>1
    <3>2. CASE u \in 1 .. n - 1
      <4>1. u \in 1 .. n /\ u + 1 \in 1 .. n /\ n # 1 /\ n \in 1 .. n
        BY <1>a, <3>2, Below
      <4>2. more[u] = batches[u] /\ batches[u] # <<>> /\ last # <<>>
        BY <1>0, <1>7, <2>1, <3>2, <4>1
      <4>3. ClosedRightly(batches[u], batches[u + 1], size, maxBytes, limit)
        BY <1>6, <3>2
      <4>4. more[u + 1][1] = batches[u + 1][1]
        <5>1. CASE u + 1 = n
          <6>1. more[u + 1] = Append(last, e) /\ batches[u + 1] = last
            BY <1>0, <2>1, <5>1
          <6> QED
            BY <1>4, <4>2, <6>1
        <5>2. CASE u + 1 # n
          <6>1. u + 1 \in 1 .. n - 1
            BY <1>1, <4>1, <5>2
          <6> QED
            BY <2>1, <6>1
        <5> QED
          BY <5>1, <5>2
      <4>5. ClosedRightly(more[u], more[u + 1], size, maxBytes, limit)
        BY <4>2, <4>3, <4>4 DEF ClosedRightly
      <4> QED
        BY <1>6, <4>1, <4>2, <4>5
    <3> QED
      BY <1>a, <2>1, <3>1, <3>2, Below
  <2> QED
    BY <1>0, <2>3 DEF BudgetInv
<1> QED
  BY <1>0, <1>8, <1>9

LEMMA PlacedPlaces ==
  ASSUME NEW E, NEW batches \in Seq(Seq(E)), batches # <<>>, NEW e \in E,
         NEW size, NEW maxBytes, NEW limit,
         NEW more, more = Placed(batches, e, size, maxBytes, limit)
  PROVE  \E l, p :
           /\ l \in DOMAIN more /\ p \in DOMAIN more[l] /\ more[l][p] = e
           /\ \A u \in DOMAIN more : \A i \in DOMAIN more[u] :
                \/ u = l /\ i = p
                \/ u \in DOMAIN batches /\ i \in DOMAIN batches[u] /\ batches[u][i] = more[u][i]
           /\ \A u \in DOMAIN batches : \A i \in DOMAIN batches[u] :
                u \in DOMAIN more /\ i \in DOMAIN more[u] /\ more[u][i] = batches[u][i]
<1>1. PICK n, last, full : /\ PlacedShape(batches, more, e, last, full, n)
                           /\ n = Len(batches) /\ last = batches[n] /\ full \in BOOLEAN
  <2>1. PlacedShape(batches, more, e, batches[Len(batches)],
                    Full(batches[Len(batches)], e, size, maxBytes, limit), Len(batches))
    BY PlacedAt
  <2>2. Full(batches[Len(batches)], e, size, maxBytes, limit) \in BOOLEAN
    BY DEF Full
  <2> QED
    BY <2>1, <2>2
<1>2. n \in Nat /\ n >= 1 /\ DOMAIN batches = 1 .. n
  BY <1>1 DEF PlacedShape
<1>3. \A u \in 1 .. n : batches[u] \in Seq(E)
  BY <1>2
<1>4. /\ n \in 1 .. n /\ n + 1 \in 1 .. n + 1 /\ n + 1 \notin 1 .. n
      /\ \A u \in 1 .. n - 1 : u \in 1 .. n /\ u # n
      /\ \A u \in 1 .. n : u = n \/ u \in 1 .. n - 1
      /\ \A u \in 1 .. n + 1 : u = n + 1 \/ u \in 1 .. n
      /\ \A u \in 1 .. n : u \in 1 .. n + 1
  BY <1>2
<1>5. CASE full
  <2>1. /\ DOMAIN more = 1 .. n + 1 /\ more[n + 1] = <<e>>
        /\ \A u \in 1 .. n : more[u] = batches[u]
    BY <1>1, <1>5 DEF PlacedShape
  <2>2. DOMAIN <<e>> = {1} /\ <<e>>[1] = e
    OBVIOUS
  <2> WITNESS n + 1, 1
  <2> QED
    BY <1>2, <1>4, <2>1, <2>2
<1>6. CASE ~full
  <2>1. /\ DOMAIN more = 1 .. n /\ more[n] = Append(last, e)
        /\ \A u \in 1 .. n - 1 : more[u] = batches[u]
    BY <1>1, <1>6 DEF PlacedShape
  <2>2. PICK m : m = Len(last)
    OBVIOUS
  <2>3. last = batches[n] /\ last \in Seq(E) /\ m \in Nat /\ DOMAIN last = 1 .. m
    BY <1>1, <1>3, <1>4, <2>2
  <2>4. PICK longer : longer = Append(last, e)
    OBVIOUS
  <2>5. /\ DOMAIN longer = 1 .. m + 1 /\ longer[m + 1] = e
        /\ \A i \in 1 .. m : longer[i] = last[i]
    BY <2>2, <2>3, <2>4
  <2>6. /\ m + 1 \in 1 .. m + 1 /\ \A i \in 1 .. m + 1 : i = m + 1 \/ i \in 1 .. m
        /\ \A i \in 1 .. m : i \in 1 .. m + 1
    BY <2>3
  <2>7. more[n] = longer
    BY <2>1, <2>4
  <2> WITNESS n, m + 1
  <2>8. n \in DOMAIN more /\ m + 1 \in DOMAIN more[n] /\ more[n][m + 1] = e
    BY <1>4, <2>1, <2>5, <2>6, <2>7
  <2>9. ASSUME NEW u \in DOMAIN more, NEW i \in DOMAIN more[u]
        PROVE  \/ u = n /\ i = m + 1
               \/ u \in DOMAIN batches /\ i \in DOMAIN batches[u] /\ batches[u][i] = more[u][i]
    <3>1. CASE u = n
      BY <1>2, <1>4, <2>3, <2>5, <2>6, <2>7, <2>9, <3>1
    <3>2. CASE u # n
      BY <1>2, <1>4, <2>1, <2>9, <3>2
    <3> QED
      BY <3>1, <3>2
  <2>10. ASSUME NEW u \in DOMAIN batches, NEW i \in DOMAIN batches[u]
         PROVE  u \in DOMAIN more /\ i \in DOMAIN more[u] /\ more[u][i] = batches[u][i]
    <3>1. CASE u = n
      BY <1>2, <1>4, <2>1, <2>3, <2>5, <2>6, <2>7, <2>10, <3>1
    <3>2. CASE u # n
      BY <1>2, <1>4, <2>1, <2>10, <3>2
    <3> QED
      BY <3>1, <3>2
  <2> QED
    BY <2>8, <2>9, <2>10
<1> QED
  BY <1>1, <1>5, <1>6

LEMMA PlacedHolds ==
  ASSUME NEW E, NEW batches \in Seq(Seq(E)), batches # <<>>, NEW e \in E,
         NEW size, NEW maxBytes, NEW limit,
         NEW more, more = Placed(batches, e, size, maxBytes, limit)
  PROVE  /\ Held(more) = Held(batches) \cup {e}
         /\ EachOnce(batches) /\ e \notin Held(batches) => EachOnce(more)
<1>1. PICK l, p :
        /\ l \in DOMAIN more /\ p \in DOMAIN more[l] /\ more[l][p] = e
        /\ \A u \in DOMAIN more : \A i \in DOMAIN more[u] :
             \/ u = l /\ i = p
             \/ u \in DOMAIN batches /\ i \in DOMAIN batches[u] /\ batches[u][i] = more[u][i]
        /\ \A u \in DOMAIN batches : \A i \in DOMAIN batches[u] :
             u \in DOMAIN more /\ i \in DOMAIN more[u] /\ more[u][i] = batches[u][i]
  BY PlacedPlaces
<1>2. \A x : x \in Held(batches) <=> \E u \in DOMAIN batches : \E i \in DOMAIN batches[u] : batches[u][i] = x
  BY DEF Held, ToSet
<1>3. \A x : x \in Held(more) <=> \E u \in DOMAIN more : \E i \in DOMAIN more[u] : more[u][i] = x
  BY DEF Held, ToSet
<1>4. ASSUME NEW x PROVE x \in Held(more) <=> x \in Held(batches) \/ x = e
  <2>1. ASSUME x \in Held(more) PROVE x \in Held(batches) \/ x = e
    BY <1>1, <1>2, <1>3, <2>1
  <2>2. ASSUME x \in Held(batches) PROVE x \in Held(more)
    BY <1>1, <1>2, <1>3, <2>2
  <2>3. e \in Held(more)
    BY <1>1, <1>3
  <2> QED
    BY <2>1, <2>2, <2>3
<1>5. ASSUME EachOnce(batches), e \notin Held(batches) PROVE EachOnce(more)
  <2> SUFFICES ASSUME NEW u \in DOMAIN more, NEW v \in DOMAIN more,
                      NEW i \in DOMAIN more[u], NEW j \in DOMAIN more[v],
                      more[u][i] = more[v][j]
               PROVE  u = v /\ i = j
    BY DEF EachOnce
  <2>1. \/ u = l /\ i = p
        \/ u \in DOMAIN batches /\ i \in DOMAIN batches[u] /\ batches[u][i] = more[u][i]
    BY <1>1
  <2>2. \/ v = l /\ j = p
        \/ v \in DOMAIN batches /\ j \in DOMAIN batches[v] /\ batches[v][j] = more[v][j]
    BY <1>1
  <2>3. more[l][p] = e
    BY <1>1
  <2> QED
    BY <1>2, <1>5, <2>1, <2>2, <2>3 DEF EachOnce
<1> QED
  BY <1>4, <1>5

(* What pack() makes of a list: both budgets, no batch closed early, and    *)
(* the entries of the list, each in one place.                              *)
LEMMA PackedFacts ==
  ASSUME NEW E, NEW list \in Seq(E), list # <<>>, NEW size \in [E -> Nat],
         NEW maxBytes \in Nat, NEW limit \in Nat,
         NEW batches, batches = Packed(list, size, maxBytes, limit)
  PROVE  /\ batches \in Seq(Seq(E) \ {<<>>})
         /\ BudgetInv(batches, size, maxBytes, limit)
         /\ Held(batches) = ToSet(list)
         /\ IsInjective(list) => EachOnce(batches)
<1>1. PICK run : /\ Packed(list, size, maxBytes, limit) = run[Len(list)]
                 /\ run[0] = NoBatchYet
                 /\ \A k \in 1 .. Len(list) :
                      run[k] = Placed(run[k - 1], list[k], size, maxBytes, limit)
  BY PackingRuns, SMTT(60)
<1> DEFINE n == Len(list)
           Seen(k) == {list[i] : i \in 1 .. k}
           Right(B, k) == /\ B \in Seq(Seq(E)) /\ B # <<>>
                          /\ k = 0 => B = <<<<>>>>
                          /\ k # 0 => \A u \in DOMAIN B : B[u] # <<>>
                          /\ BudgetInv(B, size, maxBytes, limit)
                          /\ Held(B) = Seen(k)
                          /\ IsInjective(list) => EachOnce(B)
           P == {k \in 0 .. n : Right(run[k], k)}
<1>2. n \in Nat /\ n # 0 /\ DOMAIN list = 1 .. n /\ \A i \in 1 .. n : list[i] \in E
  OBVIOUS
<1>3. 0 \in P
  <2> DEFINE B == <<<<>>>>
  <2>1. 0 \in 0 .. n /\ 1 .. 0 = {}
    BY <1>2
  <2>2. B \in Seq(Seq(E)) /\ B # <<>> /\ DOMAIN B = {1} /\ B[1] = <<>> /\ Len(B[1]) = 0
    OBVIOUS
  <2> HIDE DEF B
  <2>3. BudgetInv(B, size, maxBytes, limit)
    BY <2>2 DEF BudgetInv, WithinBudgets
  <2>4. DOMAIN B[1] = {}
    BY <2>2
  <2>5. Held(B) = {} /\ EachOnce(B)
    BY <2>2, <2>4 DEF Held, ToSet, EachOnce
  <2>6. Right(B, 0)
    BY <2>1, <2>2, <2>3, <2>5 DEF B
  <2> QED
    BY <1>1, <2>1, <2>6 DEF B, NoBatchYet
<1>4. ASSUME NEW k \in 0 .. n - 1, k \in P PROVE k + 1 \in P
  <2>1. k + 1 \in 1 .. n /\ k + 1 \in 0 .. n /\ k \in Nat /\ k + 1 - 1 = k /\ k + 1 # 0
    BY <1>2
  <2>2. PICK B, e : B = run[k] /\ e = list[k + 1]
    OBVIOUS
  <2>3. PICK C : C = Placed(B, e, size, maxBytes, limit)
    OBVIOUS
  <2>4. run[k + 1] = C
    BY <1>1, <2>1, <2>2, <2>3
  <2>5. Right(B, k) /\ e \in E
    BY <1>2, <1>4, <2>1, <2>2
  <2>6. Seen(k + 1) = Seen(k) \cup {e}
    <3>1. 1 .. (k + 1) = (1 .. k) \cup {k + 1}
      BY <2>1
    <3> QED
      BY <2>2, <3>1
  <2>7. IsInjective(list) => e \notin Seen(k)
    <3> SUFFICES ASSUME IsInjective(list), NEW i \in 1 .. k PROVE list[i] # e
      OBVIOUS
    <3>1. i \in DOMAIN list /\ k + 1 \in DOMAIN list /\ i # k + 1
      BY <1>2, <2>1
    <3> QED
      BY <2>2, <3>1 DEF IsInjective
  <2> HIDE DEF Seen
  <2>8. C \in Seq(Seq(E)) /\ C # <<>>
    BY <2>3, <2>5, PlacedType
  <2>9. \A u \in DOMAIN B : B[u] = <<>> => B = <<<<>>>>
    BY <2>5
  <2>10. /\ BudgetInv(C, size, maxBytes, limit)
         /\ \A u \in DOMAIN C : C[u] # <<>>
    BY <2>3, <2>5, <2>9, PlacedInBudget
  <2>11. /\ Held(C) = Held(B) \cup {e}
         /\ EachOnce(B) /\ e \notin Held(B) => EachOnce(C)
    BY <2>3, <2>5, PlacedHolds
  <2>12. Right(C, k + 1)
    BY <2>1, <2>5, <2>6, <2>7, <2>8, <2>10, <2>11
  <2> QED
    BY <2>1, <2>4, <2>12
<1> HIDE DEF P
<1>5. n \in P
  <2>1. \A k \in 0 .. n : k \in P
    BY <1>2, <1>3, <1>4, UpTo
  <2> QED
    BY <1>2, <2>1
<1>6. Right(batches, n)
  BY <1>1, <1>5 DEF P
<1>7. Seen(n) = ToSet(list)
  BY <1>2 DEF ToSet
<1>8. batches \in Seq(Seq(E) \ {<<>>})
  <2>1. batches \in Seq(Seq(E)) /\ \A u \in DOMAIN batches : batches[u] # <<>>
    BY <1>2, <1>6
  <2> QED
    BY <2>1
<1> QED
  BY <1>6, <1>7, <1>8

IsPacked(batches, entries, size, config, E) ==
  /\ batches \in Seq(Seq(E) \ {<<>>})
  /\ BudgetInv(batches, size, config.maxBytes, MaxFiles(entries, size, config))
  /\ Held(batches) = ToSet(entries)
  /\ IsInjective(entries) => EachOnce(batches)

LEMMA PackFacts ==
  ASSUME NEW E, NEW entries \in Seq(E), NEW size \in [E -> Nat], NEW config \in Config,
         NEW batches, batches = Pack(entries, size, config)
  PROVE  IsPacked(batches, entries, size, config, E)
<1>1. CASE entries = <<>>
  <2>1. batches = <<>>
    BY <1>1 DEF Pack
  <2>2. \A T : <<>> \in Seq(T) /\ DOMAIN <<>> = {}
    OBVIOUS
  <2>3. DOMAIN batches = {} /\ DOMAIN entries = {} /\ batches \in Seq(Seq(E) \ {<<>>})
    BY <1>1, <2>1, <2>2
  <2> QED
    BY <2>3 DEF IsPacked, BudgetInv, Held, ToSet, EachOnce
<1>2. CASE entries # <<>>
  <2>1. PICK sorted, limit : /\ sorted = Sorted(entries, size, config.order)
                             /\ limit = MaxFiles(entries, size, config)
    OBVIOUS
  <2>2. /\ sorted \in Seq(E) /\ Len(sorted) = Len(entries) /\ ToSet(sorted) = ToSet(entries)
        /\ IsInjective(entries) => IsInjective(sorted)
    BY <2>1, SortedFacts
  <2>3. sorted # <<>>
    BY <1>2, <2>2
  <2>4. limit \in Nat /\ config.maxBytes \in Nat
    BY <1>2, <2>1, MaxFilesType DEF Config
  <2>5. batches = Packed(sorted, size, config.maxBytes, limit)
    BY <1>2, <2>1 DEF Pack
  <2>6. /\ batches \in Seq(Seq(E) \ {<<>>})
        /\ BudgetInv(batches, size, config.maxBytes, limit)
        /\ Held(batches) = ToSet(sorted)
        /\ IsInjective(sorted) => EachOnce(batches)
    BY <2>2, <2>3, <2>4, <2>5, PackedFacts
  <2> QED
    BY <2>1, <2>2, <2>6 DEF IsPacked
<1> QED
  BY <1>1, <1>2

(* min_by_key finds a smallest stream.                                      *)
LEMMA CalibrationIsLeast ==
  ASSUME NEW E, NEW streams \in Seq(E), streams # <<>>, NEW size \in [E -> Nat],
         NEW k, k = Calibration(streams, size)
  PROVE  /\ k \in DOMAIN streams
         /\ \A j \in DOMAIN streams : size[streams[k]] <= size[streams[j]]
<1>1. /\ DOMAIN streams \in SUBSET Nat /\ DOMAIN streams # {}
      /\ \A i \in DOMAIN streams : size[streams[i]] \in Nat
  OBVIOUS
<1>2. PICK least \in {size[streams[i]] : i \in DOMAIN streams} :
        \A other \in {size[streams[i]] : i \in DOMAIN streams} : least <= other
  <2>1. /\ {size[streams[i]] : i \in DOMAIN streams} \in SUBSET Nat
        /\ {size[streams[i]] : i \in DOMAIN streams} # {}
    BY <1>1
  <2> QED
    BY <2>1, LeastNat
<1> DEFINE T == {i \in DOMAIN streams : size[streams[i]] = least}
<1>3. PICK i \in T : \A j \in T : i <= j
  <2>1. T \in SUBSET Nat /\ T # {}
    BY <1>1, <1>2
  <2> QED
    BY <2>1, LeastNat
<1>4. \A j \in DOMAIN streams :
        size[streams[i]] < size[streams[j]] \/ (size[streams[i]] = size[streams[j]] /\ i <= j)
  <2> SUFFICES ASSUME NEW j \in DOMAIN streams
               PROVE  \/ size[streams[i]] < size[streams[j]]
                      \/ size[streams[i]] = size[streams[j]] /\ i <= j
    OBVIOUS
  <2>1. PICK x, y : x = size[streams[i]] /\ y = size[streams[j]]
    OBVIOUS
  <2>2. x \in Nat /\ y \in Nat /\ x <= y /\ (x = y => i <= j)
    BY <1>1, <1>2, <1>3, <2>1
  <2> QED
    BY <2>1, <2>2
<1>5. /\ k \in DOMAIN streams
      /\ \A j \in DOMAIN streams :
           size[streams[k]] < size[streams[j]] \/ (size[streams[k]] = size[streams[j]] /\ k <= j)
  <2>1. \E l \in DOMAIN streams : \A j \in DOMAIN streams :
          size[streams[l]] < size[streams[j]] \/ (size[streams[l]] = size[streams[j]] /\ l <= j)
    BY <1>3, <1>4
  <2> HIDE DEF T
  <2> QED
    BY <2>1 DEF Calibration
<1>6. ASSUME NEW j \in DOMAIN streams PROVE size[streams[k]] <= size[streams[j]]
  <2>1. PICK x, y : x = size[streams[k]] /\ y = size[streams[j]]
    OBVIOUS
  <2>2. x \in Nat /\ y \in Nat /\ (x < y \/ x = y)
    BY <1>1, <1>5, <2>1
  <2> QED
    BY <2>1, <2>2
<1> QED
  BY <1>5, <1>6

LEMMA ConcatAny ==
  ASSUME NEW T, NEW s \in Seq(T), NEW t \in Seq(T)
  PROVE  /\ s \o t \in Seq(T) /\ Len(s) \in Nat /\ Len(t) \in Nat
         /\ Len(s \o t) = Len(s) + Len(t)
         /\ \A i \in 1 .. Len(s) : (s \o t)[i] = s[i]
         /\ \A i \in 1 .. Len(t) : (s \o t)[Len(s) + i] = t[i]
OBVIOUS

LEMMA RemoveAtFacts ==
  ASSUME NEW T, NEW s \in Seq(T), NEW k \in DOMAIN s
  PROVE  /\ RemoveAt(s, k) \in Seq(T) /\ Len(RemoveAt(s, k)) = Len(s) - 1
         /\ \A i \in 1 .. Len(s) - 1 : RemoveAt(s, k)[i] = s[IF i < k THEN i ELSE i + 1]
<1>1. Len(s) \in Nat /\ k \in 1 .. Len(s) /\ DOMAIN s = 1 .. Len(s)
  OBVIOUS
<1> DEFINE before == SubSeq(s, 1, k - 1)
           after == SubSeq(s, k + 1, Len(s))
<1>2. before \in Seq(T) /\ Len(before) = k - 1 /\ \A i \in 1 .. k - 1 : before[i] = s[i]
  BY <1>1
<1>3. /\ after \in Seq(T) /\ Len(after) = Len(s) - k
      /\ \A i \in 1 .. Len(s) - k : after[i] = s[k + i]
  BY <1>1
<1>4. RemoveAt(s, k) = before \o after
  BY DEF RemoveAt
<1> HIDE DEF before, after
<1>5. /\ RemoveAt(s, k) \in Seq(T) /\ Len(RemoveAt(s, k)) = Len(s) - 1
      /\ \A i \in 1 .. k - 1 : RemoveAt(s, k)[i] = s[i]
      /\ \A i \in 1 .. Len(s) - k : RemoveAt(s, k)[k - 1 + i] = s[k + i]
  <2>1. PICK b, a, r : b = before /\ a = after /\ r = RemoveAt(s, k)
    OBVIOUS
  <2>2. b \in Seq(T) /\ a \in Seq(T) /\ r = b \o a
    BY <1>2, <1>3, <1>4, <2>1
  <2>3. /\ b \o a \in Seq(T) /\ Len(b \o a) = Len(b) + Len(a)
        /\ \A i \in 1 .. Len(b) : (b \o a)[i] = b[i]
        /\ \A i \in 1 .. Len(a) : (b \o a)[Len(b) + i] = a[i]
    BY <2>2, ConcatAny
  <2>4. Len(b) = k - 1 /\ Len(a) = Len(s) - k
    BY <1>2, <1>3, <2>1
  <2>5. Len(r) = Len(s) - 1 /\ r \in Seq(T)
    <3>1. Len(r) = (k - 1) + (Len(s) - k)
      BY <2>2, <2>3, <2>4
    <3>2. PICK n \in Nat : n = Len(s)
      BY <1>1
    <3>3. k \in Nat /\ Len(r) = (k - 1) + (n - k)
      BY <1>1, <3>1, <3>2
    <3>4. Len(r) = n - 1
      BY <3>3
    <3> QED
      BY <2>2, <2>3, <3>2, <3>4
  <2>6. \A i \in 1 .. k - 1 : r[i] = s[i]
    BY <1>2, <2>1, <2>2, <2>3, <2>4
  <2>7. \A i \in 1 .. Len(s) - k : r[k - 1 + i] = s[k + i]
    BY <1>3, <2>1, <2>2, <2>3, <2>4
  <2> QED
    BY <2>1, <2>5, <2>6, <2>7
<1>6. ASSUME NEW i \in 1 .. Len(s) - 1, i >= k PROVE RemoveAt(s, k)[i] = s[i + 1]
  <2>1. PICK j : j = i - k + 1
    OBVIOUS
  <2>2. j \in 1 .. Len(s) - k /\ k - 1 + j = i /\ k + j = i + 1
    BY <1>1, <1>6, <2>1
  <2> QED
    BY <1>5, <2>2
<1>7. \A i \in 1 .. Len(s) - 1 : i < k => i \in 1 .. k - 1
  BY <1>1
<1>8. \A i \in 1 .. Len(s) - 1 : i < k \/ i >= k
  BY <1>1
<1> QED
  BY <1>5, <1>6, <1>7, <1>8

(* Where the batches and the streams are in the queue: batch b is at        *)
(* place b + off, stream j at place pos[j], and there is nothing else.      *)
IsLaidOut(units, batches, streams, off, pos) ==
  /\ \A b \in DOMAIN batches :
       b + off \in DOMAIN units /\ units[b + off] = [kind |-> "batch", entries |-> batches[b]]
  /\ \A j \in DOMAIN streams :
       pos[j] \in DOMAIN units /\ units[pos[j]] = [kind |-> "stream", entries |-> <<streams[j]>>]
  /\ \A u \in DOMAIN units :
       (\E b \in DOMAIN batches : u = b + off) \/ (\E j \in DOMAIN streams : u = pos[j])
  /\ \A i, j \in DOMAIN streams : pos[i] = pos[j] => i = j

FullUnit(E) == [kind : {"batch", "stream"}, entries : Seq(E) \ {<<>>}]

LEMMA InUnitsFacts ==
  ASSUME NEW E, NEW lists \in Seq(Seq(E) \ {<<>>}), NEW kind \in {"batch", "stream"}
  PROVE  /\ InUnits(kind, lists) \in Seq(FullUnit(E))
         /\ Len(InUnits(kind, lists)) = Len(lists)
         /\ \A i \in 1 .. Len(lists) : InUnits(kind, lists)[i] = [kind |-> kind, entries |-> lists[i]]
<1>1. Len(lists) \in Nat /\ DOMAIN lists = 1 .. Len(lists)
  OBVIOUS
<1>2. \A i \in 1 .. Len(lists) : [kind |-> kind, entries |-> lists[i]] \in FullUnit(E)
  BY <1>1 DEF FullUnit
<1> HIDE DEF FullUnit
<1> QED
  BY <1>1, <1>2 DEF InUnits

LEMMA AloneFacts ==
  ASSUME NEW E, NEW list \in Seq(E)
  PROVE  /\ Alone(list) \in Seq(Seq(E) \ {<<>>}) /\ Len(Alone(list)) = Len(list)
         /\ \A i \in 1 .. Len(list) : Alone(list)[i] = <<list[i]>>
<1>1. Len(list) \in Nat /\ DOMAIN list = 1 .. Len(list)
  OBVIOUS
<1>2. \A i \in 1 .. Len(list) : <<list[i]>> \in Seq(E) \ {<<>>}
  BY <1>1
<1> QED
  BY <1>1, <1>2 DEF Alone

IsQueued(units, batches, streams, first, E) ==
  /\ units \in Seq(FullUnit(E))
  /\ \E pos : IsLaidOut(units, batches, streams, 1, pos) /\ pos[first] = 1

LEMMA QueuedShape ==
  ASSUME NEW E, NEW streams \in Seq(E), NEW first \in DOMAIN streams,
         NEW batches \in Seq(Seq(E) \ {<<>>}),
         NEW units, units = Queued(streams, first, batches)
  PROVE  IsQueued(units, batches, streams, first, E)
<1>1. PICK s, m : s = Len(streams) /\ m = Len(batches)
  OBVIOUS
<1>2. /\ s \in Nat /\ m \in Nat /\ first \in 1 .. s /\ streams[first] \in E
      /\ DOMAIN streams = 1 .. s /\ DOMAIN batches = 1 .. m
  BY <1>1
<1>3. PICK A, B, C, rest : /\ A = InUnits("stream", <<<<streams[first]>>>>)
                           /\ B = InUnits("batch", batches)
                           /\ rest = RemoveAt(streams, first)
                           /\ C = InUnits("stream", Alone(rest))
  OBVIOUS
<1>4. /\ rest \in Seq(E) /\ Len(rest) = s - 1
      /\ \A i \in 1 .. s - 1 : rest[i] = streams[IF i < first THEN i ELSE i + 1]
  BY <1>1, <1>3, RemoveAtFacts
<1>5. /\ A \in Seq(FullUnit(E)) /\ Len(A) = 1
      /\ A[1] = [kind |-> "stream", entries |-> <<streams[first]>>]
  <2>1. PICK one : one = <<<<streams[first]>>>>
    OBVIOUS
  <2>2. one \in Seq(Seq(E) \ {<<>>}) /\ Len(one) = 1 /\ one[1] = <<streams[first]>>
    BY <1>2, <2>1
  <2>3. /\ A \in Seq(FullUnit(E)) /\ Len(A) = Len(one)
        /\ \A i \in 1 .. Len(one) : A[i] = [kind |-> "stream", entries |-> one[i]]
    BY <1>3, <2>1, <2>2, InUnitsFacts
  <2> QED
    BY <2>2, <2>3
<1>6. /\ B \in Seq(FullUnit(E)) /\ Len(B) = m
      /\ \A i \in 1 .. m : B[i] = [kind |-> "batch", entries |-> batches[i]]
  BY <1>1, <1>3, InUnitsFacts
<1>7. /\ C \in Seq(FullUnit(E)) /\ Len(C) = s - 1
      /\ \A i \in 1 .. s - 1 :
           C[i] = [kind |-> "stream", entries |-> <<streams[IF i < first THEN i ELSE i + 1]>>]
  <2>1. PICK alone : alone = Alone(rest)
    OBVIOUS
  <2>2. /\ alone \in Seq(Seq(E) \ {<<>>}) /\ Len(alone) = s - 1
        /\ \A i \in 1 .. s - 1 : alone[i] = <<rest[i]>>
    BY <1>4, <2>1, AloneFacts
  <2>3. /\ C \in Seq(FullUnit(E)) /\ Len(C) = Len(alone)
        /\ \A i \in 1 .. Len(alone) : C[i] = [kind |-> "stream", entries |-> alone[i]]
    BY <1>3, <2>1, <2>2, InUnitsFacts
  <2> QED
    BY <1>4, <2>2, <2>3
<1>8. units = (A \o B) \o C
  BY <1>3 DEF Queued
<1>9. PICK D : D = A \o B
  OBVIOUS
<1>10. /\ D \in Seq(FullUnit(E)) /\ Len(D) = 1 + m /\ D[1] = A[1]
       /\ \A i \in 1 .. m : D[1 + i] = B[i]
  <2>1. /\ A \o B \in Seq(FullUnit(E)) /\ Len(A \o B) = Len(A) + Len(B)
        /\ \A i \in 1 .. Len(A) : (A \o B)[i] = A[i]
        /\ \A i \in 1 .. Len(B) : (A \o B)[Len(A) + i] = B[i]
    <3>1. A \in Seq(FullUnit(E)) /\ B \in Seq(FullUnit(E))
      BY <1>5, <1>6
    <3> QED
      BY <3>1, ConcatAny
  <2> QED
    BY <1>5, <1>6, <1>9, <2>1
<1>11. /\ units \in Seq(FullUnit(E)) /\ Len(units) = 1 + m + (s - 1)
       /\ \A i \in 1 .. 1 + m : units[i] = D[i]
       /\ \A i \in 1 .. s - 1 : units[1 + m + i] = C[i]
  <2>1. /\ D \o C \in Seq(FullUnit(E)) /\ Len(D \o C) = Len(D) + Len(C)
        /\ \A i \in 1 .. Len(D) : (D \o C)[i] = D[i]
        /\ \A i \in 1 .. Len(C) : (D \o C)[Len(D) + i] = C[i]
    <3>1. C \in Seq(FullUnit(E)) /\ D \in Seq(FullUnit(E))
      BY <1>7, <1>10
    <3> QED
      BY <3>1, ConcatAny
  <2> QED
    BY <1>7, <1>8, <1>9, <1>10, <2>1
<1>12. DOMAIN units = 1 .. m + s
  <2>1. DOMAIN units = 1 .. Len(units) /\ 1 + m + (s - 1) = m + s
    BY <1>2, <1>11
  <2> QED
    BY <1>11, <2>1
<1>13. units[1] = [kind |-> "stream", entries |-> <<streams[first]>>]
  <2>1. 1 \in 1 .. 1 + m
    BY <1>2
  <2> QED
    BY <1>5, <1>10, <1>11, <2>1
<1>14. ASSUME NEW b \in 1 .. m
       PROVE  b + 1 \in 1 .. m + s /\ units[b + 1] = [kind |-> "batch", entries |-> batches[b]]
  <2>1. b + 1 = 1 + b /\ 1 + b \in 1 .. 1 + m /\ b + 1 \in 1 .. m + s
    BY <1>2
  <2> QED
    BY <1>6, <1>10, <1>11, <2>1
<1> DEFINE pos == [j \in 1 .. s |-> IF j = first THEN 1 ELSE IF j < first THEN 1 + m + j ELSE m + j]
<1>15. ASSUME NEW j \in 1 .. s
       PROVE  pos[j] \in 1 .. m + s /\ units[pos[j]] = [kind |-> "stream", entries |-> <<streams[j]>>]
  <2>1. CASE j = first
    BY <1>2, <1>13, <2>1
  <2>2. CASE j < first
    <3>1. j \in 1 .. s - 1 /\ pos[j] = 1 + m + j /\ 1 + m + j \in 1 .. m + s
      BY <1>2, <2>2
    <3> HIDE DEF pos
    <3>2. units[1 + m + j] = C[j]
      BY <1>11, <3>1
    <3>3. C[j] = [kind |-> "stream", entries |-> <<streams[j]>>]
      BY <1>7, <2>2, <3>1
    <3> QED
      BY <3>1, <3>2, <3>3
  <2>3. CASE j > first
    <3>1. PICK i : i = j - 1
      OBVIOUS
    <3>2. /\ i \in 1 .. s - 1 /\ i + 1 = j /\ ~(i < first)
          /\ pos[j] = 1 + m + i /\ 1 + m + i \in 1 .. m + s
      BY <1>2, <2>3, <3>1
    <3> HIDE DEF pos
    <3>3. units[1 + m + i] = C[i]
      BY <1>11, <3>2
    <3>4. C[i] = [kind |-> "stream", entries |-> <<streams[i + 1]>>]
      BY <1>7, <3>2
    <3> QED
      BY <3>2, <3>3, <3>4
  <2> QED
    BY <1>2, <2>1, <2>2, <2>3
<1>16. ASSUME NEW u \in 1 .. m + s
       PROVE  (\E b \in 1 .. m : u = b + 1) \/ (\E j \in 1 .. s : u = pos[j])
  <2>1. CASE u = 1
    BY <1>2, <2>1
  <2>2. CASE u \in 2 .. 1 + m
    <3>1. u - 1 \in 1 .. m /\ u = (u - 1) + 1
      BY <1>2, <2>2
    <3> QED
      BY <3>1
  <2>3. CASE u > 1 + m /\ u - 1 - m < first
    <3>1. PICK j : j = u - 1 - m
      OBVIOUS
    <3>2. j \in 1 .. s /\ j < first /\ j # first /\ u = 1 + m + j
      BY <1>2, <2>3, <3>1
    <3>3. u = pos[j]
      BY <3>2
    <3> QED
      BY <3>2, <3>3
  <2>4. CASE u > 1 + m /\ ~(u - 1 - m < first)
    <3>1. PICK j : j = u - m
      OBVIOUS
    <3>2. j \in 1 .. s /\ ~(j < first) /\ j # first /\ u = m + j
      BY <1>2, <2>4, <3>1
    <3>3. u = pos[j]
      BY <3>2
    <3> QED
      BY <3>2, <3>3
  <2> QED
    BY <1>2, <2>1, <2>2, <2>3, <2>4
<1>17. \A i, j \in 1 .. s : pos[i] = pos[j] => i = j
  BY <1>2
<1>18. pos[first] = 1
  BY <1>2
<1> HIDE DEF pos
<1>19. IsLaidOut(units, batches, streams, 1, pos)
  BY <1>2, <1>12, <1>14, <1>15, <1>16, <1>17 DEF IsLaidOut
<1> QED
  BY <1>11, <1>18, <1>19 DEF IsQueued

LEMMA UnitsLaidOut ==
  ASSUME NEW E, NEW entries \in Seq(E), NEW size \in [E -> Nat], NEW threshold,
         NEW config \in Config,
         NEW streams, streams = Large(entries, size, threshold),
         NEW batches, batches = Pack(Small(entries, size, threshold), size, config),
         NEW units, units = UnitsOf(entries, size, threshold, config)
  PROVE  /\ units \in Seq(FullUnit(E))
         /\ \E off, pos : /\ off \in {0, 1} /\ IsLaidOut(units, batches, streams, off, pos)
                          /\ streams # <<>> => pos[Calibration(streams, size)] = 1
<1>1. streams \in Seq(E)
  BY OnlyKeeps DEF Large
<1>2. batches \in Seq(Seq(E) \ {<<>>})
  <2>1. PICK small : small = Small(entries, size, threshold)
    OBVIOUS
  <2>2. small \in Seq(E)
    BY <2>1, OnlyKeeps DEF Small
  <2> QED
    BY <2>1, <2>2, PackFacts DEF IsPacked
<1>3. CASE streams = <<>>
  <2>1. units = InUnits("batch", batches)
    BY <1>3 DEF UnitsOf
  <2>2. /\ units \in Seq(FullUnit(E)) /\ Len(units) = Len(batches)
        /\ \A i \in 1 .. Len(batches) : units[i] = [kind |-> "batch", entries |-> batches[i]]
    BY <1>2, <2>1, InUnitsFacts
  <2>3. /\ DOMAIN units = DOMAIN batches
        /\ \A b \in DOMAIN batches : units[b] = [kind |-> "batch", entries |-> batches[b]]
        /\ \A b \in DOMAIN batches : b + 0 = b
    BY <1>2, <2>2
  <2>4. DOMAIN streams = {}
    BY <1>3
  <2>5. IsLaidOut(units, batches, streams, 0, <<>>)
    BY <2>3, <2>4 DEF IsLaidOut
  <2> QED
    BY <1>3, <2>2, <2>5
<1>4. CASE streams # <<>>
  <2>1. PICK first : first = Calibration(streams, size)
    OBVIOUS
  <2>2. first \in DOMAIN streams
    BY <1>1, <1>4, <2>1, CalibrationIsLeast
  <2>3. units = Queued(streams, first, batches)
    BY <1>4, <2>1 DEF UnitsOf
  <2>4. \A str \in Seq(E), bat \in Seq(Seq(E) \ {<<>>}) : \A f \in DOMAIN str :
          IsQueued(Queued(str, f, bat), bat, str, f, E)
    BY QueuedShape
  <2>5. IsQueued(units, batches, streams, first, E)
    BY <1>1, <1>2, <2>2, <2>3, <2>4
  <2> QED
    BY <2>1, <2>5 DEF IsQueued
<1> QED
  BY <1>3, <1>4

(* Which units are streams and which are batches, and what they hold.       *)
LEMMA KindsLaidOut ==
  ASSUME NEW units, NEW batches, NEW streams, NEW off, NEW pos,
         IsLaidOut(units, batches, streams, off, pos)
  PROVE  /\ Batches(units) = {b + off : b \in DOMAIN batches}
         /\ Streams(units) = {pos[j] : j \in DOMAIN streams}
         /\ \A b \in DOMAIN batches : units[b + off].entries = batches[b]
         /\ \A j \in DOMAIN streams : units[pos[j]].entries = <<streams[j]>>
         /\ \A u \in DOMAIN units : u \in Batches(units) <=> u \notin Streams(units)
<1>1. \A b \in DOMAIN batches :
        /\ b + off \in DOMAIN units /\ units[b + off].kind = "batch"
        /\ units[b + off].entries = batches[b]
  <2> SUFFICES ASSUME NEW b \in DOMAIN batches
               PROVE  /\ b + off \in DOMAIN units /\ units[b + off].kind = "batch"
                      /\ units[b + off].entries = batches[b]
    OBVIOUS
  <2>1. b + off \in DOMAIN units /\ units[b + off] = [kind |-> "batch", entries |-> batches[b]]
    BY DEF IsLaidOut
  <2>2. PICK x : x = batches[b]
    OBVIOUS
  <2> QED
    BY <2>1, <2>2
<1>2. \A j \in DOMAIN streams :
        /\ pos[j] \in DOMAIN units /\ units[pos[j]].kind = "stream"
        /\ units[pos[j]].entries = <<streams[j]>>
  <2> SUFFICES ASSUME NEW j \in DOMAIN streams
               PROVE  /\ pos[j] \in DOMAIN units /\ units[pos[j]].kind = "stream"
                      /\ units[pos[j]].entries = <<streams[j]>>
    OBVIOUS
  <2>1. pos[j] \in DOMAIN units /\ units[pos[j]] = [kind |-> "stream", entries |-> <<streams[j]>>]
    BY DEF IsLaidOut
  <2>2. PICK x : x = <<streams[j]>>
    OBVIOUS
  <2> QED
    BY <2>1, <2>2
<1>3. \A u \in DOMAIN units :
        (\E b \in DOMAIN batches : u = b + off) \/ (\E j \in DOMAIN streams : u = pos[j])
  BY DEF IsLaidOut
<1>4. "batch" # "stream"
  OBVIOUS
<1>5. Batches(units) = {b + off : b \in DOMAIN batches}
  BY <1>1, <1>2, <1>3, <1>4 DEF Batches
<1>6. Streams(units) = {pos[j] : j \in DOMAIN streams}
  BY <1>1, <1>2, <1>3, <1>4 DEF Streams
<1>7. \A u \in DOMAIN units : u \in Batches(units) <=> u \notin Streams(units)
  BY <1>1, <1>2, <1>3, <1>4 DEF Batches, Streams
<1> QED
  BY <1>1, <1>2, <1>5, <1>6, <1>7

LEMMA PlacesLaidOut ==
  ASSUME NEW units, NEW batches, NEW streams, NEW off, NEW pos,
         IsLaidOut(units, batches, streams, off, pos),
         off \in Nat, DOMAIN batches \subseteq Nat,
         NEW entries, NEW size, NEW threshold,
         ToSet(streams) = {e \in ToSet(entries) : size[e] > threshold},
         Held(batches) = {e \in ToSet(entries) : ~(size[e] > threshold)},
         IsInjective(streams), EachOnce(batches)
  PROVE  RightPlaces(units, entries, size, threshold)
<1>1. /\ Batches(units) = {b + off : b \in DOMAIN batches}
      /\ Streams(units) = {pos[j] : j \in DOMAIN streams}
      /\ \A b \in DOMAIN batches : units[b + off].entries = batches[b]
      /\ \A j \in DOMAIN streams : units[pos[j]].entries = <<streams[j]>>
      /\ \A u \in DOMAIN units : u \in Batches(units) <=> u \notin Streams(units)
  BY KindsLaidOut
<1>2. Streams(units) \subseteq DOMAIN units /\ Batches(units) \subseteq DOMAIN units
  BY DEF Streams, Batches
<1>3. \A e : DOMAIN <<e>> = {1} /\ <<e>>[1] = e /\ ToSet(<<e>>) = {e}
  BY DEF ToSet
<1>4. \A j \in DOMAIN streams : streams[j] \in ToSet(streams)
  BY DEF ToSet
<1>5. \A b \in DOMAIN batches : ToSet(batches[b]) \subseteq Held(batches)
  BY DEF Held
<1>6. ASSUME NEW u \in Streams(units)
      PROVE  \E j \in DOMAIN streams :
               u = pos[j] /\ units[u].entries = <<streams[j]>> /\ size[streams[j]] > threshold
  BY <1>1, <1>4
<1>7. ASSUME NEW u \in Batches(units)
      PROVE  \E b \in DOMAIN batches :
               /\ u = b + off /\ units[u].entries = batches[b]
               /\ \A e \in ToSet(batches[b]) : ~(size[e] > threshold)
  BY <1>1, <1>5
<1>a. \A u \in Streams(units) : \A e \in ToSet(units[u].entries) : size[e] > threshold
  <2> SUFFICES ASSUME NEW u \in Streams(units), NEW e \in ToSet(units[u].entries)
               PROVE  size[e] > threshold
    OBVIOUS
  <2>1. PICK j \in DOMAIN streams : units[u].entries = <<streams[j]>> /\ size[streams[j]] > threshold
    BY <1>6
  <2>2. e \in ToSet(<<streams[j]>>)
    BY <2>1
  <2> QED
    BY <1>3, <2>1, <2>2
<1>8. UNION {ToSet(units[u].entries) : u \in DOMAIN units} = ToSet(entries)
  <2>1. ASSUME NEW u \in DOMAIN units, NEW e \in ToSet(units[u].entries) PROVE e \in ToSet(entries)
    <3>1. CASE u \in Streams(units)
      <4>1. PICK j \in DOMAIN streams : units[u].entries = <<streams[j]>>
        BY <1>6, <3>1
      <4>2. e = streams[j]
        BY <1>3, <2>1, <4>1
      <4> QED
        BY <1>4, <4>2
    <3>2. CASE u \in Batches(units)
      <4>1. PICK b \in DOMAIN batches : units[u].entries = batches[b]
        BY <1>7, <3>2
      <4> QED
        BY <1>5, <2>1, <4>1
    <3> QED
      BY <1>1, <3>1, <3>2
  <2>2. ASSUME NEW e \in ToSet(entries)
        PROVE  \E u \in DOMAIN units : e \in ToSet(units[u].entries)
    <3>1. CASE size[e] > threshold
      <4>1. e \in ToSet(streams)
        BY <3>1
      <4>2. PICK j \in DOMAIN streams : streams[j] = e
        BY <4>1 DEF ToSet
      <4>3. pos[j] \in Streams(units) /\ units[pos[j]].entries = <<e>>
        BY <1>1, <4>2
      <4> QED
        BY <1>2, <1>3, <4>3
    <3>2. CASE ~(size[e] > threshold)
      <4>1. e \in Held(batches)
        BY <3>2
      <4>2. PICK b \in DOMAIN batches : e \in ToSet(batches[b])
        BY <4>1 DEF Held
      <4>3. b + off \in Batches(units) /\ units[b + off].entries = batches[b]
        BY <1>1
      <4> QED
        BY <1>2, <4>2, <4>3
    <3> QED
      BY <3>1, <3>2
  <2> QED
    BY <2>1, <2>2
<1>9. ASSUME NEW u \in DOMAIN units, NEW v \in DOMAIN units,
             NEW i \in DOMAIN units[u].entries, NEW j \in DOMAIN units[v].entries,
             units[u].entries[i] = units[v].entries[j]
      PROVE  u = v /\ i = j
  <2>1. PICK e : e = units[u].entries[i] /\ e = units[v].entries[j]
    BY <1>9
  <2>2. e \in ToSet(units[u].entries) /\ e \in ToSet(units[v].entries)
    BY <2>1 DEF ToSet
  <2>3. CASE u \in Streams(units) /\ v \in Streams(units)
    <3>1. PICK k \in DOMAIN streams : u = pos[k] /\ units[u].entries = <<streams[k]>>
      BY <1>6, <2>3
    <3>2. PICK l \in DOMAIN streams : v = pos[l] /\ units[v].entries = <<streams[l]>>
      BY <1>6, <2>3
    <3>3. i = 1 /\ j = 1 /\ streams[k] = e /\ streams[l] = e
      <4>1. PICK x, y : x = streams[k] /\ y = streams[l]
        OBVIOUS
      <4>2. units[u].entries = <<x>> /\ units[v].entries = <<y>>
        BY <3>1, <3>2, <4>1
      <4>3. i = 1 /\ j = 1
        BY <1>3, <4>2
      <4>4. <<x>>[1] = e /\ <<y>>[1] = e
        BY <2>1, <4>2, <4>3
      <4> QED
        BY <1>3, <4>1, <4>3, <4>4
    <3>4. k = l
      BY <3>3 DEF IsInjective
    <3> QED
      BY <3>1, <3>2, <3>3, <3>4
  <2>4. CASE u \in Batches(units) /\ v \in Batches(units)
    <3>1. PICK b \in DOMAIN batches : u = b + off /\ units[u].entries = batches[b]
      BY <1>7, <2>4
    <3>2. PICK c \in DOMAIN batches : v = c + off /\ units[v].entries = batches[c]
      BY <1>7, <2>4
    <3>3. batches[b][i] = batches[c][j] /\ i \in DOMAIN batches[b] /\ j \in DOMAIN batches[c]
      BY <2>1, <3>1, <3>2
    <3>4. b = c /\ i = j
      BY <3>3 DEF EachOnce
    <3> QED
      BY <3>1, <3>2, <3>4
  <2>5. u \in Streams(units) => size[e] > threshold
    BY <1>a, <2>2
  <2>6. u \in Batches(units) => ~(size[e] > threshold)
    BY <1>7, <2>2
  <2>7. v \in Streams(units) => size[e] > threshold
    BY <1>a, <2>2
  <2>8. v \in Batches(units) => ~(size[e] > threshold)
    BY <1>7, <2>2
  <2> QED
    BY <1>1, <2>3, <2>4, <2>5, <2>6, <2>7, <2>8
<1>10. ASSUME NEW u \in DOMAIN units, NEW e \in ToSet(units[u].entries)
       PROVE  u \in Streams(units) <=> size[e] > threshold
  <2>1. CASE u \in Streams(units)
    BY <1>3, <1>6, <1>10, <2>1
  <2>2. CASE u \in Batches(units)
    BY <1>1, <1>7, <1>10, <2>2
  <2> QED
    BY <1>1, <2>1, <2>2
<1> QED
  BY <1>8, <1>9, <1>10 DEF RightPlaces

LEMMA StreamsLaidOut ==
  ASSUME NEW units, NEW batches, NEW streams, NEW off, NEW pos,
         IsLaidOut(units, batches, streams, off, pos),
         NEW E, streams \in Seq(E), NEW size \in [E -> Nat],
         streams # <<>> => pos[Calibration(streams, size)] = 1
  PROVE  RightStreams(units, size)
<1>1. /\ Batches(units) = {b + off : b \in DOMAIN batches}
      /\ Streams(units) = {pos[j] : j \in DOMAIN streams}
      /\ \A b \in DOMAIN batches : units[b + off].entries = batches[b]
      /\ \A j \in DOMAIN streams : units[pos[j]].entries = <<streams[j]>>
  BY KindsLaidOut
<1> SUFFICES ASSUME NEW u \in Streams(units)
             PROVE  /\ Len(units[u].entries) = 1
                    /\ 1 \in Streams(units)
                    /\ size[units[1].entries[1]] <= size[units[u].entries[1]]
  BY DEF RightStreams
<1>2. PICK j \in DOMAIN streams : u = pos[j] /\ units[u].entries = <<streams[j]>>
  BY <1>1
<1>3. streams # <<>>
  BY <1>2
<1>4. PICK k : k = Calibration(streams, size)
  OBVIOUS
<1>5. k \in DOMAIN streams /\ size[streams[k]] <= size[streams[j]]
  BY <1>2, <1>3, <1>4, CalibrationIsLeast
<1>6. pos[k] = 1
  BY <1>3, <1>4
<1>7. 1 \in Streams(units) /\ units[1].entries = <<streams[k]>>
  BY <1>1, <1>5, <1>6
<1>8. PICK x, y : x = streams[j] /\ y = streams[k]
  OBVIOUS
<1>9. Len(<<x>>) = 1 /\ <<x>>[1] = x /\ <<y>>[1] = y
  OBVIOUS
<1> QED
  BY <1>2, <1>5, <1>7, <1>8, <1>9

LEMMA BatchesLaidOut ==
  ASSUME NEW units, NEW batches, NEW streams, NEW off, NEW pos,
         IsLaidOut(units, batches, streams, off, pos), off \in Nat,
         NEW E, batches \in Seq(Seq(E) \ {<<>>}), NEW size, NEW maxBytes, NEW limit,
         batches # <<>> => limit \in Nat,
         BudgetInv(batches, size, maxBytes, limit)
  PROVE  RightBatches(units, size, maxBytes, limit)
<1>1. /\ Batches(units) = {b + off : b \in DOMAIN batches}
      /\ \A b \in DOMAIN batches : units[b + off].entries = batches[b]
  BY KindsLaidOut
<1>2. PICK m \in Nat : m = Len(batches)
  OBVIOUS
<1>3. DOMAIN batches = 1 .. m
  BY <1>2
<1>4. \A b \in 1 .. m : batches[b] \in Seq(E) /\ batches[b] # <<>>
  BY <1>3
<1>5. Batches(units) = 1 + off .. m + off
  <2>1. \A u : u \in 1 + off .. m + off => u - off \in 1 .. m /\ u = (u - off) + off
    BY <1>2
  <2>2. \A b \in 1 .. m : b + off \in 1 + off .. m + off
    BY <1>2
  <2> QED
    BY <1>1, <1>3, <2>1, <2>2
<1>6. \A u, w \in Batches(units) : u .. w \subseteq Batches(units)
  BY <1>2, <1>5
<1>7. ASSUME NEW u \in Batches(units)
      PROVE  /\ Len(units[u].entries) = 1
                \/ (Len(units[u].entries) \in 1 .. limit /\ Bytes(units[u].entries, size) <= maxBytes)
             /\ u + 1 \in Batches(units) =>
                  \/ Bytes(units[u].entries, size) + size[units[u + 1].entries[1]] > maxBytes
                  \/ Len(units[u].entries) >= limit
  <2>1. PICK b \in 1 .. m : u = b + off
    BY <1>1, <1>3
  <2>2. PICK batch : batch = batches[b]
    OBVIOUS
  <2>3. units[u].entries = batch /\ batch \in Seq(E) /\ batch # <<>>
    BY <1>1, <1>3, <1>4, <2>1, <2>2
  <2>4. PICK n \in Nat : n = Len(batch) /\ n >= 1
    BY <2>3
  <2>5. limit \in Nat
    BY <1>2, <2>1
  <2>6. n <= 1 \/ (n <= limit /\ Bytes(batch, size) <= maxBytes)
    BY <1>3, <2>2, <2>4 DEF BudgetInv, WithinBudgets
  <2>7. n = 1 \/ (n \in 1 .. limit /\ Bytes(batch, size) <= maxBytes)
    <3>1. n <= 1 => n = 1
      BY <2>4
    <3>2. n <= limit => n \in 1 .. limit
      BY <2>4, <2>5
    <3>3. CASE n <= 1
      BY <3>1, <3>3
    <3>4. CASE n <= limit /\ Bytes(batch, size) <= maxBytes
      BY <3>2, <3>4
    <3> QED
      BY <2>6, <3>3, <3>4
  <2>8. ASSUME u + 1 \in Batches(units)
        PROVE  Bytes(batch, size) + size[units[u + 1].entries[1]] > maxBytes \/ n >= limit
    <3>1. b + 1 \in 1 .. m /\ u + 1 = (b + 1) + off
      BY <1>2, <1>5, <2>1, <2>8
    <3>2. units[u + 1].entries = batches[b + 1]
      BY <1>1, <1>3, <3>1
    <3>3. ClosedRightly(batches[b], batches[b + 1], size, maxBytes, limit)
      BY <1>3, <3>1 DEF BudgetInv
    <3> QED
      BY <2>2, <2>4, <3>2, <3>3 DEF ClosedRightly
  <2> QED
    BY <2>3, <2>4, <2>7, <2>8
<1> QED
  BY <1>6, <1>7 DEF RightBatches

(* plan() and the queue of dispatch(), for every workload: each entry is in *)
(* one place, in a stream exactly when it is over the threshold, a smallest *)
(* stream leads, and the batches keep to both budgets without being closed  *)
(* early.                                                                   *)
THEOREM PlansAreRight ==
  ASSUME NEW E, NEW entries \in Seq(E), IsInjective(entries), NEW size \in [E -> Nat],
         NEW threshold \in Nat, NEW config \in Config
  PROVE  RightUnits(UnitsOf(entries, size, threshold, config), entries, size, threshold, config)
<1>1. PICK streams : streams = Large(entries, size, threshold)
  OBVIOUS
<1>2. PICK small : small = Small(entries, size, threshold)
  OBVIOUS
<1>3. PICK batches : batches = Pack(small, size, config)
  OBVIOUS
<1>4. PICK units : units = UnitsOf(entries, size, threshold, config)
  OBVIOUS
<1>5. PICK limit, maxBytes : limit = MaxFiles(small, size, config) /\ maxBytes = config.maxBytes
  OBVIOUS
<1>6. \A e \in ToSet(entries) : e \in E /\ size[e] \in Nat
  BY DEF ToSet
<1>7. /\ streams \in Seq(E) /\ IsInjective(streams)
      /\ ToSet(streams) = {e \in ToSet(entries) : size[e] > threshold}
  <2>1. PICK K : K = {e \in ToSet(entries) : size[e] > threshold}
    OBVIOUS
  <2>2. streams = Only(entries, K)
    BY <1>1, <2>1 DEF Large
  <2>3. ToSet(entries) \cap K = K
    BY <2>1
  <2> QED
    BY <2>1, <2>2, <2>3, OnlyKeeps
<1>8. /\ small \in Seq(E) /\ IsInjective(small)
      /\ ToSet(small) = {e \in ToSet(entries) : ~(size[e] > threshold)}
  <2>1. PICK K : K = {e \in ToSet(entries) : size[e] <= threshold}
    OBVIOUS
  <2>2. small = Only(entries, K)
    BY <1>2, <2>1 DEF Small
  <2>3. ToSet(entries) \cap K = K /\ K = {e \in ToSet(entries) : ~(size[e] > threshold)}
    BY <1>6, <2>1
  <2> QED
    BY <2>1, <2>2, <2>3, OnlyKeeps
<1>9. /\ batches \in Seq(Seq(E) \ {<<>>})
      /\ BudgetInv(batches, size, maxBytes, limit)
      /\ Held(batches) = ToSet(small) /\ EachOnce(batches)
  <2>1. small \in Seq(E)
    BY <1>8
  <2>2. IsPacked(batches, small, size, config, E)
    BY <1>3, <2>1, PackFacts
  <2> QED
    BY <1>5, <1>8, <2>2 DEF IsPacked
<1>10. batches # <<>> => limit \in Nat
  BY <1>3, <1>5, <1>8, MaxFilesType DEF Pack
<1>11. PICK off, pos : /\ off \in {0, 1} /\ IsLaidOut(units, batches, streams, off, pos)
                       /\ streams # <<>> => pos[Calibration(streams, size)] = 1
  BY <1>1, <1>2, <1>3, <1>4, UnitsLaidOut
<1>12. RightPlaces(units, entries, size, threshold)
  <2>1. off \in Nat /\ DOMAIN batches \subseteq Nat
    BY <1>9, <1>11
  <2> QED
    BY <1>7, <1>8, <1>9, <1>11, <2>1, PlacesLaidOut
<1>13. RightStreams(units, size)
  BY <1>7, <1>11, StreamsLaidOut
<1>14. RightBatches(units, size, maxBytes, limit)
  <2>1. off \in Nat
    BY <1>11
  <2> QED
    BY <1>9, <1>10, <1>11, <2>1, BatchesLaidOut
<1> QED
  BY <1>2, <1>4, <1>5, <1>12, <1>13, <1>14 DEF RightUnits

(* What the engine, the estimator and the archiver take for granted of      *)
(* their units is what the planner makes: no unit is empty, no entry is in  *)
(* two places, and a stream holds entries over the threshold only.          *)
THEOREM PlansAreUnits ==
  ASSUME NEW E, NEW entries \in Seq(E), IsInjective(entries), NEW size \in [E -> Nat],
         NEW threshold \in Nat, NEW config \in Config,
         NEW units, units = UnitsOf(entries, size, threshold, config)
  PROVE  /\ units \in Seq([kind : {"batch", "stream"}, entries : Seq(E) \ {<<>>}])
         /\ \A u, v \in DOMAIN units :
              \A i \in DOMAIN units[u].entries, j \in DOMAIN units[v].entries :
                units[u].entries[i] = units[v].entries[j] => u = v /\ i = j
         /\ \A u \in DOMAIN units : units[u].kind = "stream" =>
              \A i \in DOMAIN units[u].entries : size[units[u].entries[i]] > threshold
<1>1. units \in Seq(FullUnit(E))
  BY UnitsLaidOut
<1>2. RightPlaces(units, entries, size, threshold)
  BY PlansAreRight DEF RightUnits
<1>3. \A u \in DOMAIN units : units[u].kind = "stream" =>
        \A i \in DOMAIN units[u].entries : size[units[u].entries[i]] > threshold
  <2> SUFFICES ASSUME NEW u \in DOMAIN units, units[u].kind = "stream",
                      NEW i \in DOMAIN units[u].entries
               PROVE  size[units[u].entries[i]] > threshold
    OBVIOUS
  <2>1. u \in Streams(units)
    BY DEF Streams
  <2>2. units[u].entries[i] \in ToSet(units[u].entries)
    BY DEF ToSet
  <2> QED
    BY <1>2, <2>1, <2>2 DEF RightPlaces
<1>4. \A u, v \in DOMAIN units :
        \A i \in DOMAIN units[u].entries, j \in DOMAIN units[v].entries :
          units[u].entries[i] = units[v].entries[j] => u = v /\ i = j
  BY <1>2 DEF RightPlaces
<1> QED
  BY <1>1, <1>3, <1>4 DEF FullUnit

(* sort_by_key is stable: entries of one size keep the order of the scan.   *)
(* Seen as places of the list, the sorted list takes every place once, and  *)
(* of two places taken one after the other the first is of the smaller size *)
(* (of the larger when Descending), or of the same size and earlier.        *)
THEOREM SortsAreStable ==
  ASSUME NEW E, NEW entries \in Seq(E), NEW size \in [E -> Nat], NEW order,
         NEW sorted, sorted = Sorted(entries, size, order)
  PROVE  \E place \in [DOMAIN entries -> DOMAIN entries] :
           /\ \A i \in DOMAIN entries : \E k \in DOMAIN entries : place[k] = i
           /\ \A k \in DOMAIN entries : sorted[k] = entries[place[k]]
           /\ \A k, l \in DOMAIN entries : k < l => Comes(place[k], place[l], entries, size, order)
<1> DEFINE place == [k \in DOMAIN entries |-> SortedPlace(k, entries, size, order)]
<1>1. /\ \A k \in DOMAIN entries : SortedPlace(k, entries, size, order) \in DOMAIN entries
      /\ \A i \in DOMAIN entries : \E k \in DOMAIN entries :
           SortedPlace(k, entries, size, order) = i
      /\ \A k, l \in DOMAIN entries : k < l =>
           Comes(SortedPlace(k, entries, size, order), SortedPlace(l, entries, size, order),
                 entries, size, order)
  BY SortedPlaces
<1>2. /\ place \in [DOMAIN entries -> DOMAIN entries]
      /\ \A k \in DOMAIN entries : place[k] = SortedPlace(k, entries, size, order)
  BY <1>1
<1>3. \A k \in DOMAIN entries : sorted[k] = entries[place[k]]
  BY <1>2 DEF Sorted
<1> HIDE DEF place
<1> QED
  BY <1>1, <1>2, <1>3

(* plan() and the unit queue of dispatch() place every entry exactly once,  *)
(* within both budgets, closing no batch early, with the smallest stream    *)
(* first, however many entries there are, whatever their sizes, the         *)
(* threshold and the BatchConfig.                                           *)
THEOREM EveryPlanRight == EveryPlanIsRight
<1> SUFFICES ASSUME NEW wl \in Workloads, NEW threshold \in 0 .. MaxSize, NEW config \in Configs,
                    NEW entries, entries = [i \in DOMAIN wl |-> i]
             PROVE  RightUnits(UnitsOf(entries, wl, threshold, config), entries, wl,
                               threshold, config)
  BY DEF EveryPlanIsRight
<1>1. PICK n \in 0 .. MaxEntries : wl \in [1 .. n -> 0 .. MaxSize]
  BY DEF Workloads
<1>2. n \in Nat /\ MaxSize \in Nat /\ threshold \in Nat /\ config \in Config
  BY PlansAssumption
<1>3. wl \in [1 .. n -> Nat] /\ DOMAIN wl = 1 .. n
  BY <1>1, <1>2
<1>4. entries \in Seq(1 .. n) /\ IsInjective(entries)
  BY <1>2, <1>3 DEF IsInjective
<1> QED
  BY <1>2, <1>3, <1>4, PlansAreRight

THEOREM PlanRight == Spec => []PlanIsRight
<1>1. PlanIsRight
  BY EveryPlanRight DEF PlanIsRight
<1> QED
  BY <1>1, PTL
=============================================================================

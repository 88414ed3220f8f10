--------------------------- MODULE CompressProofs ---------------------------
(***************************************************************************)
(* The zip pipeline and the gzip stream, for every plan, concurrency and    *)
(* strategy: bounded memory, an archive that is what the outcome says, and  *)
(* no started file forgotten.                                               *)
(***************************************************************************)
EXTENDS Compress, FiniteSetTheorems, TLAPS

FailureReasons == {"Fatal", "AbortOnError", "Undo"}

OutType == [succeeded : SUBSET Entry, skipped : SUBSET Entry, failed : SUBSET Entry,
            stoppedEarly : Reasons \cup {None}]

TypeInv ==
  /\ strategy \in Strategies /\ format \in {"none", "Zip", "Gzip"}
  /\ next \in 1 .. Len(Units) + 1 /\ (mpc \in {"acquire", "arm"} => next <= Len(Units))
  /\ stop \in BOOLEAN /\ stoppedByCancel \in BOOLEAN
  /\ wpc \in [UnitId -> {"unspawned", "loop", "read", "send", "done"}]
  /\ widx \in [UnitId -> Nat] /\ wmsg \in [UnitId -> {"data", "failed", "fatal"}]
  /\ \A u \in UnitId : /\ wpc[u] = "unspawned" <=> next <= u
                       /\ widx[u] <= Len(Units[u])
                       /\ wpc[u] \in {"read", "send"} => widx[u] > 0
  /\ channel \in Seq(Message)
  /\ out \in OutType
  /\ archive \subseteq Entry /\ reported \in [Entry -> {"none", "Started", "Completed", "Failed"}]

(* Every permit is somewhere, and the channel never outgrows its capacity.  *)
PermitInv ==
  /\ permits \in Nat
  /\ permits + Cardinality(Running) + (IF mpc = "arm" THEN 1 ELSE 0) = Permits
  /\ Len(channel) <= Permits

-----------------------------------------------------------------------------
(* A call that is no zip, or not yet: nothing but its one file.             *)
Says(event) == reported = [e \in Entry |-> IF e = TheFile THEN event ELSE "none"]
Untouched == reported = [e \in Entry |-> "none"] /\ archive = {} /\ out = EmptyOutcome /\ ~onDisk

GzipInv ==
  /\ writer = "create" /\ ~stop /\ \A u \in UnitId : wpc[u] = "unspawned" /\ widx[u] = 0
  /\ channel = <<>> /\ rxOpen
  /\ mpc # "format" /\ format = "none" => mpc = "error"
  /\ \/ mpc = "format" /\ format = "none" /\ Untouched
     \/ mpc = "error" /\ Untouched
     \/ mpc = "error" /\ IsGzip /\ Units # <<>> /\ Says("Failed")
     \/ mpc = "gzip" /\ IsGzip /\ Units # <<>> /\ Untouched
     \/ mpc = "open" /\ IsGzip /\ Units # <<>> /\ Says("Started") /\ archive = {}
          /\ out = EmptyOutcome /\ ~onDisk
     \/ mpc = "stream" /\ IsGzip /\ Units # <<>> /\ Says("Started") /\ archive = {}
          /\ out = EmptyOutcome /\ onDisk
     \/ mpc = "returned" /\ IsGzip /\ Units # <<>> /\ Says("Completed") /\ archive = {TheFile}
          /\ out = [EmptyOutcome EXCEPT !.succeeded = {TheFile}] /\ onDisk

-----------------------------------------------------------------------------
(* Where each of the processes of a zip may be while the others are.        *)
Left == \A u \in UnitId : wpc[u] \in {"unspawned", "done"}

LoopInv ==
  /\ mpc \in {"check", "acquire", "arm", "join", "await", "returned"}
  /\ writer \in {"create", "recv", "write", "finish", "done", "error"}
  /\ stop <=> out.stoppedEarly \in FailureReasons
  /\ out.stoppedEarly = "Cancelled" => mpc = "returned"
  /\ writer \in {"create", "recv", "write"} => ~stop
  /\ writer \in {"create", "recv", "write", "finish"} => rxOpen
  /\ mpc \in {"join", "await", "returned"} /\ ~stop /\ ~stoppedByCancel => next > Len(Units)
  /\ mpc \in {"await", "returned"} => Left
  /\ mpc = "returned" => writer \in {"done", "error"}
  /\ mpc = "returned" /\ stoppedByCancel /\ writer = "done" => out.stoppedEarly # None
  /\ writer \in {"finish", "done"} /\ ~stop =>
       mpc \in {"join", "await", "returned"} /\ Left /\ channel = <<>>

(* What is in the archive file is what succeeded, unless it was discarded.  *)
ArchiveInv ==
  /\ writer = "create" => archive = {} /\ out.succeeded = {} /\ ~onDisk
  /\ writer \in {"recv", "write", "finish"} => onDisk /\ archive = out.succeeded
  /\ writer = "done" =>
       IF Discards(out.stoppedEarly) THEN out.succeeded = {} /\ (onDisk => leftover)
                                     ELSE onDisk /\ archive = out.succeeded

(* The way of an entry: its task, the channel, the writer's hand, and then  *)
(* the archive or the failures.                                             *)
At(u, i) == Units[u][i]
InHand(u) == wpc[u] \in {"read", "send"}
Behind(u, i) == i < widx[u] \/ (i = widx[u] /\ ~InHand(u))
Passed(e) == \E u \in UnitId : \E i \in 1 .. Len(Units[u]) : e = At(u, i) /\ Behind(u, i)
Queued == {channel[i].entry : i \in DOMAIN channel}
Held == IF writer = "write" THEN {msg.entry} ELSE {}
Settled == archive \cup out.failed
Said(kind) == IF kind = "data" THEN "Started" ELSE "Failed"

TaskInv(u) ==
  /\ \A i \in 1 .. Len(Units[u]) : i > widx[u] => reported[At(u, i)] = "none"
  /\ wpc[u] = "read" => reported[EntryOf(u)] = "Started"
  /\ wpc[u] = "send" => reported[EntryOf(u)] = Said(wmsg[u])
  /\ ~stop /\ writer # "error" /\ wpc[u] = "done" => widx[u] = Len(Units[u])
  /\ ~stop /\ writer # "error" =>
       \A i \in 1 .. Len(Units[u]) : Behind(u, i) => At(u, i) \in Settled \cup Queued \cup Held

ChannelInv ==
  /\ \A i, j \in DOMAIN channel : channel[i].entry = channel[j].entry => i = j
  /\ \A i \in DOMAIN channel : /\ Passed(channel[i].entry) /\ channel[i].entry \notin Settled
                               /\ reported[channel[i].entry] = Said(channel[i].kind)
  /\ writer = "write" => /\ msg \in Message /\ Passed(msg.entry)
                         /\ msg.entry \notin Settled \cup Queued
                         /\ reported[msg.entry] = Said(msg.kind)

SettledInv ==
  /\ \A e \in Settled : Passed(e)
  /\ \A e \in archive : reported[e] = "Completed"
  /\ \A e \in out.failed : reported[e] = "Failed"
  /\ \A e \in Entry : reported[e] # "none" =>
       \E u \in UnitId : \E i \in 1 .. Len(Units[u]) : e = At(u, i)

ZipInv ==
  /\ LoopInv /\ ArchiveInv /\ ChannelInv /\ SettledInv
  /\ \A u \in UnitId : TaskInv(u)

CompressInv ==
  /\ TypeInv /\ PermitInv
  /\ format # "Zip" => GzipInv
  /\ format = "Zip" => ZipInv

-----------------------------------------------------------------------------
LEMMA UnitFacts ==
  ASSUME NEW u \in UnitId
  PROVE  Units[u] \in Seq(Entry) /\ Units[u] # <<>> /\ Len(Units[u]) \in Nat
<1>1. Units[u] \in Seq(Entry) \ {<<>>}
  BY CompressAssumption DEF UnitId
<1> QED
  BY <1>1

(* Different places of the plan hold different entries.                     *)
LEMMA PlaceFacts ==
  ASSUME NEW u \in UnitId, NEW i \in 1 .. Len(Units[u])
  PROVE  /\ At(u, i) \in Entry
         /\ \A v \in UnitId : \A j \in 1 .. Len(Units[v]) : At(u, i) = At(v, j) => u = v /\ i = j
<1>1. DOMAIN Units = UnitId
  BY CompressAssumption DEF UnitId
<1>2. \A v \in UnitId : DOMAIN Units[v] = 1 .. Len(Units[v])
  BY UnitFacts
<1>3. At(u, i) \in Entry
  BY UnitFacts DEF At
<1> QED
  BY <1>1, <1>2, <1>3, CompressAssumption DEF At

(* What is not behind its task has not gone on anywhere.                    *)
LEMMA NotPassed ==
  ASSUME NEW u \in UnitId, NEW i \in 1 .. Len(Units[u]), ~Behind(u, i)
  PROVE  ~Passed(At(u, i))
  BY PlaceFacts DEF Passed

(* The entry in a task's hand.                                              *)
LEMMA HandFacts ==
  ASSUME TypeInv, NEW u \in UnitId, InHand(u)
  PROVE  /\ widx[u] \in 1 .. Len(Units[u]) /\ EntryOf(u) = At(u, widx[u])
         /\ EntryOf(u) \in Entry /\ ~Passed(EntryOf(u))
<1>1. widx[u] \in 1 .. Len(Units[u]) /\ EntryOf(u) = At(u, widx[u])
  BY UnitFacts DEF TypeInv, InHand, EntryOf, At
<1>2. ~Behind(u, widx[u])
  BY <1>1 DEF Behind
<1> QED
  BY <1>1, <1>2, PlaceFacts, NotPassed

LEMMA TheFileIsEntry == ASSUME Units # <<>> PROVE TheFile \in Entry
<1>1. Units \in Seq(Seq(Entry) \ {<<>>})
  BY CompressAssumption
<1>2. 1 \in UnitId /\ Units[1] \in Seq(Entry) \ {<<>>}
  BY <1>1 DEF UnitId
<1>3. Len(Units[1]) > 0
  BY <1>2
<1>4. 1 \in 1 .. Len(Units[1]) /\ Len(Units[1]) \in Nat
  BY <1>2, <1>3
<1> QED
  BY <1>2, <1>4, PlaceFacts DEF TheFile, At

LEMMA RunningIsFinite == IsFiniteSet(Running) /\ Cardinality(Running) \in Nat
<1>1. Len(Units) \in Nat
  BY CompressAssumption
<1>2. IsFiniteSet(1 .. Len(Units))
  BY <1>1, FS_Interval
<1>3. IsFiniteSet(Running)
  BY <1>2, FS_Subset DEF Running, UnitId
<1> QED
  BY <1>3, FS_CardinalityType

LEMMA PermitsIsNat == Permits \in Nat /\ Permits > 0
  BY CompressAssumption DEF Permits

-----------------------------------------------------------------------------
LEMMA CompressInit == ASSUME Init PROVE CompressInv
<1>1. TypeInv
  <2>1. Len(Units) \in Nat /\ \A u \in UnitId : Len(Units[u]) \in Nat
    BY UnitFacts, CompressAssumption
  <2>2. EmptyOutcome \in OutType
    BY DEF EmptyOutcome, OutType
  <2>3. <<>> \in Seq(Message)
    OBVIOUS
  <2>4. \A u \in UnitId : /\ wpc[u] = "unspawned" <=> next <= u
                         /\ widx[u] <= Len(Units[u]) /\ wpc[u] \notin {"read", "send"}
    BY <2>1 DEF Init, UnitId
  <2>5. /\ wpc \in [UnitId -> {"unspawned", "loop", "read", "send", "done"}]
        /\ widx \in [UnitId -> Nat] /\ wmsg \in [UnitId -> {"data", "failed", "fatal"}]
        /\ reported \in [Entry -> {"none", "Started", "Completed", "Failed"}]
    BY DEF Init
  <2>6. next \in 1 .. Len(Units) + 1 /\ mpc = "format"
    BY <2>1 DEF Init
  <2> QED
    BY <2>2, <2>3, <2>4, <2>5, <2>6 DEF Init, TypeInv
<1>2. PermitInv
  <2>1. Running = {}
    BY DEF Init, Running
  <2> QED
    BY <2>1, FS_EmptySet, PermitsIsNat DEF Init, PermitInv
<1>3. format = "none" /\ GzipInv
  BY DEF Init, GzipInv, Untouched
<1> QED
  BY <1>1, <1>2, <1>3 DEF CompressInv

(* An outcome whose successes are replaced by entries is one.               *)
LEMMA SucceededReplaced ==
  ASSUME out \in OutType, NEW S \in SUBSET Entry
  PROVE  [out EXCEPT !.succeeded = S] \in OutType
  BY DEF OutType

LEMMA TypeStep == ASSUME CompressInv, [Next]_vars PROVE TypeInv'
<1> USE DEF callVars, mainVars, sharedVars, taskVars, writerVars, fileVars
<1>0. TypeInv /\ Len(Units) \in Nat /\ \A u \in UnitId : Len(Units[u]) \in Nat
  BY UnitFacts, CompressAssumption DEF CompressInv
<1>1. CASE CheckStop \/ SelectCancelled \/ SelectPermit \/ Join \/ Cancel \/ Returned
           \/ ChannelClosed \/ UNCHANGED vars
  <2>1. /\ UNCHANGED <<strategy, format, next, stop, wpc, widx, wmsg, channel, out, archive,
                       reported>>
        /\ stoppedByCancel' \in BOOLEAN
    BY <1>0, <1>1 DEF CheckStop, SelectCancelled, SelectPermit, Join, Cancel, Returned,
                      ChannelClosed, vars, TypeInv
  <2>2. mpc' \in {"acquire", "arm"} => next <= Len(Units)
    <3>1. CASE CheckStop
      BY <1>0, <3>1 DEF CheckStop, TypeInv
    <3> QED
      BY <1>0, <1>1, <3>1 DEF SelectCancelled, SelectPermit, Join, Cancel, Returned,
                              ChannelClosed, vars, TypeInv
  <2> QED
    BY <1>0, <2>1, <2>2 DEF TypeInv
<1>2. CASE Begin
  BY <1>0, <1>2 DEF Begin, Formats, TypeInv
<1>3. CASE Gzip
  <2>1. /\ UNCHANGED <<strategy, format, next, stop, stoppedByCancel, wpc, widx, wmsg, channel>>
        /\ mpc' \notin {"acquire", "arm"} /\ GzipInv
    BY <1>3 DEF Gzip, GzipStart, GzipCreate, GzipStream, GzipFailed, CompressInv, ZipInv, LoopInv
  <2>2. Units # <<>>
    BY <1>3, <2>1 DEF GzipInv, Gzip, GzipStart, GzipCreate, GzipStream, IsGzip
  <2>3. archive' \subseteq Entry
    BY <1>0, <1>3, <2>2, TheFileIsEntry
       DEF Gzip, GzipStart, GzipCreate, GzipStream, GzipEnds, TypeInv
  <2>4. reported' \in [Entry -> {"none", "Started", "Completed", "Failed"}]
    BY <1>0, <1>3, <2>2, TheFileIsEntry
       DEF Gzip, GzipStart, GzipCreate, GzipStream, GzipFailed, TypeInv
  <2>5. out' \in OutType
    <3>1. out' = out \/ out' = [out EXCEPT !.succeeded = {TheFile}]
      BY <1>3 DEF Gzip, GzipStart, GzipCreate, GzipStream
    <3>2. {TheFile} \in SUBSET Entry /\ out \in OutType
      BY <1>0, <2>2, TheFileIsEntry DEF TypeInv
    <3> QED
      BY <3>1, <3>2, SucceededReplaced
  <2> QED
    BY <1>0, <2>1, <2>3, <2>4, <2>5 DEF TypeInv
<1>4. CASE Arm
  <2>1. ASSUME ~stop
        PROVE  /\ next \in UnitId /\ next' = next + 1 /\ mpc' = "check"
               /\ wpc' = [wpc EXCEPT ![next] = "loop"]
    BY <1>0, <1>4, <2>1 DEF Arm, TypeInv, UnitId
  <2> QED
    BY <1>0, <1>4, <2>1 DEF Arm, TypeInv, UnitId
<1>5. CASE Settle
  <2>1. CancelReason \in Reasons \cup {None}
    BY <1>0 DEF CancelReason, TypeInv, OutType, Reasons
  <2>2. out' \in OutType
    BY <1>0, <1>5, <2>1 DEF Settle, TypeInv, OutType
  <2> QED
    BY <1>0, <1>5, <2>2 DEF Settle, TypeInv
<1>6. ASSUME NEW u \in UnitId, StartEntry(u) PROVE TypeInv'
  <2>1. widx[u] + 1 \in 1 .. Len(Units[u]) /\ Units[u][widx[u] + 1] \in Entry
    <3>1. widx[u] + 1 \in 1 .. Len(Units[u])
      BY <1>0, <1>6 DEF StartEntry, TypeInv
    <3> QED
      BY <3>1, PlaceFacts DEF At
  <2>2. reported' \in [Entry -> {"none", "Started", "Completed", "Failed"}]
    BY <1>0, <1>6, <2>1 DEF StartEntry, TypeInv
  <2> QED
    BY <1>0, <1>6, <2>1, <2>2 DEF StartEntry, TypeInv
<1>7. ASSUME NEW u \in UnitId, NEW kind \in {"data", "failed", "fatal"}, Read(u, kind)
      PROVE  TypeInv'
  <2>1. EntryOf(u) \in Entry
    BY <1>0, <1>7, HandFacts DEF Read, InHand
  <2>2. reported' \in [Entry -> {"none", "Started", "Completed", "Failed"}]
    BY <1>0, <1>7, <2>1 DEF Read, TypeInv
  <2> QED
    BY <1>0, <1>7, <2>2 DEF Read, TypeInv
<1>8. ASSUME NEW u \in UnitId, Send(u) PROVE TypeInv'
  <2>1. EntryOf(u) \in Entry
    BY <1>0, <1>8, HandFacts DEF Send, InHand
  <2>2. [entry |-> EntryOf(u), kind |-> wmsg[u]] \in Message
    BY <1>0, <2>1 DEF Message, TypeInv
  <2>3. channel' \in Seq(Message)
    BY <1>0, <1>8, <2>2 DEF Send, TypeInv
  <2> QED
    BY <1>0, <1>8, <2>3 DEF Send, TypeInv
<1>9. ASSUME NEW u \in UnitId, ExitTask(u) PROVE TypeInv'
  BY <1>0, <1>9 DEF ExitTask, LeavesLoop, TypeInv
<1>10. CASE CreateArchive \/ Receive
  <2>1. channel' \in Seq(Message)
    <3>1. channel \in Seq(Message) /\ <<>> \in Seq(Message)
      BY <1>0 DEF TypeInv
    <3>2. channel # <<>> => Tail(channel) \in Seq(Message)
      BY <3>1
    <3> QED
      BY <1>10, <3>1, <3>2 DEF CreateArchive, Receive
  <2> QED
    BY <1>0, <1>10, <2>1 DEF CreateArchive, Receive, TypeInv
<1>11. CASE WriteEntry \/ FailEntry
  <2>1. msg.entry \in Entry
    BY <1>11 DEF WriteEntry, FailEntry, CompressInv, GzipInv, ZipInv, ChannelInv, Message
  <2>2. FailureReason(strategy, msg.kind = "fatal") \in Reasons \cup {None}
    BY <1>0 DEF FailureReason, StrategyReason, TypeInv, Strategies, Reasons, None
  <2>3. /\ UNCHANGED <<strategy, format, mpc, next, stoppedByCancel, wpc, widx, wmsg, channel>>
        /\ stop' \in BOOLEAN /\ archive' \subseteq Entry
        /\ reported' \in [Entry -> {"none", "Started", "Completed", "Failed"}]
    BY <1>0, <1>11, <2>1 DEF WriteEntry, FailEntry, StopFlag, TypeInv
  <2>4. out' \in OutType
    <3>1. CASE WriteEntry
      BY <1>0, <2>1, <3>1 DEF WriteEntry, TypeInv, OutType
    <3>2. CASE FailEntry
      <4> DEFINE reason == FailureReason(strategy, msg.kind = "fatal")
      <4>1. out' = [out EXCEPT !.failed = @ \cup {msg.entry}, !.stoppedEarly = reason]
        BY <3>2 DEF FailEntry
      <4> HIDE DEF reason
      <4>2. reason \in Reasons \cup {None}
        BY <2>2 DEF reason
      <4> QED
        BY <1>0, <2>1, <4>1, <4>2 DEF TypeInv, OutType
    <3> QED
      BY <1>11, <3>1, <3>2
  <2> QED
    BY <1>0, <2>3, <2>4 DEF TypeInv
<1>12. CASE Finish
  <2>1. out' \in OutType
    <3>1. out' = out \/ out' = [out EXCEPT !.succeeded = {}]
      <4>1. CASE Discards(out.stoppedEarly)
        BY <1>12, <4>1 DEF Finish
      <4>2. CASE ~Discards(out.stoppedEarly)
        BY <1>12, <4>2 DEF Finish
      <4> QED
        BY <4>1, <4>2
    <3>2. {} \in SUBSET Entry /\ out \in OutType
      BY <1>0 DEF TypeInv
    <3> QED
      BY <3>1, <3>2, SucceededReplaced
  <2>2. channel' \in Seq(Message)
    BY <1>0, <1>12 DEF Finish, TypeInv
  <2> QED
    BY <1>0, <1>12, <2>1, <2>2 DEF Finish, TypeInv
<1> QED
  BY <1>1, <1>2, <1>3, <1>4, <1>5, <1>6, <1>7, <1>8, <1>9, <1>10, <1>11, <1>12
     DEF Next, Main, Writer, Task

-----------------------------------------------------------------------------
(* The permits of a step that moves none and starts and ends no task.       *)
LEMMA SameRunning ==
  ASSUME PermitInv, permits' = permits, Len(channel') <= Permits,
         mpc' = mpc \/ (mpc # "arm" /\ mpc' # "arm"),
         \A u \in UnitId : wpc'[u] \in {"unspawned", "done"} <=> wpc[u] \in {"unspawned", "done"}
  PROVE  PermitInv'
<1>1. Running' = Running
  BY DEF Running
<1> QED
  BY <1>1 DEF PermitInv

LEMMA PermitStep == ASSUME CompressInv, [Next]_vars PROVE PermitInv'
<1> USE DEF callVars, mainVars, sharedVars, taskVars, writerVars, fileVars
<1>0. PermitInv /\ wpc \in [UnitId -> {"unspawned", "loop", "read", "send", "done"}]
      /\ channel \in Seq(Message) /\ Permits \in Nat /\ Cardinality(Running) \in Nat
  BY PermitsIsNat, RunningIsFinite DEF CompressInv, TypeInv
<1>1. Len(channel) \in Nat /\ Len(<<>>) = 0
  BY <1>0
<1>2. CASE \/ CheckStop \/ SelectCancelled \/ Join \/ Settle \/ Cancel \/ Returned \/ Begin \/ Gzip
           \/ ChannelClosed \/ WriteEntry \/ FailEntry \/ UNCHANGED vars
  <2>1. /\ permits' = permits /\ channel' = channel /\ wpc' = wpc
        /\ mpc' = mpc \/ (mpc # "arm" /\ mpc' # "arm")
    BY <1>2 DEF CheckStop, SelectCancelled, Join, Settle, Cancel, Returned, Begin, Gzip,
                GzipStart, GzipCreate, GzipStream, GzipFailed, ChannelClosed, WriteEntry,
                FailEntry, vars
  <2> QED
    BY <1>0, <2>1, SameRunning DEF PermitInv
<1>3. CASE CreateArchive \/ Receive \/ Finish
  <2>1. permits' = permits /\ wpc' = wpc /\ mpc' = mpc
    BY <1>3 DEF CreateArchive, Receive, Finish
  <2>2. Len(channel') <= Permits
    <3>1. channel # <<>> => Len(Tail(channel)) = Len(channel) - 1
      BY <1>0
    <3> QED
      BY <1>0, <1>1, <1>3, <3>1 DEF CreateArchive, Receive, Finish, PermitInv
  <2> QED
    BY <1>0, <2>1, <2>2, SameRunning
<1>4. CASE SelectPermit
  <2>1. Running' = Running
    BY <1>4 DEF SelectPermit, Running
  <2> QED
    BY <1>0, <1>4, <2>1 DEF SelectPermit, PermitInv
<1>5. CASE Arm
  <2>1. CASE stop
    <3>1. Running' = Running
      BY <1>5, <2>1 DEF Arm, Running
    <3> QED
      BY <1>0, <1>5, <2>1, <3>1 DEF Arm, PermitInv
  <2>2. CASE ~stop
    <3>1. next \in UnitId /\ wpc[next] = "unspawned"
      BY <1>5, CompressAssumption DEF Arm, CompressInv, TypeInv, UnitId
    <3>2. next \notin Running /\ Running' = Running \cup {next}
      BY <1>0, <1>5, <2>2, <3>1 DEF Arm, Running
    <3>3. Cardinality(Running') = Cardinality(Running) + 1
      BY <3>2, RunningIsFinite, FS_AddElement
    <3> QED
      BY <1>0, <1>5, <2>2, <3>3 DEF Arm, PermitInv
  <2> QED
    BY <2>1, <2>2
<1>6. ASSUME NEW u \in UnitId, StartEntry(u) \/ \E k \in {"data", "failed", "fatal"} : Read(u, k)
      PROVE  PermitInv'
  BY <1>0, <1>6, SameRunning DEF StartEntry, Read, PermitInv
<1>7. ASSUME NEW u \in UnitId, Send(u) PROVE PermitInv'
  <2>1. Len(channel') = Len(channel) + 1
    BY <1>0, <1>7 DEF Send
  <2> QED
    BY <1>0, <1>1, <1>7, <2>1, SameRunning DEF Send, Capacity
<1>8. ASSUME NEW u \in UnitId, ExitTask(u) PROVE PermitInv'
  <2>1. u \in Running /\ Running' = Running \ {u}
    BY <1>0, <1>8 DEF ExitTask, LeavesLoop, Running
  <2>2. Cardinality(Running') = Cardinality(Running) - 1
    BY <2>1, RunningIsFinite, FS_RemoveElement
  <2> QED
    BY <1>0, <1>8, <2>2 DEF ExitTask, PermitInv
<1> QED
  BY <1>2, <1>3, <1>4, <1>5, <1>6, <1>7, <1>8 DEF Next, Main, Writer, Task

-----------------------------------------------------------------------------
(* While a call is no zip, only its own three steps and a cancellation can  *)
(* be taken.                                                                *)
LEMMA GzipStep ==
  ASSUME CompressInv, [Next]_vars, format # "Zip"
  PROVE  IF format' = "Zip" THEN ZipInv' ELSE GzipInv'
<1> USE DEF callVars, mainVars, sharedVars, taskVars, writerVars, fileVars
<1>0. GzipInv /\ reported \in [Entry -> {"none", "Started", "Completed", "Failed"}]
  BY DEF CompressInv, TypeInv
<1>1. mpc \in {"format", "error", "gzip", "open", "stream", "returned"}
  BY <1>0 DEF GzipInv
<1>2. mpc \notin {"format", "error"} => IsGzip
  BY <1>0 DEF GzipInv
<1>3. CASE Begin
  <2>1. /\ mpc = "format" /\ Untouched /\ writer = "create" /\ channel = <<>> /\ ~stop
        /\ UNCHANGED <<stop, wpc, widx, wmsg, channel, rxOpen, writer, msg, out, onDisk, archive,
                       reported>>
    BY <1>0, <1>3 DEF Begin, GzipInv
  <2>2. CASE format' = "Zip"
    <3>1. mpc' = "check"
      BY <1>0, <1>3, <2>1, <2>2 DEF Begin, GzipInv
    <3>2. LoopInv' /\ ArchiveInv'
      <4>1. /\ out'.stoppedEarly = "None" /\ out'.succeeded = {} /\ archive' = {} /\ ~onDisk'
            /\ writer' = "create" /\ rxOpen' /\ ~stop'
        BY <1>0, <2>1 DEF Untouched, EmptyOutcome, GzipInv, None
      <4> QED
        BY <3>1, <4>1 DEF LoopInv, ArchiveInv, FailureReasons
    <3>3. ASSUME NEW u \in UnitId PROVE TaskInv(u)'
      <4>1. /\ wpc'[u] = "unspawned" /\ widx'[u] = 0 /\ Len(Units[u]) \in Nat
            /\ \A i \in 1 .. Len(Units[u]) : reported'[At(u, i)] = "none"
        BY <1>0, <2>1, PlaceFacts, UnitFacts DEF GzipInv, Untouched
      <4> QED
        BY <4>1 DEF TaskInv, Behind
    <3>4. Settled' = {} /\ DOMAIN channel' = {} /\ writer' # "write"
      BY <2>1 DEF Untouched, EmptyOutcome, Settled
    <3>5. \A e \in Entry : reported'[e] = "none"
      BY <2>1 DEF Untouched
    <3>6. ChannelInv'
      BY <3>4 DEF ChannelInv
    <3>7. SettledInv'
      BY <3>4, <3>5 DEF SettledInv, Settled
    <3> QED
      BY <2>2, <3>2, <3>3, <3>6, <3>7 DEF ZipInv
  <2>3. CASE format' # "Zip"
    <3>1. \/ mpc' = "error" /\ format' = "none"
          \/ mpc' = "gzip" /\ format' = "Gzip" /\ Units # <<>>
      BY <1>0, <1>3, <2>1, <2>3 DEF Begin, GzipInv, Formats
    <3> QED
      BY <1>0, <2>1, <2>3, <3>1 DEF GzipInv, Untouched, IsGzip
  <2> QED
    BY <2>2, <2>3
<1>4. CASE Gzip
  <2>1. /\ UNCHANGED <<format, stop, wpc, widx, channel, rxOpen, writer>>
        /\ IsGzip /\ Units # <<>>
    BY <1>0, <1>4 DEF Gzip, GzipStart, GzipCreate, GzipStream, GzipInv
  <2>2. TheFile \in Entry
    BY <2>1, TheFileIsEntry
  <2>3. CASE GzipStart
    BY <1>0, <2>1, <2>2, <2>3 DEF GzipStart, GzipInv, Untouched, Says, IsGzip
  <2>4. CASE GzipCreate
    BY <1>0, <2>1, <2>2, <2>4 DEF GzipCreate, GzipFailed, GzipInv, Untouched, Says, IsGzip
  <2>5. CASE GzipStream
    BY <1>0, <2>1, <2>2, <2>5
       DEF GzipStream, GzipFailed, GzipEnds, GzipInv, Untouched, Says, IsGzip
  <2> QED
    BY <1>4, <2>3, <2>4, <2>5 DEF Gzip
<1>5. CASE Cancel \/ Returned \/ UNCHANGED vars
  <2>1. UNCHANGED <<format, mpc, stop, wpc, widx, channel, rxOpen, writer, out, onDisk, archive, reported>>
    BY <1>5 DEF Cancel, Returned, vars
  <2> QED
    BY <1>0, <2>1 DEF GzipInv, Untouched, Says, IsGzip
<1>6. ~(CheckStop \/ SelectCancelled \/ SelectPermit \/ Arm \/ Join \/ Settle)
  BY <1>1 DEF CheckStop, SelectCancelled, SelectPermit, Arm, Join, Settle
<1>7. ~Writer
  BY <1>0, <1>2 DEF Writer, CreateArchive, Receive, ChannelClosed, WriteEntry, FailEntry, Finish,
                    GzipInv
<1>8. ASSUME NEW u \in UnitId PROVE ~Task(u)
  BY <1>0 DEF Task, StartEntry, Read, Send, ExitTask, LeavesLoop, GzipInv
<1> QED
  BY <1>3, <1>4, <1>5, <1>6, <1>7, <1>8 DEF Next, Main

-----------------------------------------------------------------------------
(* The ways of the entries, in a step that moves none: only the queue may   *)
(* be thrown away, in a call that stopped or failed.                        *)
FlowInv == ChannelInv /\ SettledInv /\ \A u \in UnitId : TaskInv(u)

LEMMA SameFlow ==
  ASSUME FlowInv, UNCHANGED <<widx, wmsg, archive, reported, out.failed>>,
         \A u \in UnitId : wpc'[u] = wpc[u] \/ (wpc[u] = "unspawned" /\ wpc'[u] = "loop"),
         writer' = "write" <=> writer = "write", writer = "write" => msg' = msg,
         ~stop' /\ writer' # "error" => ~stop /\ writer # "error",
         \/ channel' = channel
         \/ channel' = <<>> /\ (~stop' /\ writer' # "error" => channel = <<>>)
  PROVE  FlowInv'
<1>1. \A u \in UnitId : /\ wpc'[u] \in {"read", "send", "done"} => wpc'[u] = wpc[u]
                        /\ InHand(u)' = InHand(u) /\ EntryOf(u)' = EntryOf(u)
  BY DEF InHand, EntryOf
<1>2. \A u \in UnitId : \A i \in 1 .. Len(Units[u]) : Behind(u, i)' = Behind(u, i)
  BY <1>1 DEF Behind
<1>3. \A e : Passed(e)' = Passed(e)
  BY <1>2 DEF Passed
<1>4. Settled' = Settled /\ Held' = Held
  BY DEF Settled, Held
<1>5. Queued' \subseteq Queued /\ (~stop' /\ writer' # "error" => Queued' = Queued)
  BY DEF Queued
<1>6. ChannelInv'
  <2>1. CASE channel' = channel
    BY <1>3, <1>4, <2>1 DEF FlowInv, ChannelInv, Queued
  <2>2. CASE channel' = <<>>
    BY <1>3, <1>4, <1>5, <2>2 DEF FlowInv, ChannelInv
  <2> QED
    BY <2>1, <2>2
<1>7. SettledInv'
  BY <1>3, <1>4 DEF FlowInv, SettledInv
<1>8. ASSUME NEW u \in UnitId PROVE TaskInv(u)'
  <2>1. TaskInv(u)
    BY DEF FlowInv
  <2> QED
    BY <1>1, <1>2, <1>4, <1>5, <2>1 DEF TaskInv
<1> QED
  BY <1>6, <1>7, <1>8 DEF FlowInv

(* The loop, the caller, and the writer between two files.                  *)
LEMMA QuietZip ==
  ASSUME CompressInv, ZipInv,
         \/ CheckStop \/ SelectCancelled \/ SelectPermit \/ Arm \/ Join \/ Settle \/ Cancel
         \/ Returned \/ UNCHANGED vars \/ CreateArchive \/ ChannelClosed \/ Finish
  PROVE  ZipInv'
<1> USE DEF callVars, mainVars, sharedVars, taskVars, writerVars, fileVars
<1>0. TypeInv /\ FlowInv /\ LoopInv /\ ArchiveInv
  BY DEF CompressInv, ZipInv, FlowInv
<1>1. UNCHANGED <<widx, wmsg, archive, reported, msg>> /\ stop' = stop
  BY DEF CheckStop, SelectCancelled, SelectPermit, Arm, Join, Settle, Cancel, Returned, vars,
         CreateArchive, ChannelClosed, Finish
<1>2. out'.failed = out.failed
  <2>1. CASE Settle \/ Finish
    BY <1>0, <2>1 DEF Settle, Finish, TypeInv, OutType
  <2> QED
    BY <2>1 DEF CheckStop, SelectCancelled, SelectPermit, Arm, Join, Cancel, Returned, vars,
                CreateArchive, ChannelClosed
<1>3. ASSUME NEW u \in UnitId
      PROVE  wpc'[u] = wpc[u] \/ (wpc[u] = "unspawned" /\ wpc'[u] = "loop")
  <2>1. CASE Arm
    BY <1>0, <2>1 DEF Arm, TypeInv, UnitId
  <2> QED
    BY <2>1 DEF CheckStop, SelectCancelled, SelectPermit, Join, Settle, Cancel, Returned, vars,
                CreateArchive, ChannelClosed, Finish
<1>4. /\ writer' = "write" <=> writer = "write"
      /\ ~stop' /\ writer' # "error" => ~stop /\ writer # "error"
  BY DEF CheckStop, SelectCancelled, SelectPermit, Arm, Join, Settle, Cancel, Returned, vars,
         CreateArchive, ChannelClosed, Finish
<1>5. \/ channel' = channel
      \/ channel' = <<>> /\ (~stop' /\ writer' # "error" => channel = <<>>)
  BY <1>0, <1>1 DEF CheckStop, SelectCancelled, SelectPermit, Arm, Join, Settle, Cancel, Returned,
         vars, CreateArchive, ChannelClosed, Finish, LoopInv
<1>6. FlowInv'
  BY <1>0, <1>1, <1>2, <1>3, <1>4, <1>5, SameFlow
<1>7. LoopInv' /\ ArchiveInv'
  <2>1. CASE CheckStop \/ SelectCancelled \/ SelectPermit \/ Join \/ Cancel \/ Returned
             \/ UNCHANGED vars
    BY <1>0, <2>1 DEF CheckStop, SelectCancelled, SelectPermit, Join, Cancel, Returned, vars,
                      LoopInv, ArchiveInv, Left, Discards, TypeInv
  <2>2. CASE Arm
    BY <1>0, <2>2 DEF Arm, LoopInv, ArchiveInv, Discards
  <2>3. CASE Settle
    <3> DEFINE reason == CancelReason
    <3>1. /\ mpc = "await" /\ mpc' = "returned" /\ writer \in {"done", "error"} /\ writer' = writer
          /\ UNCHANGED <<strategy, next, stoppedByCancel, wpc, channel, rxOpen>>
      BY <2>3 DEF Settle
    <3>2. CASE writer = "done" /\ reason # out.stoppedEarly
      <4>1. /\ stoppedByCancel /\ out.stoppedEarly = None /\ reason = "Cancelled" /\ ~stop
            /\ onDisk /\ archive = out.succeeded
        BY <1>0, <3>1, <3>2 DEF CancelReason, LoopInv, ArchiveInv, FailureReasons, Discards, None
      <4>2. out' = [out EXCEPT !.stoppedEarly = "Cancelled",
                               !.succeeded = IF Discards("Cancelled") THEN {} ELSE @]
        BY <2>3, <3>2, <4>1 DEF Settle
      <4>3. /\ out'.stoppedEarly = "Cancelled"
            /\ out'.succeeded = IF Discards("Cancelled") THEN {} ELSE out.succeeded
        BY <1>0, <4>2 DEF TypeInv, OutType
      <4>4. IF Discards("Cancelled") THEN onDisk' => leftover' ELSE onDisk'
        BY <2>3, <3>2, <4>1 DEF Settle
      <4>5. LoopInv'
        BY <1>0, <1>1, <3>1, <4>1, <4>3 DEF LoopInv, Left, FailureReasons, None
      <4> QED
        BY <1>1, <3>1, <3>2, <4>1, <4>3, <4>4, <4>5 DEF ArchiveInv, Discards
    <3>3. CASE ~(writer = "done" /\ reason # out.stoppedEarly)
      <4>1. UNCHANGED <<out, onDisk, leftover>>
        BY <2>3, <3>3 DEF Settle
      <4>2. writer = "done" /\ stoppedByCancel => out.stoppedEarly # None
        BY <3>3 DEF CancelReason, None
      <4> QED
        BY <1>0, <1>1, <3>1, <4>1, <4>2 DEF LoopInv, ArchiveInv, Left, Discards, FailureReasons
    <3> QED
      BY <3>2, <3>3
  <2>4. CASE CreateArchive
    <3>1. /\ writer = "create" /\ UNCHANGED <<mpc, next, stoppedByCancel, wpc, out, archive>>
          /\ \/ writer' = "recv" /\ onDisk' = TRUE /\ rxOpen' = rxOpen
             \/ writer' = "error"
      BY <2>4 DEF CreateArchive
    <3>2. Left' = Left
      BY <3>1 DEF Left
    <3>3. LoopInv'
      BY <1>0, <1>1, <3>1, <3>2 DEF LoopInv
    <3> QED
      BY <1>0, <3>1, <3>3 DEF ArchiveInv
  <2>5. CASE ChannelClosed
    <3>1. /\ writer = "recv" /\ writer' = "finish" /\ channel = <<>> /\ Left
          /\ mpc \in {"join", "await"}
          /\ UNCHANGED <<mpc, next, stoppedByCancel, wpc, channel, rxOpen, out, onDisk>>
      BY <2>5 DEF ChannelClosed, SendersGone, SendersGone_NoTasks, Left
    <3>2. Left'
      BY <3>1 DEF Left
    <3>3. LoopInv'
      BY <1>0, <1>1, <3>1, <3>2 DEF LoopInv
    <3> QED
      BY <1>0, <1>1, <3>1, <3>3 DEF ArchiveInv
  <2>6. CASE Finish
    <3>1. /\ writer = "finish" /\ writer' \in {"done", "error"} /\ (~stop => channel = <<>>)
          /\ channel' \in {channel, <<>>}
          /\ UNCHANGED <<strategy, mpc, next, stoppedByCancel, wpc>>
      BY <1>0, <2>6 DEF Finish, LoopInv
    <3>2. out'.stoppedEarly = out.stoppedEarly
      BY <1>0, <2>6 DEF Finish, TypeInv, OutType
    <3>3. LoopInv'
      BY <1>0, <1>1, <3>1, <3>2 DEF LoopInv, Left
    <3>4. CASE writer' = "error"
      BY <3>3, <3>4 DEF ArchiveInv
    <3>5. CASE writer' = "done" /\ Discards(out.stoppedEarly)
      <4>1. out'.succeeded = {} /\ (onDisk' => leftover')
        BY <1>0, <2>6, <3>5 DEF Finish, TypeInv, OutType
      <4> QED
        BY <3>1, <3>2, <3>3, <3>5, <4>1 DEF ArchiveInv, Discards
    <3>6. CASE writer' = "done" /\ ~Discards(out.stoppedEarly)
      BY <1>0, <1>1, <2>6, <3>1, <3>3, <3>6 DEF Finish, ArchiveInv, Discards
    <3> QED
      BY <3>1, <3>4, <3>5, <3>6
  <2> QED
    BY <2>1, <2>2, <2>3, <2>4, <2>5, <2>6
<1> QED
  BY <1>6, <1>7 DEF ZipInv, FlowInv

-----------------------------------------------------------------------------
(* While a task runs, the loop has not joined it and the writer not ended.  *)
LEMMA TaskKeepsLoop ==
  ASSUME LoopInv, ArchiveInv, NEW u \in UnitId, wpc[u] \in {"loop", "read", "send"},
         UNCHANGED <<strategy, mpc, next, stoppedByCancel, stop, rxOpen, writer, out, archive,
                     onDisk, leftover>>
  PROVE  LoopInv' /\ ArchiveInv'
<1>1. ~Left
  BY DEF Left
<1>2. LoopInv'
  BY <1>1 DEF LoopInv
<1>3. ArchiveInv'
  BY DEF ArchiveInv, Discards
<1> QED
  BY <1>2, <1>3

(* A task that says something of an entry that has not gone on.             *)
LEMMA HandStep ==
  ASSUME TypeInv, FlowInv, NEW u \in UnitId, NEW i \in 1 .. Len(Units[u]), ~Passed(At(u, i)),
         UNCHANGED <<channel, archive, out, writer, msg, stop>>,
         \A e \in Entry : e # At(u, i) => reported'[e] = reported[e],
         \A v \in UnitId : /\ v # u => UNCHANGED <<wpc[v], widx[v], wmsg[v]>>
                           /\ \A j \in 1 .. Len(Units[v]) : Behind(v, j)' = Behind(v, j),
         TaskInv(u)'
  PROVE  FlowInv'
<1>1. \A f : Passed(f)' = Passed(f)
  BY DEF Passed
<1>2. UNCHANGED <<Settled, Queued, Held>>
  BY DEF Settled, Queued, Held
<1>3. \A f : Passed(f) => f \in Entry /\ f # At(u, i)
  BY PlaceFacts DEF Passed
<1>4. ChannelInv'
  BY <1>1, <1>2, <1>3 DEF FlowInv, ChannelInv
<1>5. SettledInv'
  <2>1. At(u, i) \in Entry
    BY PlaceFacts
  <2> QED
    BY <1>1, <1>2, <1>3, <2>1 DEF FlowInv, SettledInv, Settled
<1>6. ASSUME NEW v \in UnitId, v # u PROVE TaskInv(v)'
  <2>1. TaskInv(v) /\ UNCHANGED <<wpc[v], widx[v], wmsg[v]>> /\ EntryOf(v)' = EntryOf(v)
    BY <1>6 DEF FlowInv, EntryOf
  <2>2. \A j \in 1 .. Len(Units[v]) : At(v, j) \in Entry /\ At(v, j) # At(u, i)
    BY <1>6, PlaceFacts
  <2>3. InHand(v) => EntryOf(v) \in Entry /\ EntryOf(v) # At(u, i)
    BY <2>2, HandFacts
  <2>4. \A j \in 1 .. Len(Units[v]) : Behind(v, j)' = Behind(v, j)
    OBVIOUS
  <2> QED
    BY <1>2, <2>1, <2>2, <2>3, <2>4 DEF TaskInv, InHand
<1> QED
  BY <1>4, <1>5, <1>6 DEF FlowInv

LEMMA StartZip ==
  ASSUME CompressInv, ZipInv, NEW u \in UnitId, StartEntry(u)
  PROVE  ZipInv'
<1> USE DEF mainVars, sharedVars, writerVars, fileVars, callVars
<1> DEFINE i == widx[u] + 1
<1>0. TypeInv /\ FlowInv /\ LoopInv /\ ArchiveInv /\ Len(Units[u]) \in Nat
  BY UnitFacts DEF CompressInv, ZipInv, FlowInv
<1>1. /\ wpc[u] = "loop" /\ wpc' = [wpc EXCEPT ![u] = "read"] /\ widx' = [widx EXCEPT ![u] = i]
      /\ reported' = [reported EXCEPT ![At(u, i)] = "Started"]
      /\ UNCHANGED <<strategy, mpc, next, stoppedByCancel, wmsg, channel, archive, out, writer, msg,
                     stop, rxOpen, onDisk, leftover>>
  BY DEF StartEntry, At
<1>2. i \in 1 .. Len(Units[u]) /\ widx[u] \in Nat
  BY <1>0, UnitFacts DEF StartEntry, TypeInv
<1>3. At(u, i) \in Entry /\ ~Behind(u, i)
  BY <1>2, PlaceFacts DEF Behind
<1>4. /\ wpc'[u] = "read" /\ widx'[u] = i
      /\ \A v \in UnitId : v # u => wpc'[v] = wpc[v] /\ widx'[v] = widx[v]
  BY <1>0, <1>1 DEF TypeInv
<1>5. \A e \in Entry : reported'[e] = IF e = At(u, i) THEN "Started" ELSE reported[e]
  BY <1>0, <1>1 DEF TypeInv
<1>6. \A v \in UnitId : \A j \in 1 .. Len(Units[v]) : Behind(v, j)' = Behind(v, j)
  BY <1>1, <1>2, <1>4 DEF Behind, InHand
<1> HIDE DEF i
<1>7. TaskInv(u)'
  <2>1. TaskInv(u)
    BY <1>0 DEF FlowInv
  <2>2. EntryOf(u)' = At(u, i)
    BY <1>4 DEF EntryOf, At
  <2>3. \A j \in 1 .. Len(Units[u]) : At(u, j) \in Entry /\ (j > i => j > widx[u] /\ At(u, j) # At(u, i))
    BY <1>2, PlaceFacts DEF i
  <2>4. UNCHANGED <<Settled, Queued, Held>>
    BY <1>1 DEF Settled, Queued, Held
  <2> QED
    BY <1>1, <1>3, <1>4, <1>5, <1>6, <2>1, <2>2, <2>3, <2>4 DEF TaskInv
<1>8. FlowInv'
  BY <1>0, <1>1, <1>2, <1>3, <1>4, <1>5, <1>6, <1>7, NotPassed, HandStep
<1> QED
  BY <1>0, <1>1, <1>8, TaskKeepsLoop DEF ZipInv, FlowInv

LEMMA ReadZip ==
  ASSUME CompressInv, ZipInv, NEW u \in UnitId, NEW kind \in {"data", "failed", "fatal"},
         Read(u, kind)
  PROVE  ZipInv'
<1> USE DEF mainVars, sharedVars, writerVars, fileVars, callVars
<1>0. TypeInv /\ FlowInv /\ LoopInv /\ ArchiveInv /\ Len(Units[u]) \in Nat
  BY UnitFacts DEF CompressInv, ZipInv, FlowInv
<1>1. /\ wpc[u] = "read" /\ wpc' = [wpc EXCEPT ![u] = "send"] /\ wmsg' = [wmsg EXCEPT ![u] = kind]
      /\ reported' = IF kind = "data" THEN reported ELSE [reported EXCEPT ![EntryOf(u)] = "Failed"]
      /\ UNCHANGED <<strategy, mpc, next, stoppedByCancel, widx, channel, archive, out, writer, msg,
                     stop, rxOpen, onDisk, leftover>>
  BY DEF Read
<1>2. /\ widx[u] \in 1 .. Len(Units[u]) /\ EntryOf(u) = At(u, widx[u])
      /\ EntryOf(u) \in Entry /\ ~Passed(EntryOf(u))
  BY <1>0, <1>1, HandFacts DEF InHand
<1>3. /\ wpc'[u] = "send" /\ wmsg'[u] = kind
      /\ \A v \in UnitId : v # u => wpc'[v] = wpc[v] /\ wmsg'[v] = wmsg[v]
  BY <1>0, <1>1 DEF TypeInv
<1>4. \A e \in Entry : e # EntryOf(u) => reported'[e] = reported[e]
  BY <1>0, <1>1 DEF TypeInv
<1>5. \A v \in UnitId : \A j \in 1 .. Len(Units[v]) : Behind(v, j)' = Behind(v, j)
  BY <1>1, <1>3 DEF Behind, InHand
<1>6. TaskInv(u)'
  <2>1. TaskInv(u)
    BY <1>0 DEF FlowInv
  <2>2. EntryOf(u)' = EntryOf(u)
    BY <1>1 DEF EntryOf
  <2>3. \A j \in 1 .. Len(Units[u]) : At(u, j) \in Entry /\ (j > widx[u] => At(u, j) # EntryOf(u))
    BY <1>2, PlaceFacts
  <2>4. UNCHANGED <<Settled, Queued, Held>>
    BY <1>1 DEF Settled, Queued, Held
  <2>5. reported'[EntryOf(u)] = Said(kind)
    BY <1>0, <1>1, <1>2, <2>1 DEF TaskInv, Said, TypeInv
  <2> QED
    BY <1>1, <1>3, <1>4, <1>5, <2>1, <2>2, <2>3, <2>4, <2>5 DEF TaskInv
<1>7. FlowInv'
  BY <1>0, <1>1, <1>2, <1>3, <1>4, <1>5, <1>6, HandStep
<1> QED
  BY <1>0, <1>1, <1>7, TaskKeepsLoop DEF ZipInv, FlowInv

(* The entry a task sends goes from its hand to the end of the channel.     *)
LEMMA SendZip ==
  ASSUME CompressInv, ZipInv, NEW u \in UnitId, Send(u)
  PROVE  ZipInv'
<1> USE DEF mainVars, sharedVars, writerVars, fileVars, callVars
<1>e. PICK e : e = EntryOf(u)
  OBVIOUS
<1> DEFINE m == [entry |-> e, kind |-> wmsg[u]]  n == Len(channel) + 1
<1>0. TypeInv /\ FlowInv /\ LoopInv /\ ArchiveInv /\ TaskInv(u)
  BY DEF CompressInv, ZipInv, FlowInv
<1>1. /\ wpc[u] = "send" /\ wpc' = [wpc EXCEPT ![u] = "loop"] /\ channel' = Append(channel, m)
      /\ UNCHANGED <<strategy, mpc, next, stoppedByCancel, widx, wmsg, archive, out, writer, msg,
                     stop, rxOpen, onDisk, leftover, reported>>
  BY <1>e DEF Send
<1>2. /\ widx[u] \in 1 .. Len(Units[u]) /\ e = At(u, widx[u])
      /\ e \in Entry /\ ~Passed(e)
  BY <1>e, <1>0, <1>1, HandFacts DEF InHand
<1>3. reported[e] = Said(wmsg[u])
  BY <1>e, <1>0, <1>1 DEF TaskInv
<1>4. wpc'[u] = "loop" /\ \A v \in UnitId : v # u => wpc'[v] = wpc[v]
  BY <1>0, <1>1 DEF TypeInv
<1>5. /\ DOMAIN channel' = DOMAIN channel \cup {n} /\ n \notin DOMAIN channel
      /\ \A j \in DOMAIN channel : channel'[j] = channel[j]
      /\ channel'[n] = m
  <2>1. channel \in Seq(Message) /\ Len(channel) \in Nat /\ m \in Message
    BY <1>0, <1>2 DEF TypeInv, Message
  <2> HIDE DEF m
  <2>2. /\ DOMAIN channel' = 1 .. Len(channel) + 1 /\ DOMAIN channel = 1 .. Len(channel)
        /\ \A j \in 1 .. Len(channel) : channel'[j] = channel[j]
        /\ channel'[Len(channel) + 1] = m
    BY <1>1, <2>1
  <2> QED
    BY <2>1, <2>2
<1>6. m.entry = e /\ m.kind = wmsg[u]
  OBVIOUS
<1> HIDE DEF m, n
<1>7. Queued' = Queued \cup {e} /\ UNCHANGED <<Settled, Held>>
  BY <1>1, <1>5, <1>6 DEF Queued, Settled, Held
<1>8. \A v \in UnitId : \A j \in 1 .. Len(Units[v]) :
        Behind(v, j)' <=> Behind(v, j) \/ (v = u /\ j = widx[u])
  BY <1>1, <1>4 DEF Behind, InHand
<1>9. Passed(e)' /\ \A f : Passed(f) => Passed(f)'
  BY <1>2, <1>8 DEF Passed
<1>10. e \notin Queued \cup Settled \cup Held
  <2>1. e \notin Queued
    BY <1>0, <1>2 DEF FlowInv, ChannelInv, Queued
  <2>2. e \notin Settled
    BY <1>0, <1>2 DEF FlowInv, SettledInv
  <2>3. e \notin Held
    BY <1>0, <1>2 DEF FlowInv, ChannelInv, Held
  <2> QED
    BY <2>1, <2>2, <2>3
<1>11. ChannelInv'
  <2>1. \A i, j \in DOMAIN channel' : channel'[i].entry = channel'[j].entry => i = j
    BY <1>0, <1>5, <1>6, <1>10 DEF FlowInv, ChannelInv, Queued
  <2>2. (\A i \in DOMAIN channel : /\ Passed(channel[i].entry) /\ channel[i].entry \notin Settled
                                    /\ reported[channel[i].entry] = Said(channel[i].kind))'
    BY <1>0, <1>1, <1>3, <1>5, <1>6, <1>7, <1>9, <1>10 DEF FlowInv, ChannelInv
  <2>3. (writer = "write" => /\ msg \in Message /\ Passed(msg.entry)
                             /\ msg.entry \notin Settled \cup Queued
                             /\ reported[msg.entry] = Said(msg.kind))'
    BY <1>0, <1>1, <1>7, <1>9, <1>10 DEF FlowInv, ChannelInv, Held
  <2> QED
    BY <2>1, <2>2, <2>3 DEF ChannelInv
<1>12. SettledInv'
  BY <1>0, <1>1, <1>7, <1>9 DEF FlowInv, SettledInv
<1>13. ASSUME NEW v \in UnitId PROVE TaskInv(v)'
  <2>1. TaskInv(v) /\ EntryOf(v)' = EntryOf(v)
    BY <1>0, <1>1 DEF FlowInv, EntryOf
  <2>2. \A j \in 1 .. Len(Units[v]) : j > widx'[v] => reported'[At(v, j)] = "none"
    BY <1>1, <2>1 DEF TaskInv
  <2>3. ~stop' /\ writer' # "error" =>
          \A j \in 1 .. Len(Units[v]) : Behind(v, j)' => At(v, j) \in Settled' \cup Queued' \cup Held'
    BY <1>1, <1>2, <1>7, <1>8, <2>1 DEF TaskInv
  <2> QED
    BY <1>1, <1>4, <2>1, <2>2, <2>3 DEF TaskInv
<1> QED
  BY <1>0, <1>1, <1>11, <1>12, <1>13, TaskKeepsLoop DEF ZipInv

(* A task leaves entries behind only in a call that stopped or failed.      *)
LEMMA ExitZip ==
  ASSUME CompressInv, ZipInv, NEW u \in UnitId, ExitTask(u)
  PROVE  ZipInv'
<1> USE DEF mainVars, sharedVars, writerVars, fileVars, callVars
<1>0. TypeInv /\ FlowInv /\ LoopInv /\ ArchiveInv /\ TaskInv(u)
  BY DEF CompressInv, ZipInv, FlowInv
<1>1. /\ wpc[u] \in {"loop", "send"} /\ wpc' = [wpc EXCEPT ![u] = "done"]
      /\ UNCHANGED <<strategy, mpc, next, stoppedByCancel, widx, wmsg, channel, archive, out, writer,
                     msg, stop, rxOpen, onDisk, leftover, reported>>
  BY DEF ExitTask, LeavesLoop
<1>2. wpc'[u] = "done" /\ \A v \in UnitId : v # u => wpc'[v] = wpc[v]
  BY <1>0, <1>1 DEF TypeInv
<1>3. ~stop /\ writer # "error" => wpc[u] = "loop" /\ widx[u] = Len(Units[u])
  <2>1. ~Left
    BY <1>1 DEF Left
  <2>2. ~stop /\ writer # "error" => rxOpen
    BY <1>0, <2>1 DEF LoopInv
  <2> QED
    BY <2>2 DEF ExitTask, LeavesLoop
<1>4. \A v \in UnitId : \A j \in 1 .. Len(Units[v]) : Behind(v, j) => Behind(v, j)'
  BY <1>1, <1>2 DEF Behind, InHand
<1>5. \A f : Passed(f) => Passed(f)'
  BY <1>4 DEF Passed
<1>6. UNCHANGED <<Settled, Queued, Held>>
  BY <1>1 DEF Settled, Queued, Held
<1>7. ChannelInv' /\ SettledInv'
  BY <1>0, <1>1, <1>5, <1>6 DEF FlowInv, ChannelInv, SettledInv
<1>8. ASSUME NEW v \in UnitId PROVE TaskInv(v)'
  <2>1. TaskInv(v) /\ EntryOf(v)' = EntryOf(v)
    BY <1>0, <1>1 DEF FlowInv, EntryOf
  <2>2. ~stop /\ writer # "error" =>
          \A j \in 1 .. Len(Units[v]) : Behind(v, j)' = Behind(v, j)
    BY <1>1, <1>2, <1>3 DEF Behind, InHand
  <2> QED
    BY <1>1, <1>2, <1>3, <1>6, <2>1, <2>2 DEF TaskInv
<1> QED
  BY <1>0, <1>1, <1>7, <1>8, TaskKeepsLoop DEF ZipInv

-----------------------------------------------------------------------------
(* The writer takes the entry at the head of the channel into its hand.     *)
LEMMA ReceiveZip == ASSUME CompressInv, ZipInv, Receive PROVE ZipInv'
<1> USE DEF mainVars, sharedVars, taskVars, fileVars, callVars
<1>0. TypeInv /\ FlowInv /\ LoopInv /\ ArchiveInv
  BY DEF CompressInv, ZipInv, FlowInv
<1>1. /\ writer = "recv" /\ writer' = "write" /\ channel # <<>>
      /\ msg' = Head(channel) /\ channel' = Tail(channel)
      /\ UNCHANGED <<strategy, mpc, next, stoppedByCancel, wpc, widx, wmsg, archive, out, stop,
                     rxOpen, onDisk, leftover, reported>>
  BY DEF Receive
<1>2. /\ 1 \in DOMAIN channel /\ msg' = channel[1] /\ msg' \in Message
      /\ \A i \in DOMAIN channel' : i + 1 \in DOMAIN channel /\ i + 1 # 1
                                    /\ channel'[i] = channel[i + 1]
      /\ \A i \in DOMAIN channel : i = 1 \/ (i - 1 \in DOMAIN channel' /\ channel'[i - 1] = channel[i])
      /\ \A i, j \in DOMAIN channel' : i + 1 = j + 1 => i = j
  <2>1. channel \in Seq(Message) /\ Len(channel) \in Nat /\ Len(channel) > 0
    BY <1>0, <1>1 DEF TypeInv
  <2>2. /\ DOMAIN channel = 1 .. Len(channel) /\ DOMAIN channel' = 1 .. Len(channel) - 1
        /\ Head(channel) = channel[1]
        /\ \A i \in 1 .. Len(channel) - 1 : channel'[i] = channel[i + 1]
    BY <1>1, <2>1
  <2>3. channel[1] \in Message
    BY <2>1
  <2> QED
    BY <1>1, <2>1, <2>2, <2>3
<1>3. Queued = Queued' \cup {msg'.entry} /\ Held = {} /\ Held' = {msg'.entry} /\ Settled' = Settled
  BY <1>1, <1>2 DEF Queued, Held, Settled
<1>4. \A v \in UnitId : InHand(v)' = InHand(v) /\ EntryOf(v)' = EntryOf(v)
  BY <1>1 DEF InHand, EntryOf
<1>5. \A v \in UnitId : \A j \in 1 .. Len(Units[v]) : Behind(v, j)' = Behind(v, j)
  BY <1>1, <1>4 DEF Behind
<1>6. \A f : Passed(f)' = Passed(f)
  BY <1>5 DEF Passed
<1>7. msg'.entry \notin Queued'
  BY <1>0, <1>2 DEF FlowInv, ChannelInv, Queued
<1>8. ChannelInv'
  <2>1. \A i, j \in DOMAIN channel' : channel'[i].entry = channel'[j].entry => i = j
    BY <1>0, <1>2 DEF FlowInv, ChannelInv
  <2>2. (\A i \in DOMAIN channel : /\ Passed(channel[i].entry) /\ channel[i].entry \notin Settled
                                    /\ reported[channel[i].entry] = Said(channel[i].kind))'
    BY <1>0, <1>1, <1>2, <1>3, <1>6 DEF FlowInv, ChannelInv
  <2>3. (/\ Passed(msg.entry) /\ msg.entry \notin Settled \cup Queued
         /\ reported[msg.entry] = Said(msg.kind))'
    BY <1>0, <1>1, <1>2, <1>3, <1>6, <1>7 DEF FlowInv, ChannelInv
  <2> QED
    BY <1>2, <2>1, <2>2, <2>3 DEF ChannelInv
<1>9. SettledInv'
  BY <1>0, <1>1, <1>3, <1>6 DEF FlowInv, SettledInv
<1>10. ASSUME NEW v \in UnitId PROVE TaskInv(v)'
  <2>1. TaskInv(v)
    BY <1>0 DEF FlowInv
  <2> QED
    BY <1>1, <1>3, <1>4, <1>5, <2>1 DEF TaskInv
<1>11. LoopInv' /\ ArchiveInv'
  BY <1>0, <1>1 DEF LoopInv, ArchiveInv, Left
<1> QED
  BY <1>8, <1>9, <1>10, <1>11 DEF ZipInv

(* The entry in the writer's hand ends in the archive or in the failures.   *)
LEMMA HandSettled ==
  ASSUME TypeInv, FlowInv, writer = "write", ~stop, writer' \in {"recv", "finish"},
         UNCHANGED <<wpc, widx, wmsg, channel>>,
         \A e \in Entry : e # msg.entry => reported'[e] = reported[e],
         \/ /\ archive' = archive \cup {msg.entry} /\ out'.failed = out.failed
            /\ reported'[msg.entry] = "Completed"
         \/ /\ archive' = archive /\ out'.failed = out.failed \cup {msg.entry}
            /\ reported'[msg.entry] = "Failed"
  PROVE  FlowInv'
<1> DEFINE e == msg.entry
<1>1. e \in Entry /\ Passed(e) /\ e \notin Settled /\ e \notin Queued
  BY DEF FlowInv, ChannelInv, Message
<1>2. \A f \in Entry : f # e => reported'[f] = reported[f]
  OBVIOUS
<1>3. \/ archive' = archive \cup {e} /\ out'.failed = out.failed /\ reported'[e] = "Completed"
      \/ archive' = archive /\ out'.failed = out.failed \cup {e} /\ reported'[e] = "Failed"
  OBVIOUS
<1>4. Settled' = Settled \cup {e} /\ Queued' = Queued /\ Held = {e} /\ Held' = {}
  BY <1>3 DEF Settled, Queued, Held
<1> HIDE DEF e
<1>5. \A v \in UnitId : InHand(v)' = InHand(v) /\ EntryOf(v)' = EntryOf(v)
  BY DEF InHand, EntryOf
<1>6. \A v \in UnitId : \A j \in 1 .. Len(Units[v]) : Behind(v, j)' = Behind(v, j)
  BY <1>5 DEF Behind
<1>7. \A f : Passed(f)' = Passed(f)
  BY <1>6 DEF Passed
<1>8. \A f : Passed(f) => f \in Entry
  BY PlaceFacts DEF Passed
<1>9. ChannelInv'
  <2>1. \A i \in DOMAIN channel : channel[i].entry # e
    BY <1>1 DEF Queued
  <2>2. (\A i, j \in DOMAIN channel : channel[i].entry = channel[j].entry => i = j)'
    BY DEF FlowInv, ChannelInv
  <2>3. (\A i \in DOMAIN channel : /\ Passed(channel[i].entry) /\ channel[i].entry \notin Settled
                                    /\ reported[channel[i].entry] = Said(channel[i].kind))'
    BY <1>2, <1>4, <1>7, <1>8, <2>1 DEF FlowInv, ChannelInv
  <2> QED
    BY <2>2, <2>3 DEF ChannelInv
<1>10. SettledInv'
  <2>1. \A f \in Settled' : Passed(f)'
    BY <1>1, <1>4, <1>7 DEF FlowInv, SettledInv
  <2>2. \A f \in archive : f \in Entry /\ f # e /\ reported[f] = "Completed"
    BY <1>1, <1>8 DEF FlowInv, SettledInv, Settled
  <2>3. \A f \in out.failed : f \in Entry /\ f # e /\ reported[f] = "Failed"
    BY <1>1, <1>8 DEF FlowInv, SettledInv, Settled
  <2>4. \A f \in Entry : reported'[f] # "none" =>
          \E u \in UnitId : \E i \in 1 .. Len(Units[u]) : f = At(u, i)
    BY <1>1, <1>2 DEF FlowInv, SettledInv, Passed
  <2> QED
    BY <1>2, <1>3, <2>1, <2>2, <2>3, <2>4 DEF SettledInv
<1>11. ASSUME NEW v \in UnitId PROVE TaskInv(v)'
  <2>1. TaskInv(v)
    BY DEF FlowInv
  <2>2. \A j \in 1 .. Len(Units[v]) : At(v, j) \in Entry
    BY PlaceFacts
  <2>3. \A j \in 1 .. Len(Units[v]) : j > widx[v] => At(v, j) # e
    <3>1. widx[v] \in Nat
      BY DEF TypeInv
    <3>2. \A j \in 1 .. Len(Units[v]) : j > widx[v] => ~Behind(v, j)
      BY <3>1 DEF Behind
    <3> QED
      BY <1>1, <3>2, NotPassed
  <2>4. InHand(v) => EntryOf(v) \in Entry /\ EntryOf(v) # e
    BY <1>1, HandFacts
  <2>5. (\A j \in 1 .. Len(Units[v]) : j > widx[v] => reported[At(v, j)] = "none")'
    BY <1>2, <2>1, <2>2, <2>3 DEF TaskInv
  <2>6. (/\ wpc[v] = "read" => reported[EntryOf(v)] = "Started"
         /\ wpc[v] = "send" => reported[EntryOf(v)] = Said(wmsg[v]))'
    BY <1>2, <1>5, <2>1, <2>4 DEF TaskInv, InHand
  <2>7. (/\ ~stop /\ writer # "error" /\ wpc[v] = "done" => widx[v] = Len(Units[v])
         /\ ~stop /\ writer # "error" =>
              \A j \in 1 .. Len(Units[v]) : Behind(v, j) => At(v, j) \in Settled \cup Queued \cup Held)'
    BY <1>4, <1>6, <2>1 DEF TaskInv
  <2> QED
    BY <2>5, <2>6, <2>7 DEF TaskInv
<1> QED
  BY <1>9, <1>10, <1>11 DEF FlowInv

LEMMA WriteZip == ASSUME CompressInv, ZipInv, WriteEntry PROVE ZipInv'
<1> USE DEF mainVars, sharedVars, taskVars, callVars
<1>0. TypeInv /\ FlowInv /\ LoopInv /\ ArchiveInv /\ msg.entry \in Entry
  BY DEF CompressInv, ZipInv, FlowInv, WriteEntry, ChannelInv, Message
<1>1. /\ writer = "write" /\ writer' = "recv" /\ archive' = archive \cup {msg.entry}
      /\ reported' = [reported EXCEPT ![msg.entry] = "Completed"]
      /\ UNCHANGED <<strategy, mpc, next, stoppedByCancel, wpc, widx, wmsg, channel, stop, rxOpen,
                     onDisk, leftover>>
  BY DEF WriteEntry
<1>2. /\ out'.succeeded = out.succeeded \cup {msg.entry} /\ out'.failed = out.failed
      /\ out'.stoppedEarly = out.stoppedEarly
  BY <1>0 DEF WriteEntry, TypeInv, OutType
<1>3. LoopInv'
  BY <1>0, <1>1, <1>2 DEF LoopInv, Left
<1>4. ArchiveInv'
  BY <1>0, <1>1, <1>2 DEF ArchiveInv
<1>5. /\ reported'[msg.entry] = "Completed" /\ ~stop
      /\ \A e \in Entry : e # msg.entry => reported'[e] = reported[e]
  BY <1>0, <1>1 DEF TypeInv, LoopInv
<1>6. FlowInv'
  BY <1>0, <1>1, <1>2, <1>5, HandSettled
<1> QED
  BY <1>3, <1>4, <1>6 DEF ZipInv, FlowInv

LEMMA FailZip == ASSUME CompressInv, ZipInv, FailEntry PROVE ZipInv'
<1> USE DEF mainVars, taskVars, fileVars, callVars
<1> DEFINE reason == FailureReason(strategy, msg.kind = "fatal")
<1>0. TypeInv /\ FlowInv /\ LoopInv /\ ArchiveInv /\ msg.entry \in Entry
  BY DEF CompressInv, ZipInv, FlowInv, FailEntry, ChannelInv, Message
<1>1. /\ writer = "write" /\ writer' = (IF reason = None THEN "recv" ELSE "finish")
      /\ stop' = (stop \/ reason # None)
      /\ out' = [out EXCEPT !.failed = @ \cup {msg.entry}, !.stoppedEarly = reason]
      /\ reported' = [reported EXCEPT ![msg.entry] = "Failed"]
      /\ UNCHANGED <<strategy, mpc, next, stoppedByCancel, wpc, widx, wmsg, channel, rxOpen, archive,
                     onDisk, leftover>>
  BY DEF FailEntry, StopFlag
<1>2. reason \in FailureReasons \cup {None}
  BY <1>0 DEF FailureReason, StrategyReason, TypeInv, Strategies, FailureReasons, None
<1> HIDE DEF reason
<1>3. /\ out'.succeeded = out.succeeded /\ out'.failed = out.failed \cup {msg.entry}
      /\ out'.stoppedEarly = reason
  BY <1>0, <1>1 DEF TypeInv, OutType
<1>4. ~stop /\ (stop' <=> out'.stoppedEarly \in FailureReasons) /\ stop' \in BOOLEAN
      /\ out'.stoppedEarly # "Cancelled"
  BY <1>0, <1>1, <1>2, <1>3 DEF LoopInv, FailureReasons, None
<1>5. LoopInv'
  BY <1>0, <1>1, <1>3, <1>4 DEF LoopInv, Left
<1>6. ArchiveInv'
  BY <1>0, <1>1, <1>3 DEF ArchiveInv
<1>7. /\ reported'[msg.entry] = "Failed"
      /\ \A e \in Entry : e # msg.entry => reported'[e] = reported[e]
  BY <1>0, <1>1 DEF TypeInv
<1>8. FlowInv'
  BY <1>0, <1>1, <1>3, <1>4, <1>7, HandSettled
<1> QED
  BY <1>5, <1>6, <1>8 DEF ZipInv, FlowInv

-----------------------------------------------------------------------------
LEMMA CompressStep == ASSUME CompressInv, [Next]_vars PROVE CompressInv'
<1>1. TypeInv' /\ PermitInv'
  BY TypeStep, PermitStep
<1>2. CASE format # "Zip"
  BY <1>1, <1>2, GzipStep DEF CompressInv
<1>3. CASE format = "Zip"
  <2>1. ZipInv /\ mpc \in {"check", "acquire", "arm", "join", "await", "returned"}
    BY <1>3 DEF CompressInv, ZipInv, LoopInv
  <2>2. ~Begin /\ ~Gzip
    BY <2>1 DEF Begin, Gzip, GzipStart, GzipCreate, GzipStream
  <2>3. format' = format
    BY <2>2 DEF Next, Main, Writer, Task, CheckStop, SelectCancelled, SelectPermit, Arm, Join, Settle,
                CreateArchive, Receive, ChannelClosed, WriteEntry, FailEntry, Finish, Cancel, Returned,
                StartEntry, Read, Send, ExitTask, vars, mainVars, callVars
  <2>4. ASSUME \/ CheckStop \/ SelectCancelled \/ SelectPermit \/ Arm \/ Join \/ Settle \/ Cancel
               \/ Returned \/ UNCHANGED vars \/ CreateArchive \/ ChannelClosed \/ Finish
        PROVE  ZipInv'
    BY <2>1, <2>4, QuietZip
  <2>5. ASSUME Receive PROVE ZipInv'
    BY <2>1, <2>5, ReceiveZip
  <2>6. ASSUME WriteEntry PROVE ZipInv'
    BY <2>1, <2>6, WriteZip
  <2>7. ASSUME FailEntry PROVE ZipInv'
    BY <2>1, <2>7, FailZip
  <2>8. ASSUME NEW u \in UnitId, Task(u) PROVE ZipInv'
    BY <2>1, <2>8, StartZip, ReadZip, SendZip, ExitZip DEF Task
  <2>9. ZipInv'
    BY <2>2, <2>4, <2>5, <2>6, <2>7, <2>8 DEF Next, Main, Writer
  <2> QED
    BY <1>1, <1>3, <2>3, <2>9 DEF CompressInv
<1> QED
  BY <1>2, <1>3

(* The whole of it: permits, the phases of the four processes, and the way  *)
(* of every entry from its task to the archive or to the failures.          *)
THEOREM CompressInvariant == Spec => []CompressInv
<1>1. Init => CompressInv
  BY CompressInit
<1>2. CompressInv /\ [Next]_vars => CompressInv'
  BY CompressStep
<1> QED
  BY <1>1, <1>2, PTL DEF Spec

(* Compress!MemoryBounded for every plan and every concurrency: the files   *)
(* in memory are those queued and those in the hands of running tasks, and  *)
(* a permit is never lost or spent twice.                                   *)
THEOREM MemoryIsBounded == Spec => []MemoryBounded
<1>1. ASSUME CompressInv PROVE MemoryBounded
  <2> DEFINE Sending == {u \in UnitId : wpc[u] = "send"}
  <2>1. PermitInv /\ channel \in Seq(Message)
    BY <1>1 DEF CompressInv, TypeInv
  <2>2. Sending \subseteq Running
    BY DEF Running
  <2>3. Cardinality(Sending) \in Nat /\ Cardinality(Sending) <= Cardinality(Running)
    BY <2>2, RunningIsFinite, FS_Subset, FS_CardinalityType
  <2> HIDE DEF Sending
  <2>4. Len(channel) + Cardinality(Sending) <= Permits + Cardinality(Running)
    BY <2>1, <2>3, RunningIsFinite, PermitsIsNat DEF PermitInv
  <2> QED
    BY <2>1, <2>4 DEF MemoryBounded, PermitInv, Sending
<1> QED
  BY <1>1, CompressInvariant, PTL

-----------------------------------------------------------------------------
LEMMA ScannedIs == Scanned = {e \in Entry : \E u \in UnitId : \E i \in 1 .. Len(Units[u]) : e = At(u, i)}
<1>1. \A u \in UnitId : DOMAIN Units[u] = 1 .. Len(Units[u])
  BY UnitFacts
<1>2. \A e : e \in Scanned <=> \E u \in UnitId : \E i \in 1 .. Len(Units[u]) : e = At(u, i)
  BY <1>1 DEF Scanned, ToSet, At
<1> QED
  BY <1>2, PlaceFacts

(* Once every task has ended without a stop, every entry has gone its way   *)
(* to the end.                                                              *)
LEMMA AllArrived ==
  ASSUME CompressInv, ZipInv, writer = "done", mpc = "returned", ~stop
  PROVE  /\ channel = <<>>
         /\ \A u \in UnitId : \A i \in 1 .. Len(Units[u]) : Behind(u, i) => At(u, i) \in Settled
         /\ \A u \in UnitId : \A i \in 1 .. Len(Units[u]) : ~Behind(u, i) => reported[At(u, i)] = "none"
         /\ ~stoppedByCancel => \A u \in UnitId : \A i \in 1 .. Len(Units[u]) : Behind(u, i)
<1>1. channel = <<>> /\ Left /\ (~stoppedByCancel => next > Len(Units))
  BY DEF ZipInv, LoopInv
<1>2. Queued = {} /\ Held = {}
  BY <1>1 DEF Queued, Held
<1>3. \A u \in UnitId : TaskInv(u) /\ ~InHand(u) /\ widx[u] \in Nat
  BY <1>1 DEF ZipInv, CompressInv, TypeInv, Left, InHand
<1>4. ASSUME NEW u \in UnitId, NEW i \in 1 .. Len(Units[u])
      PROVE  /\ Behind(u, i) => At(u, i) \in Settled
             /\ ~Behind(u, i) => reported[At(u, i)] = "none"
  <2>1. ~Behind(u, i) => i > widx[u]
    BY <1>3 DEF Behind
  <2> QED
    BY <1>2, <1>3, <2>1 DEF TaskInv
<1>5. ASSUME ~stoppedByCancel, NEW u \in UnitId, NEW i \in 1 .. Len(Units[u]) PROVE Behind(u, i)
  <2>1. wpc[u] = "done"
    BY <1>1, <1>5 DEF CompressInv, TypeInv, Left, UnitId
  <2>2. widx[u] = Len(Units[u])
    BY <1>3, <2>1 DEF TaskInv
  <2> QED
    BY <1>3, <2>2, UnitFacts DEF Behind
<1> QED
  BY <1>1, <1>4, <1>5

(* Compress!ArchiveMatchesOutcome for every plan, concurrency and strategy: *)
(* what the outcome claims is what the archive file holds.                  *)
THEOREM ArchiveIsTheOutcome == Spec => []ArchiveMatchesOutcome
<1>1. ASSUME CompressInv, Answered PROVE
        /\ out.stoppedEarly = None => out.succeeded \cup out.failed = Planned
        /\ IF out.stoppedEarly # None /\ StrategyReason(strategy) # None
           THEN out.succeeded = {} /\ (onDisk => leftover)
           ELSE onDisk /\ archive = out.succeeded
  <2>1. CASE format # "Zip"
    <3>1. GzipInv /\ mpc = "returned"
      BY <1>1, <2>1 DEF CompressInv, Answered
    <3>2. IsGzip /\ archive = {TheFile} /\ out = [EmptyOutcome EXCEPT !.succeeded = {TheFile}] /\ onDisk
      BY <3>1 DEF GzipInv
    <3> QED
      BY <3>2 DEF EmptyOutcome, Planned
  <2>2. CASE format = "Zip"
    <3>1. ZipInv /\ writer = "done" /\ mpc = "returned"
      BY <1>1, <2>2 DEF CompressInv, Answered, IsGzip
    <3>2. IF out.stoppedEarly # None /\ StrategyReason(strategy) # None
           THEN out.succeeded = {} /\ (onDisk => leftover)
           ELSE onDisk /\ archive = out.succeeded
      BY <3>1 DEF ZipInv, ArchiveInv, Discards
    <3>3. ASSUME out.stoppedEarly = None PROVE out.succeeded \cup out.failed = Planned
      <4>1. ~stop /\ ~stoppedByCancel
        BY <3>1, <3>3 DEF ZipInv, LoopInv, FailureReasons, None
      <4>2. Settled = out.succeeded \cup out.failed
        BY <3>2, <3>3 DEF Settled
      <4>3. \A u \in UnitId : \A i \in 1 .. Len(Units[u]) : At(u, i) \in Settled
        BY <1>1, <3>1, <4>1, AllArrived
      <4>4. \A e \in Settled : Passed(e)
        BY <3>1 DEF ZipInv, SettledInv
      <4>5. Settled = Scanned
        BY <4>3, <4>4, ScannedIs, PlaceFacts DEF Passed
      <4> QED
        BY <2>2, <4>2, <4>5 DEF Planned, IsGzip
    <3> QED
      BY <3>2, <3>3
  <2> QED
    BY <2>1, <2>2
<1>2. CompressInv => ArchiveMatchesOutcome
  BY <1>1 DEF ArchiveMatchesOutcome
<1> QED
  BY <1>2, CompressInvariant, PTL

(* Compress!CancelLosesNothing for every plan: a call that answers with an   *)
(* outcome, and that no failure stopped, has announced what became of each  *)
(* file it started, cancelled or not; a gzip that answers an Err has        *)
(* announced its failure.  A zip that answers an Err, since the archive     *)
(* could not be created or finished, has not (write_archive).               *)
THEOREM StartedIsAnswered == Spec => []CancelLosesNothing
<1>1. ASSUME CompressInv, Answered, ~stop
      PROVE  Announced("Started") = {} /\ Announced("Failed") = out.failed
  <2>1. CASE format # "Zip"
    <3>1. GzipInv /\ mpc = "returned"
      BY <1>1, <2>1 DEF CompressInv, Answered
    <3>2. Says("Completed") /\ out = [EmptyOutcome EXCEPT !.succeeded = {TheFile}]
      BY <3>1 DEF GzipInv
    <3> QED
      BY <3>2 DEF Announced, Says, EmptyOutcome
  <2>2. CASE format = "Zip"
    <3>1. ZipInv /\ SettledInv /\ writer = "done" /\ mpc = "returned"
      BY <1>1, <2>2 DEF CompressInv, ZipInv, Answered, IsGzip
    <3>2. ASSUME NEW e \in Entry, reported[e] # "none" PROVE e \in Settled
      <4>1. PICK u \in UnitId : \E i \in 1 .. Len(Units[u]) : e = At(u, i)
        BY <3>1, <3>2 DEF SettledInv
      <4>2. PICK i \in 1 .. Len(Units[u]) : e = At(u, i)
        BY <4>1
      <4> QED
        BY <1>1, <3>1, <3>2, <4>2, AllArrived
    <3>3. \A e \in Entry : reported[e] # "none" => e \in archive \/ e \in out.failed
      BY <3>2 DEF Settled
    <3>4. out.failed \subseteq Entry
      BY <1>1 DEF CompressInv, TypeInv, OutType
    <3> QED
      BY <3>1, <3>3, <3>4 DEF Announced, SettledInv
  <2> QED
    BY <2>1, <2>2
<1>2. ASSUME CompressInv, mpc = "error"
      PROVE  /\ Announced("Started") = {} /\ Announced("Completed") = {}
             /\ onDisk => Announced("Failed") = Planned
  <2>1. GzipInv
    BY <1>2 DEF CompressInv, ZipInv, LoopInv
  <2>2. CASE Untouched
    BY <2>2 DEF Untouched, Announced
  <2>3. CASE IsGzip /\ Units # <<>> /\ Says("Failed")
    BY <2>3, TheFileIsEntry DEF Says, Announced, Planned
  <2> QED
    BY <1>2, <2>1, <2>2, <2>3 DEF GzipInv
<1>3. CompressInv => CancelLosesNothing
  BY <1>1, <1>2 DEF CancelLosesNothing
<1> QED
  BY <1>3, CompressInvariant, PTL
=============================================================================

------------------------------ MODULE Compress ------------------------------
(***************************************************************************)
(* operations/compress.rs: zip a tree.  Unit tasks read files in parallel   *)
(* and send them through a bounded channel to one blocking writer, which    *)
(* owns the archive and the outcome.  Processes: the loop that spawns the   *)
(* tasks, the tasks, the writer, and the caller who may cancel.             *)
(*                                                                          *)
(* The gzip form is one blocking call on one file, which nobody interrupts. *)
(***************************************************************************)
EXTENDS Outcomes, SequencesExt

CONSTANTS
  Entry,        (* Entries of the scanned source.                           *)
  Units,        (* Their grouping into units, in spawn order.               *)
  Concurrency   (* The builder's .batch_concurrency(n).                     *)

ASSUME CompressAssumption ==
  /\ Units \in Seq(Seq(Entry) \ {<<>>}) /\ Concurrency \in Nat
  /\ \A u, v \in DOMAIN Units : \A i \in DOMAIN Units[u], j \in DOMAIN Units[v] :
       Units[u][i] = Units[v][j] => u = v /\ i = j

VARIABLES
  strategy,         (* ErrorStrategy of the call.                           *)
  format,           (* The format of the archive, "none" until it is chosen. *)
  mpc,              (* Where the spawning loop is.                          *)
  next,             (* The unit it handles.                                 *)
  permits,          (* Free permits of the semaphore.                       *)
  stop,             (* The shared AtomicBool.                               *)
  cancelled,        (* The caller's token.                                  *)
  stoppedByCancel,  (* The loop left because of it.                         *)
  wpc,              (* Where each unit's task is.                           *)
  widx,             (* The entry it is on.                                  *)
  wmsg,             (* The kind of message it has to send.                  *)
  channel,          (* Messages in the channel.                             *)
  rxOpen,           (* Does the writer still hold its receiver?             *)
  writer,           (* Where the writer is.                                 *)
  msg,              (* The message in the writer's hand.                    *)
  out,              (* The outcome.                                         *)
  archive,          (* Entries whole in the archive file.                   *)
  onDisk,           (* Is there an archive file?                            *)
  leftover,         (* Did a remove_file of the archive fail (ignored)?     *)
  reported          (* Last event sent for each entry.                      *)

callVars   == <<strategy, format>>
mainVars   == <<callVars, mpc, next, stoppedByCancel>>
sharedVars == <<permits, stop, cancelled>>
taskVars   == <<wpc, widx, wmsg>>
writerVars == <<rxOpen, writer, msg>>
fileVars   == <<archive, onDisk, leftover>>
vars == <<mainVars, sharedVars, taskVars, channel, writerVars, out, fileVars, reported>>

UnitId == 1 .. Len(Units)
Permits == IF Concurrency = 0 THEN 1 ELSE Concurrency

Capacity_Unbounded == 10 * Permits
Capacity == Permits

EntryOf(u) == Units[u][widx[u]]
Scanned    == UNION {ToSet(Units[u]) : u \in UnitId}
Message    == [entry : Entry, kind : {"data", "failed", "fatal"}]

Init ==
  /\ strategy \in Strategies
  /\ format = "none"
  /\ mpc = "format" /\ next = 1 /\ stoppedByCancel = FALSE
  /\ permits = Permits /\ stop = FALSE /\ cancelled = FALSE
  /\ wpc = [u \in UnitId |-> "unspawned"] /\ widx = [u \in UnitId |-> 0]
  /\ wmsg = [u \in UnitId |-> "data"]
  /\ channel = <<>> /\ rxOpen = TRUE /\ writer = "create" /\ msg = <<>>
  /\ out = EmptyOutcome
  /\ archive = {} /\ onDisk = FALSE /\ leftover = FALSE
  /\ reported = [e \in Entry |-> "none"]

-----------------------------------------------------------------------------
(* compress(): the builder's format, or infer_format from the name.         *)
Formats(asked, suffix) ==
  IF asked # {} THEN asked
  ELSE CASE suffix = "zip" -> {"Zip"} [] suffix = "gz" -> {"Gzip"} [] OTHER -> {}
IsGzip == format = "Gzip"

(* What the call has to put into the archive.                               *)
TheFile == Units[1][1]
Planned == IF IsGzip THEN {TheFile} ELSE Scanned

(* An unknown format, a directory for gzip, and a failing scan or metadata  *)
(* call end it with an Err before there is any event or file.  A source     *)
(* without entries is a directory.                                          *)
Begin ==
  /\ mpc = "format"
  /\ \E asked \in {{}, {"Zip"}, {"Gzip"}}, suffix \in {"zip", "gz", "other"}, isDir \in BOOLEAN :
       \/ mpc' = "error" /\ UNCHANGED format
       \/ /\ format' \in Formats(asked, suffix)
          /\ format' = "Gzip" => ~isDir /\ Units # <<>>
          /\ mpc' = IF format' = "Gzip" THEN "gzip" ELSE "check"
  /\ UNCHANGED <<strategy, next, stoppedByCancel, sharedVars, taskVars, channel, writerVars,
                 out, fileVars, reported>>

(* compress_gzip_blocking, which never looks at the token: the metadata may *)
(* fail still, and after the announcement so may opening the source.        *)
GzipStart ==
  /\ mpc = "gzip"
  /\ \/ mpc' = "error" /\ UNCHANGED reported
     \/ mpc' = "open" /\ reported' = [reported EXCEPT ![TheFile] = "Started"]
  /\ UNCHANGED <<callVars, next, stoppedByCancel, sharedVars, taskVars, channel, writerVars,
                 out, fileVars>>

(* Any failure is announced and answered; what was written stays.           *)
GzipFailed == mpc' = "error" /\ reported' = [reported EXCEPT ![TheFile] = "Failed"]

GzipCreate ==
  /\ mpc = "open"
  /\ \/ GzipFailed /\ UNCHANGED onDisk
     \/ mpc' = "stream" /\ onDisk' = TRUE /\ UNCHANGED reported
  /\ UNCHANGED <<callVars, next, stoppedByCancel, sharedVars, taskVars, channel, writerVars,
                 out, archive, leftover>>

GzipEnds_Unfinished == archive
GzipEnds == archive \cup {TheFile}

GzipStream ==
  /\ mpc = "stream"
  /\ \/ GzipFailed /\ UNCHANGED <<out, archive>>
     \/ /\ mpc' = "returned" /\ archive' = GzipEnds
        /\ out' = [out EXCEPT !.succeeded = {TheFile}]
        /\ reported' = [reported EXCEPT ![TheFile] = "Completed"]
  /\ UNCHANGED <<callVars, next, stoppedByCancel, sharedVars, taskVars, channel, writerVars,
                 onDisk, leftover>>

Gzip == GzipStart \/ GzipCreate \/ GzipStream

-----------------------------------------------------------------------------
(* The caller and the spawning loop.                                        *)
(* cancel() may be called again and again.                                  *)
Cancel ==
  /\ mpc \notin {"returned", "error"}
  /\ cancelled' = TRUE
  /\ UNCHANGED <<mainVars, permits, stop, taskVars, channel, writerVars, out, fileVars, reported>>

CheckStop ==
  /\ mpc = "check"
  /\ mpc' = IF next > Len(Units) \/ stop THEN "join" ELSE "acquire"
  /\ UNCHANGED <<callVars, next, stoppedByCancel, sharedVars, taskVars, channel, writerVars,
                 out, fileVars, reported>>

SelectCancelled ==
  /\ mpc = "acquire" /\ cancelled
  /\ stoppedByCancel' = TRUE /\ mpc' = "join"
  /\ UNCHANGED <<callVars, next, sharedVars, taskVars, channel, writerVars, out, fileVars, reported>>

SelectPermit ==
  /\ mpc = "acquire" /\ ~cancelled /\ permits > 0
  /\ permits' = permits - 1 /\ mpc' = "arm"
  /\ UNCHANGED <<callVars, next, stoppedByCancel, stop, cancelled, taskVars, channel,
                 writerVars, out, fileVars, reported>>

(* The second look at the flag; nothing is awaited before the spawn.        *)
Arm ==
  /\ mpc = "arm"
  /\ IF stop
     THEN mpc' = "join" /\ permits' = permits + 1 /\ UNCHANGED <<next, wpc>>
     ELSE /\ wpc' = [wpc EXCEPT ![next] = "loop"]
          /\ next' = next + 1 /\ mpc' = "check" /\ UNCHANGED permits
  /\ UNCHANGED <<callVars, stoppedByCancel, stop, cancelled, widx, wmsg, channel,
                 writerVars, out, fileVars, reported>>

(* drop(tx) happens on leaving the loop; then every task is joined.         *)
Join ==
  /\ mpc = "join" /\ \A u \in UnitId : wpc[u] \in {"unspawned", "done"}
  /\ mpc' = "await"
  /\ UNCHANGED <<callVars, next, stoppedByCancel, sharedVars, taskVars, channel, writerVars,
                 out, fileVars, reported>>

Discards_FailuresOnly(reason) == StrategyReason(strategy) # None /\ reason \notin {None, "Cancelled"}
Discards(reason) == StrategyReason(strategy) # None /\ reason # None

CancelReason ==
  IF stoppedByCancel /\ out.stoppedEarly = None THEN "Cancelled" ELSE out.stoppedEarly

(* The writer cannot see a cancellation: its cleanup is redone for one.     *)
Settle ==
  /\ mpc = "await" /\ writer \in {"done", "error"}
  /\ mpc' = "returned"
  /\ IF writer = "done" /\ CancelReason # out.stoppedEarly
     THEN /\ out' = [out EXCEPT !.stoppedEarly = CancelReason,
                                !.succeeded = IF Discards(CancelReason) THEN {} ELSE @]
          /\ IF Discards(CancelReason)
             THEN \E removed \in BOOLEAN : onDisk' = ~removed /\ leftover' = ~removed
             ELSE UNCHANGED <<onDisk, leftover>>
     ELSE UNCHANGED <<out, onDisk, leftover>>
  /\ UNCHANGED <<callVars, next, stoppedByCancel, sharedVars, taskVars, channel, writerVars,
                 archive, reported>>

-----------------------------------------------------------------------------
(* A unit's task.                                                           *)
StartEntry(u) ==
  /\ wpc[u] = "loop" /\ widx[u] < Len(Units[u]) /\ ~stop
  /\ widx' = [widx EXCEPT ![u] = @ + 1]
  /\ wpc' = [wpc EXCEPT ![u] = "read"]
  /\ reported' = [reported EXCEPT ![Units[u][widx[u] + 1]] = "Started"]
  /\ UNCHANGED <<mainVars, sharedVars, wmsg, channel, writerVars, out, fileVars>>

(* A failed read is announced by the task, not by the writer.               *)
Read(u, kind) ==
  /\ wpc[u] = "read"
  /\ wmsg' = [wmsg EXCEPT ![u] = kind]
  /\ wpc' = [wpc EXCEPT ![u] = "send"]
  /\ reported' = IF kind = "data" THEN reported ELSE [reported EXCEPT ![EntryOf(u)] = "Failed"]
  /\ UNCHANGED <<mainVars, sharedVars, widx, channel, writerVars, out, fileVars>>

Send(u) ==
  /\ wpc[u] = "send" /\ rxOpen /\ Len(channel) < Capacity
  /\ channel' = Append(channel, [entry |-> EntryOf(u), kind |-> wmsg[u]])
  /\ wpc' = [wpc EXCEPT ![u] = "loop"]
  /\ UNCHANGED <<mainVars, sharedVars, widx, wmsg, writerVars, out, fileVars, reported>>

(* The end of the unit, a raised flag, or a send after the receiver went.   *)
LeavesLoop_OnCancel(u) ==
  \/ wpc[u] = "loop" /\ (widx[u] = Len(Units[u]) \/ stop)
  \/ wpc[u] = "send" /\ (~rxOpen \/ cancelled)
LeavesLoop(u) ==
  \/ wpc[u] = "loop" /\ (widx[u] = Len(Units[u]) \/ stop)
  \/ wpc[u] = "send" /\ ~rxOpen

ExitTask(u) ==
  /\ LeavesLoop(u)
  /\ wpc' = [wpc EXCEPT ![u] = "done"] /\ permits' = permits + 1
  /\ UNCHANGED <<mainVars, stop, cancelled, widx, wmsg, channel, writerVars, out, fileVars,
                 reported>>

-----------------------------------------------------------------------------
(* write_archive, on a blocking thread.                                     *)
CreateArchive ==
  /\ writer = "create" /\ ~IsGzip /\ mpc \notin {"format", "error"}
  /\ \/ writer' = "recv" /\ onDisk' = TRUE /\ UNCHANGED <<rxOpen, channel>>
     \/ writer' = "error" /\ rxOpen' = FALSE /\ channel' = <<>> /\ UNCHANGED onDisk
  /\ UNCHANGED <<mainVars, sharedVars, taskVars, msg, out, archive, leftover, reported>>

Receive ==
  /\ writer = "recv" /\ channel # <<>>
  /\ msg' = Head(channel) /\ channel' = Tail(channel)
  /\ writer' = "write"
  /\ UNCHANGED <<mainVars, sharedVars, taskVars, rxOpen, out, fileVars, reported>>

SendersGone_NoTasks == \A u \in UnitId : wpc[u] \in {"unspawned", "done"}
SendersGone == SendersGone_NoTasks /\ mpc \in {"join", "await"}

(* blocking_recv answers None: every sender is dropped, nothing is queued.  *)
ChannelClosed ==
  /\ writer = "recv" /\ channel = <<>> /\ SendersGone
  /\ writer' = "finish"
  /\ UNCHANGED <<mainVars, sharedVars, taskVars, channel, rxOpen, msg, out, fileVars, reported>>

WriteEntry ==
  /\ writer = "write" /\ msg.kind = "data"
  /\ archive' = archive \cup {msg.entry}
  /\ out' = [out EXCEPT !.succeeded = @ \cup {msg.entry}]
  /\ reported' = [reported EXCEPT ![msg.entry] = "Completed"]
  /\ writer' = "recv" /\ msg' = <<>>
  /\ UNCHANGED <<mainVars, sharedVars, taskVars, channel, rxOpen, onDisk, leftover>>

StopFlag(reason) == stop \/ reason # None

(* A read that failed, or a write that fails now (an Io error, not fatal);  *)
(* record_failure, and out of the receive loop if that stopped it.          *)
FailEntry ==
  LET reason == FailureReason(strategy, msg.kind = "fatal") IN
  /\ writer = "write"
  /\ out' = [out EXCEPT !.failed = @ \cup {msg.entry}, !.stoppedEarly = reason]
  /\ reported' = [reported EXCEPT ![msg.entry] = "Failed"]
  /\ stop' = StopFlag(reason)
  /\ writer' = IF reason = None THEN "recv" ELSE "finish"
  /\ msg' = <<>>
  /\ UNCHANGED <<mainVars, permits, cancelled, taskVars, channel, rxOpen, fileVars>>

ReceiverAfter_Kept == rxOpen
ReceiverAfter == FALSE

(* drop(rx) discards what is queued; finish may fail; the archive of a      *)
(* stopped call is removed under a stopping strategy.                       *)
Finish ==
  /\ writer = "finish"
  /\ rxOpen' = ReceiverAfter
  /\ channel' = IF rxOpen' THEN channel ELSE <<>>
  /\ \/ writer' = "error" /\ UNCHANGED <<out, onDisk, leftover>>
     \/ /\ writer' = "done"
        /\ IF Discards(out.stoppedEarly)
           THEN /\ out' = [out EXCEPT !.succeeded = {}]
                /\ \E removed \in BOOLEAN : onDisk' = ~removed /\ leftover' = ~removed
           ELSE UNCHANGED <<out, onDisk, leftover>>
  /\ UNCHANGED <<mainVars, sharedVars, taskVars, msg, archive, reported>>

-----------------------------------------------------------------------------
Main == Begin \/ Gzip \/ CheckStop \/ SelectCancelled \/ SelectPermit \/ Arm \/ Join \/ Settle
Task(u) == StartEntry(u) \/ (\E k \in {"data", "failed", "fatal"} : Read(u, k)) \/ Send(u) \/ ExitTask(u)
Writer == CreateArchive \/ Receive \/ ChannelClosed \/ WriteEntry \/ FailEntry \/ Finish

Returned == mpc \in {"returned", "error"} /\ UNCHANGED vars

Next == Main \/ Writer \/ Cancel \/ Returned \/ \E u \in UnitId : Task(u)

(* tokio polls ready tasks, the blocking thread runs, file calls end.       *)
Spec == Init /\ [][Next]_vars /\ WF_vars(Main) /\ WF_vars(Writer) /\ \A u \in UnitId : WF_vars(Task(u))

-----------------------------------------------------------------------------
Answered == mpc = "returned" /\ (IsGzip \/ writer = "done")
Running  == {u \in UnitId : wpc[u] \notin {"unspawned", "done"}}
Announced(event) == {e \in Entry : reported[e] = event}

(* The memory of the call is bounded however slow the archive is: besides   *)
(* the file being written, at most concurrency files are queued and one is  *)
(* held by each running task, of which there are at most concurrency.       *)
MemoryBounded ==
  /\ permits + Cardinality(Running) + (IF mpc = "arm" THEN 1 ELSE 0) = Permits
  /\ Len(channel) + Cardinality({u \in UnitId : wpc[u] = "send"}) <= Permits + Cardinality(Running)

(* An archive reported as complete is: it exists and holds exactly the      *)
(* entries in succeeded, and every scanned entry is there or in failed, so  *)
(* none was left in the channel.  An interrupted call, cancelled or stopped *)
(* by an error, leaves no archive under AbortOnError and Undo unless its    *)
(* removal failed, and claims none; otherwise what it claims is in it.      *)
ArchiveMatchesOutcome ==
  Answered =>
    /\ out.stoppedEarly = None => out.succeeded \cup out.failed = Planned
    /\ IF out.stoppedEarly # None /\ StrategyReason(strategy) # None
       THEN out.succeeded = {} /\ (onDisk => leftover)
       ELSE onDisk /\ archive = out.succeeded

(* Cancelling never loses a file that was started: unless a failure stopped *)
(* the call, each started entry is announced, and failed as it is listed.   *)
(* A gzip that answers an Err has announced the failure too, and an Err     *)
(* about the format or the source leaves nothing on the disk.  A zip that   *)
(* answers an Err (creating or finishing the archive) promises neither.     *)
CancelLosesNothing ==
  /\ Answered /\ ~stop => Announced("Started") = {} /\ Announced("Failed") = out.failed
  /\ mpc = "error" => /\ Announced("Started") = {} /\ Announced("Completed") = {}
                      /\ onDisk => Announced("Failed") = Planned

(* The call returns: no task waits for room in a channel nobody drains, and *)
(* the writer never waits for a sender that is gone.                        *)
Termination == <>(mpc \in {"returned", "error"})
=============================================================================

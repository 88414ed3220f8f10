-------------------------------- MODULE Watch --------------------------------
(***************************************************************************)
(* operations/watch.rs, watch_handle.rs, watch_event.rs: one call of        *)
(* watch().  A blocking task sets the watcher up, then the watch task waits *)
(* for a cancellation or the first fatal error, while the thread of the     *)
(* notify library turns changes of the disk into events on the caller's     *)
(* stream.  The library is modelled from how this code uses it.             *)
(***************************************************************************)
EXTENDS Naturals, Sequences, SequencesExt

CONSTANTS
  Changes,      (* Changes another process may make: [what, nested].        *)
  MaxChanges,   (* Bound on the changes made during the call.               *)
  MaxErrors     (* Bound on the errors the watcher reports.                 *)

NotifyKind  == {"create", "modify", "remove", "access", "other", "any"}
NotifyError == {"gone", "denied", "limit"}

ASSUME WatchAssumption ==
  Changes \subseteq [what : NotifyKind, nested : BOOLEAN] /\ {MaxChanges, MaxErrors} \subseteq Nat

VARIABLES
  recursive,    (* The builder's option.                                    *)
  path,         (* The watched path: there, gone or denied, or lost later.  *)
  task,         (* Where the watch task is.                                 *)
  answer,       (* What it returned, once it is "done": "ok" or an Error.   *)
  cancelled, held,   (* The token; does the caller still have the handle?   *)
  backend,      (* The watcher: none, running, closing, closed.             *)
  noticed,      (* Changes the system queued for the watcher.               *)
  sender, fatal,     (* The oneshot: is its sender left; the error in it.   *)
  stream, read, (* Events sent and not yet read, and those the caller read. *)
  changes,      (* How many changes there were.                             *)
  made,         (* Those the caller is owed: in scope and after set-up.     *)
  errors, ends  (* Errors the watcher raised; the one set-up ended with.    *)

caller   == <<recursive, path, cancelled, held, read>>
watcher  == <<backend, noticed, sender, fatal, stream>>
owed     == <<changes, made, errors>>
vars     == <<recursive, path, task, answer, cancelled, held, backend, noticed, sender, fatal,
              stream, read, changes, made, errors, ends>>

(* build_watcher's metadata() sees a path that is there, gone or closed.    *)
Init ==
  /\ recursive \in BOOLEAN /\ path \in {"there", "gone", "denied"}
  /\ task = "look" /\ answer = "none" /\ cancelled = FALSE /\ held = TRUE
  /\ backend = "none" /\ noticed = <<>> /\ sender = TRUE /\ fatal = {}
  /\ stream = <<>> /\ read = <<>>
  /\ changes = 0 /\ made = <<>> /\ errors = <<>> /\ ends = {}

-----------------------------------------------------------------------------
(* WatchEvent::from, and classify_notify_error through classify_io_error.   *)
EventKind_NoRemove(what) == CASE what = "create" -> "Created"
                              [] what \in {"modify", "remove"} -> "Modified" [] OTHER -> "Other"
EventKind(what) == CASE what = "create" -> "Created" [] what = "modify" -> "Modified"
                     [] what = "remove" -> "Removed" [] OTHER -> "Other"

Classified(e) == CASE e = "gone" -> "SourceNotFound" [] e = "denied" -> "PermissionDenied"
                   [] OTHER -> "Io"

(* RecursiveMode: does the watch cover this change?                         *)
Covers_Inverted(c) == ~recursive \/ ~c.nested
Covers(c) == recursive \/ ~c.nested

(* Dropping the watcher only asks its thread to end.                        *)
DropWatcher_Forgotten == UNCHANGED backend
DropWatcher == backend' = IF backend = "running" THEN "closing" ELSE "closed"

Ended(result) == task' = "done" /\ answer' = result

-----------------------------------------------------------------------------
(* Set-up, on a blocking thread: the token is not looked at until it ends.  *)
SetUpFails(e) == Ended(Classified(e)) /\ DropWatcher /\ ends' = {Classified(e)}

PathFails_LeftToBackend == FALSE
PathFails == path # "there"

LookAtPath ==
  /\ task = "look"
  /\ IF PathFails THEN SetUpFails(IF path = "lost" THEN "gone" ELSE path)
     ELSE task' = "create" /\ UNCHANGED <<answer, backend, ends>>
  /\ UNCHANGED <<caller, noticed, sender, fatal, stream, owed>>

(* recommended_watcher(): its thread runs from here on.                     *)
CreateWatcher ==
  /\ task = "create"
  /\ \/ \E e \in NotifyError : SetUpFails(e)
     \/ task' = "register" /\ backend' = "running" /\ UNCHANGED <<answer, ends>>
  /\ UNCHANGED <<caller, noticed, sender, fatal, stream, owed>>

(* watcher.watch(): a backend reports a missing path in a way of its own.   *)
Register ==
  /\ task = "register"
  /\ \/ \E e \in NotifyError : SetUpFails(e)
     \/ path = "there" /\ task' = "select" /\ UNCHANGED <<answer, backend, ends>>
  /\ UNCHANGED <<caller, noticed, sender, fatal, stream, owed>>

(* The select is not biased: with both ready either branch may run.         *)
SelectCancelled ==
  /\ task = "select" /\ cancelled
  /\ Ended("ok") /\ DropWatcher
  /\ UNCHANGED <<caller, noticed, sender, fatal, stream, owed, ends>>

SelectFatal_Ignored == FALSE /\ UNCHANGED vars
SelectFatal ==
  /\ task = "select" /\ (fatal # {} \/ ~sender)
  /\ Ended(IF fatal = {} THEN "ok" ELSE CHOOSE e \in fatal : TRUE) /\ DropWatcher
  /\ UNCHANGED <<caller, noticed, sender, fatal, stream, owed, ends>>

WatchTask == LookAtPath \/ CreateWatcher \/ Register \/ SelectCancelled \/ SelectFatal

-----------------------------------------------------------------------------
(* The watcher's callback.  tx.send() fails only when the reader is gone.   *)
Deliver ==
  /\ backend \in {"running", "closing"} /\ noticed # <<>>
  /\ noticed' = Tail(noticed)
  /\ stream' = IF held THEN Append(stream, EventKind(Head(noticed).what)) ELSE stream
  /\ UNCHANGED <<caller, task, answer, backend, sender, fatal, owed, ends>>

(* Only the first error finds the sender; a later one is swallowed.         *)
Forwarded_Latest(e) == {Classified(e)}
Forwarded(e) == IF sender THEN {Classified(e)} ELSE fatal

RaiseError ==
  /\ backend \in {"running", "closing"} /\ Len(errors) < MaxErrors
  /\ \E e \in NotifyError :
       /\ errors' = Append(errors, Classified(e))
       /\ fatal' = Forwarded(e)
  /\ sender' = FALSE
  /\ UNCHANGED <<caller, task, answer, backend, noticed, stream, changes, made, ends>>

(* The thread ends, with it the callback, its sender and so the stream.     *)
CloseWatcher ==
  /\ backend = "closing"
  /\ backend' = "closed"
  /\ UNCHANGED <<caller, task, answer, noticed, sender, fatal, stream, owed, ends>>

Backend == Deliver \/ RaiseError \/ CloseWatcher

-----------------------------------------------------------------------------
(* A change made before set-up ended may or may not be queued for the       *)
(* watcher: the caller is owed those made later.                            *)
Change ==
  /\ changes < MaxChanges
  /\ changes' = changes + 1
  /\ \E c \in Changes :
       /\ noticed' \in (IF ~Covers(c) \/ backend # "running" THEN {noticed}
                        ELSE {Append(noticed, c)} \cup (IF task = "select" THEN {} ELSE {noticed}))
       /\ made' = IF task = "select" /\ (recursive \/ ~c.nested)
                  THEN Append(made, c.what) ELSE made
  /\ UNCHANGED <<caller, task, answer, backend, sender, fatal, stream, errors, ends>>

(* The watched path goes away; what then happens is up to the backend.      *)
LosePath ==
  /\ path = "there" /\ path' = "lost"
  /\ UNCHANGED <<recursive, cancelled, held, read, task, answer, watcher, owed, ends>>

(* The caller cancels, reads an event, or drops the handle, which detaches  *)
(* the task and closes the stream.                                          *)
Cancel ==
  /\ held /\ ~cancelled /\ cancelled' = TRUE
  /\ UNCHANGED <<recursive, path, held, read, task, answer, watcher, owed, ends>>

ReadEvent ==
  /\ held /\ stream # <<>>
  /\ read' = Append(read, Head(stream)) /\ stream' = Tail(stream)
  /\ UNCHANGED <<recursive, path, cancelled, held, task, answer, backend, noticed, sender,
                 fatal, owed, ends>>

DropHandle ==
  /\ held /\ held' = FALSE /\ stream' = <<>>
  /\ UNCHANGED <<recursive, path, cancelled, read, task, answer, backend, noticed, sender,
                 fatal, owed, ends>>

(* The caller polls, and finds nothing new.                                 *)
Poll == UNCHANGED vars

Next == WatchTask \/ Backend \/ Change \/ LosePath \/ Cancel \/ ReadEvent \/ DropHandle \/ Poll

(* The runtime and the watcher's thread run on; nobody else needs to.       *)
Spec == Init /\ [][Next]_vars /\ WF_vars(WatchTask) /\ WF_vars(CloseWatcher)

-----------------------------------------------------------------------------
(* The caller is owed each covered change made once set-up is over, in      *)
(* order and by its kind, and gets no other but for those that came while   *)
(* it was being set up: what was read, is in the stream or still waits for  *)
(* the callback ends with exactly the changes owed.                         *)
Arriving == read \o stream \o [i \in DOMAIN noticed |-> EventKind(noticed[i].what)]
Expected == [i \in DOMAIN made |->
               CASE made[i] = "create" -> "Created" [] made[i] = "modify" -> "Modified"
                 [] made[i] = "remove" -> "Removed" [] OTHER -> "Other"]
EventsTrue == held /\ task # "done" => IsSuffix(Expected, Arriving)

(* Ok means cancelled, never a watch that died.  An error is the one set-up *)
(* ended with or the first the watcher raised, however many followed and    *)
(* however early it came; a path that was never there is SourceNotFound on  *)
(* every backend.                                                           *)
AnswerTrue ==
  task = "done" =>
    /\ answer = "ok" => cancelled
    /\ answer # "ok" => answer \in (IF ends # {} THEN ends ELSE {Head(errors)})
    /\ path = "gone" => answer = "SourceNotFound"

(* A watch that was cancelled or hit an error ends, even if the handle was  *)
(* dropped or the token fired during set-up, and its watcher goes with it,  *)
(* so that the stream of events ends.                                       *)
StopsWhenTold ==
  cancelled \/ errors # <<>> ~> task = "done" /\ backend = "closed"
=============================================================================

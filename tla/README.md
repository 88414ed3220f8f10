# file-engine in TLA+

A TLA+ model of `file-engine`, the asynchronous file-operations crate in `src/`: what it does when its tasks
interleave, when it is cancelled, when a step fails halfway, and what its outcome then says. The modules are
translated from the Rust source; TLC checks them on small instances, TLAPS proves the core theorems for every
instance. Paths below are relative to the repository (`src/src/` is the crate).

## 1. The system

Every operation is a builder whose `start()` spawns one tokio task and returns a `Handle`: a stream of progress
events, a cancellation token and the future of the outcome. Copy, move, move_many and sync share one pipeline:

    scan -> probe -> validate -> plan -> create directories -> dispatch -> directory modes

`dispatch` is the engine below all of them, and below remove. Compress, watch and analysis have machinery of
their own. The ETA estimator is a fold over the events that a caller feeds with them.

| Component | Source | State | Operations | What makes it correct |
|---|---|---|---|---|
| Dispatcher | `planner/dispatcher.rs` | semaphore, stop flag, outcome behind a mutex, one task per unit, one sampler per streamed entry | dispatch loop, unit task, sampler, rollback | no permit lost; one verdict per entry; the first stop reason stands; nothing is written behind the rollback; it always returns |
| Entry actions | `planner/action.rs` | destination files | `execute`, `undo` | an existing file is never touched without `overwrite`; the outcome tells the truth about the files |
| Outcome, strategies | `planner/outcome.rs` | lists, `stopped_early` | - | shared vocabulary |
| Pipeline | `operations/pipeline.rs` | workload, outcome under construction | validation, directory pass, dispatch, mode pass | every scanned item is accounted for; a rejection under a stopping strategy has no effect; modes come last |
| Validation | `profiler/validate.rs` | workload | case collisions, size limit, reserved names, integrity risk | nothing overwritten by a file with the same folded name |
| Move | `operations/move_path.rs` | sources, destinations, sweep lists | settle a conflict, rename, copy, sweep, rollback | the bytes always exist somewhere; a source goes only if reported |
| Move many | `operations/move_many.rs` | the above, `pending_fallback`, `renamed_ok` | per-source loop, shared copy | stopping, undoing and reporting span the batch |
| Planner | `planner/batch.rs`, `config.rs`, `plan.rs` | - (pure) | partition by size, packing small files, ordering units | every entry in one unit, both budgets respected, no batch closed early, the smallest stream first |
| Sync, diff | `operations/sync.rs`, `diff.rs` | two scans, diff, orphans | diff, copy, delete sweep | never deletes what the copy made live; converges |
| Compress | `operations/compress.rs` | bounded channel, stop flag, archive | producers, blocking writer; one blocking call for gzip | no deadlock between producers and writer; the archive is what the outcome says |
| Remove | `operations/remove.rs`, `remove_filter.rs` | matches, outcome | scan, filter, dry run, removal | only what was asked for goes; the preview foretells; what was removed is reported |
| Analysis | `analysis/*` | aggregator with a bounded heap, hash tasks, groups | count, walk, hash, report | totals and largest files are exact, duplicates are equal files, no report after a cancellation |
| ETA | `eta.rs` | counters, rates | observe, estimate | counts stay those of the operation; an estimate is lost only where work in flight gets nothing done |
| Watch | `operations/watch.rs`, `watch_handle.rs`, `watch_event.rs` | watcher, oneshot, stream of events | set-up, select, callback, cancel, drop | ends when told; answers with the first error; events in order |
| Scan | `profiler/scan.rs` | - | walk | item by item in Remove, a constant tree elsewhere |
| Capabilities | `profiler/fs_caps/` | - | probe | what validation relies on is what the volume does |
| Handle, progress, errors, facade | `handle.rs`, `progress.rs`, `error.rs`, `lib.rs` | token, channel | `cancel`, poll | seen through the operations |

Components interact by calls (an operation calls the pipeline, which calls `dispatch`), by the shared outcome and
stop flag inside `dispatch`, by the cancellation token that the caller fires at any time, by the unbounded progress
channel, and by the filesystem, which other processes also use. The hard parts are the interleavings of the dispatch
loop with the tasks it spawned, rollback after partial failure (undo can itself fail), sweeps that delete originals
after a copy, and outcomes assembled by several phases, each with its own early returns. `PROJECT.json` lists the
hazards at their lines.

## 2. Modules

| Module | Models | Extends or instantiates |
|---|---|---|
| `Outcomes` | strategies, stop reasons, the failure-to-reason match, and which outcomes `dispatch` and the pipeline can answer | - |
| `DispatchPromise` | what a caller may rely on from `dispatch`: no units, permits, tasks | `Outcomes` |
| `Planner`, `MCPlan` | entries to units, as functions, and what a plan must be; the plan the instances of the engine run | - |
| `Plans` | the engine next to the planner: every plan is right, over bounded workloads | `Dispatcher`, `Planner` |
| `Dispatcher` | the engine, step by step | `Outcomes`; refines `DispatchPromise` |
| `CopyAction` | `CopyAction::execute`/`undo` inside the engine, with another process creating files | `Dispatcher` |
| `Eta` | the estimator fed by the engine, the directory pass and the delete sweep | `Dispatcher` |
| `FsCaps` | what the probe says of a volume, by host | - |
| `Pipeline` | the phases around `dispatch` | `Outcomes`, `FsCaps` |
| `Sweep` | copy, deletion sweep, rollback, restore: the second half of a move | `Outcomes` |
| `MovePath`, `MoveMany` | how the two moves get there | `Sweep` |
| `Compress` | zip: spawning loop, unit tasks, bounded channel, blocking writer; gzip: one blocking call | `Outcomes` |
| `Sync` | diff, copy phase, gate and delete sweep, over a source that is edited | `Outcomes`, `FsCaps` |
| `Selection` | the tree, the walk and the criteria that analysis and removal share, on a disk others change | `Outcomes` |
| `Remove`, `Analysis` | the two operations | `Selection` |
| `Cleanup` | a session of both on one tree | `Remove`, `Analysis` |
| `Watch` | one `watch()` from set-up to its end | - |
| `MC*` | the instances TLC checks | the module named |
| `DispatcherProofs` | theorems about the engine (permits, stop, serial run, verdicts, effects, promise), then about the copies it runs, the estimator that observes it and the planner that feeds it | `Plans`, `CopyAction`, `Eta`, `SumTheorems`, TLAPS |
| `MoveProofs` | lemmas about `Sweep`, theorems about the two moves | `MovePath`, `MoveMany`, TLAPS |
| `PipelineProofs`, `SyncProofs`, `CompressProofs`, `WatchProofs` | theorems about the module named | that module, TLAPS |
| `SumTheorems` | lemmas about sums over finite sets | TLAPS |
| `CleanupProofs` | theorems about a session of removals and analyses | `Cleanup`, `SumTheorems`, TLAPS |

Names ending in `_Something` (for example `FinalReason_ForgetsCancel`) are not part of any specification: each is a
plausible wrong version of the definition after it, and a checked property fails when it takes that definition's
place. `PROJECT.json` pairs them ("mutants").

**Dispatcher.** The loop's program counter `mpc` follows `for unit in units`: `check` (stop flag), `acquire`
(the biased `select!`: `SelectCancelled` wins over `SelectPermit`), `recheck` (stop flag again, the permit is
dropped), `spawn`, then `join`, the rollback and the return. A task's `wpc` is `loop`, `execute`, `drain` (awaiting
the sampler), `record` (terminal event sent, mutex not yet taken), `halt` (reason recorded, flag not yet up),
`exit`, `done`. The split between `record` and `halt` is the window in which a reason stands in the outcome and the
loop still spawns. `sampler` is the 250 ms progress task with its own biased `select!`. `Execute(u, r)` takes any
result the trait allows; `applied` and `undoFailed` are observations of the filesystem, `reported` and `progress`
of the event channel. Sends are atomic because the channel is unbounded; a lock held with no await is one step.
The units are a constant; in the runs
they are what `Planner` makes of four files.

**Planner** follows `plan()`: `Small`/`Large` split at the threshold, `Sorted` is the stable sort (`SortedPlace` gives
place k to the entry that k - 1 others come before), `Pack` the greedy packing with both budgets (`Full`),
`FilesPerBatch` the limit on files derived from the median size, `Calibration` and `Queued` the order in which
`dispatch` queues the units. `RightUnits` says what a plan must be without saying how it is made.

**Eta** conjoins `observe()` to each step of the engine that sends an event (`Observed`), and adds the phases before
and after it. Rates are floating point; of each only its state is kept: `none`, `work` without measured time, `known`,
or `faded`: each sample window without work takes three tenths off the average (`add_time`), and after about a minute of
them the seconds left are more than a `Duration` holds, where `estimate()` answers `None` (`eta.rs:456`). Whether an
event ends a window, and whether a rate has faded yet, are free choices; whether the clock moved since the previous
event is one where `CoarseClock` is true.

**CopyAction** splits `Execute` at the awaits: parent directory, existence check and hashes, then `fs::copy`, which
may break off with a truncated destination. `Intrude` is another process creating a file at any moment. The rest of
the engine, samplers included, takes its steps around it (`Engine`).

**Pipeline** runs the phases in order. `Probe` finds the capabilities of the mounted volume through `FsCaps`, where
the query for case sensitivity may fail; `Validate` computes what is rejected from them, and stops or shrinks the
workload; the directory pass creates the directories no remaining file will create, one task each under the permits
of the call (`todo`, `making`), any of them failing; `Dispatch` uses `DispatchOutcomes`, the outcomes `Dispatcher` is
shown to produce; `ApplyModes` runs last. The scanned tree, the folded names (`Key`), the reserved names and the
volumes (`Mounts`) are constants.

**Sweep, MovePath, MoveMany.** `src` and `dest` are the real files; `dest0` what was at the destination before this call
touched it. `Copy` takes any outcome the pipeline can answer, with destinations that agree with it: a failed entry may
leave a truncated file, a rolled-back one is gone unless its undo failed. `SweepRemove`/`SweepFail` delete the
originals, `RollbackRestore` copies back and only then removes, `RollbackUndo` removes the copy. `MovePath` adds the
conflict check and the rename. Both act on the path `dest` itself, `target` for a single file; the copy across devices
takes `dest` for a directory and writes to `dest/<name of the source>`, which is `dest[Single]`, so `CopyBelow` makes
the target a directory, or fails if it is a file. `Intrude` is another process that creates a file where there is none,
which also puts it into `target0` or `dest0`, and sets `late` if that is between the check and the rename. `MoveMany`
adds the loop over the sources with `Settle`, `RenameSource`, `Queue`, `FailSource`, and cancellation between sources;
there the copy has the paths of the conflict check, because `prefix_workload` renames the entries. Lists are sets there
because completion order is any order.

**Compress** chooses the format first. For zip it has three kinds of process. The loop spawns a task per unit as the
dispatcher does, drops its sender, joins the tasks and then the writer, and settles the outcome (`Discards`,
`CancelReason`). A task reads an entry into memory and sends it, waiting when the channel is full. The writer creates
the archive, receives, writes, and on a stopping failure raises the flag and drops the receiver (`ReceiverAfter`),
which is what wakes the waiting tasks. The number of permits and the channel's capacity are the same
`concurrency.max(1)`. Gzip is one blocking call on one file, with its early returns.

**Sync** keeps source files by name and destination files by slot: names that the destination's filesystem does not
distinguish share a slot (`slotOf`). What the destination's filesystem does (`slotOf`, and the step `resolution` of its
timestamps) and what the probe says of it (`caseSensitive`, `granularity`, through `FsCaps`) are four variables: the
diff tolerates `granularity`, validation rejects colliding names (`Rejected`) only without `caseSensitive`. Files that
share a slot leave there what one of them wrote, or a mixture (`MayLeave`). `Diff` matches by normalized name
(`MatchKey`), one entry per key as the map in `diff.rs` has it; `CopyPhase` takes any outcome the pipeline can answer
with destination files that agree with it and is one step, because each source file is read by one copy and an edit of
it falls before or after that; `Remove`/`RemoveFails` are the sweep, in any order since orphans come out of a hash map.
`Edit` and `Tick` are the world, `Again` the caller. `quiet` is a history variable the properties use.

**Selection, Remove, Analysis, Cleanup.** The tree is a constant list of what a walk that follows links would yield;
`Met` is what this walk yields, and `There` what is still on the disk, which `Edit` changes. `Passes` and
`IsExcluded` are the criteria. `Remove` scans item by item, filters (`MatchEntries`), previews or hands the matches to
the engine, whose results come in any order (`RemoveEntry`). `Analysis` counts, walks with pruning (`Pruned`) and past
directories it could not read, whose contents it silently leaves out (`unread`), keeps
the largest files in a heap of `topN` (`Kept`, `Evicted`), hashes candidates of equal size in tasks under a semaphore,
and groups them. An Option of the code is the empty set or a singleton. `Cleanup` runs calls of both in any order with
the same criteria; `calm`, `counted` and `previewed` remember what the properties compare.

**Watch.** `task` is the spawned future: it looks at the path, creates the watcher, registers it, then waits in the
`select!`. `noticed` is what the library has seen and not delivered; `Deliver` and `RaiseError` run on its thread,
possibly before set-up is over. `sender` is the oneshot's sender inside the callback (`Forwarded` takes it at the
first error), `stream` the channel of events, `held` whether the caller still has the handle.

## 3. Runs

| Run | Instance | Shows |
|---|---|---|
| `DispatcherTwo` | units stream, batch of two, stream, as planned from four files; two permits; samples up to length 1; four results per entry; three strategies; cancellation at any time | permits conserved, one verdict per entry and the lists equal the announced events, the outcome tells the effects also after a rollback, refinement of `DispatchPromise` (which includes completeness unless stopped and a reason that fits the failures); and at the start, all plans of up to four entries are right |
| `DispatcherSerial` | the same units, requested concurrency 0, samples up to length 2 on sizes 1 and 2, observed by an estimator from the plan to the delete sweep (`MCEta`) | zero concurrency runs serially, a stopping failure keeps later units from starting, samples stay within size and entry, the estimator's counts are those of the engine, an estimate is lost only where work in flight gets nothing done, termination |
| `CopyAction` | two concurrent copies, every initial destination, one intrusion, samplers measuring lengths up to 1 | existing files kept, outcome true of the files, also after a rollback |
| `Pipeline` | two directories and two files colliding by case, an oversized file, a reserved empty directory; eight volumes on four hosts, the query failing or not; all strategies and options | every directory accounted for, nothing silently replaced where the host can tell, the promise of `dispatch` extends to the whole scan |
| `MovePath` | a file, or a directory of two; every destination content; failures at each step; up to two files from outside | no bytes lost at any moment, sources gone are reported, Undo puts everything back, existing files kept but in one window, a clean outcome means every file arrived |
| `MoveMany` | a single file, a directory of two files and an empty one; every destination content; failures at each step; cancellation between sources | later sources untouched by a stop, renames taken back, every file accounted for when the batch was not stopped, every source whole when it ends in `Err` |
| `Compress` | four entries in units of 1, 2, 1; two permits, a channel of two; or one file through gzip; any read, write, creation or finishing fails; cancellation at any time | memory bounded, the archive is what the outcome says, whole or interrupted, cancelling loses nothing that was started, termination |
| `Sync` | one name in two Unicode forms and a plain one; two contents of one size; volumes that fold the forms: one case-sensitive to the probe, one that rounds to two seconds, one that rounds to one unknown to the probe; and one that keeps the forms apart; all options; one edit; two calls | nothing live is deleted, orphans go only after a whole copy phase, a clean call on a source left alone mirrors it, and where the probe knows the rounding the next call finds nothing to do |
| `Cleanup` | nine items (files, a directory, links, a cycle), two disks, eight sets of criteria, one change from outside, two calls, two files and two directories that may fail to be read, hash workers 0 to 2 | only what was asked for goes, the outcome of a removal and the report of an analysis are true, duplicates are equal files, the preview foretells the removal, calls end |
| `Watch` | four kinds of change, one below the watched directory; up to two changes and two errors | events arrive in order with none missing until the end, the answer is true, a watch ends when told and takes its watcher with it |
| `MovePathAlias` | as `MovePath`, nobody else at work; source and destination may name one file | a counterexample, section 6 |
| `SyncCase` | as `Sync`, on a volume that folds case | a counterexample, section 6 |

Bounds. Three units on two permits is the smallest plan where the loop parks on the semaphore while two tasks run, so a
failing unit hands its permit to a waiting loop; a batch of two has a next entry to be cut off from. `Plans` takes every
list of up to four entries of sizes up to three (`MaxEntries`, `MaxSize`), with thresholds and budgets below, at and
above them, and a file limit of 0, 1, 2 or none, so that an entry alone exceeds a budget, fits it exactly, and closes a
batch; sums of sizes are taken to stay below 2^64. `Threshold`, `Directories` and `Orphans` give the estimator large and
small files and one step of each other phase; `CoarseClock` is false there, so that every event moves the clock (the
theorems cover both). In `CopyAction` one intrusion is enough, since an entry's destination is checked once;
`MaxIntrusions` bounds it, `Intrusions` the same in `MovePath`, where two reach both files of a directory. `MaxLen`
bounds sampled lengths (one above the largest size matters). Two files in a moved directory give a sweep that has
deleted one original when the second deletion fails; three sources give one before and one after a failing source, and
the last is an empty directory, which adds no file. Four entries on two permits and two places fill the channel while
both tasks hold an entry each. Two calls of sync are what convergence relates; one edit between, before or during them
(`MaxEdits`, `MaxRounds`) is enough to make a plan stale, and a clock of two ticks (`MaxTime`) to make an edit newer, or
not, than a copy. In `Cleanup`, `Calls = 2` relates a preview to a removal and an analysis to either, `Edits = 1` makes
a scan stale, `Flaky` names two files and two directories whose reads may fail; a heap of 0, 1 and 2 places for three
files is full, evicts and rejects. In `Watch`, a second error is the one that must not replace the first, a second
change the one that must not overtake.

Fairness. In `Dispatcher` it is weak fairness of the loop, of each task and of each sampler, because tokio polls every
ready task and the file calls inside an action end. The caller never has to cancel. A sampler that has seen its token
fire takes that branch because the `select!` is biased to it; `Termination` relies on that: with a free choice, a
sampler that keeps finding its timer ready satisfies weak fairness and goes on for ever. `Eta` adds the code before
dispatch, which is one task that never waits. In `Compress` it is weak fairness of the loop, of each task and of the
writer's blocking thread. In `Cleanup` it is weak fairness of the steps of the running call, and not of the caller or of
whoever changes the disk. In `Watch` it is weak fairness of the task, and of the library's thread closing once its
watcher is dropped; not of events, errors or the caller. `Cancel` may be repeated there and in `Compress`, so everybody
waiting on everybody would show as a failure of `Termination` or `StopsWhenTold`. The other modules have safety
properties only: they are one task each that goes from call to call.

Deadlock is checked in every run; an ended operation, or a handle nobody polls, stutters in an explicit step
(`Returned`, `Finished`, `Waits`, `Poll`).

## 4. Theorems

**The engine**, for any units, sizes, concurrency, sample lengths, and whether or not there are samplers. The
assumptions are those on the constants of `Dispatcher`: units are sequences of entries, no entry has two places in
them, sizes and concurrency are natural numbers. TLC evaluates them in the runs, and `PlansAreUnits`, below, proves
that what the planner makes satisfies them.

- `TypeCorrect`: `TypeOK` is inductive. Besides types it says that exactly the units before `next` have tasks, that a
  task past its loop head is on an entry of its unit, that a sampler lives only while its task is executing or
  draining, and that reported bytes never exceed the size. The clamping in `SamplerSend` needs that a sampler with a
  measurement belongs to a task that is on an entry, which is why `WorkerOK` ties the two.
- `PermitsConserved`: free permits, running tasks and the permit in the loop's hand add up to `concurrency.max(1)`.
  Inductive together with `TypeOK`: each action changes at most one task between idle and running and moves one permit
  with it, and `Spawn` needs `wpc[next] = "unspawned"` (from `WorkerOK`).
- `FirstReasonKept` and `StopStopsSpawning`: the action properties `FirstReasonStands` and `NoSpawnAfterStop`, which no
  run repeats, follow from each action alone, the second because only `RecheckStop` leads to `spawn` and it looks at
  the flag.
- `SerialStops` (`SerialStop`), from `SerialInv`: with one permit the running task is the last one spawned, a task that
  ended on a stopping failure has raised the flag, and a loop about to spawn has not seen it. When the loop holds the
  only permit no task runs (`PermitsConserved`), so the flag cannot go up behind its look.
- `VerdictsHold` (`OneVerdict`), from `VerdictInv`: entries a task has not come to are not announced, the one in its
  hand is not listed, those behind it are listed, and each list agrees with the events. That no entry is listed twice
  rests on the assumption that places of the plan hold different entries.
- `EffectsTold` (`OutcomeTellsEffects`), from `EffectInv`: before the rollback the effects are the listed successes and
  those about to be listed; during it, what it has not visited and what it could not undo.
- `PromiseKept` (`ImplementsPromise`): every step of the engine is a step of `DispatchPromise` or leaves it alone. It
  needs, besides the two invariants above, `ReasonInv`: a task leaves before its end only once a reason is recorded,
  the loop gives up only for a raised flag or the token, and each recorded reason comes from a listed failure and fits
  the strategy. Completeness follows: with no reason at the join every task ended at its last entry (`WholePlanListed`).

**Moves of a path**, for any set of files, any number of intrusions and every failure, assuming `MayAlias = FALSE`:
source and destination are not two names of one file (`MovePathAlias` shows what happens when they are). One invariant,
`PathInv` (`PathInvariant`), gives `NothingLost`, `NothingGoneUnsaid`, `UndoRestores`, `NothingReplaced` and
`CleanMeansMoved`: nothing reported wrong means that every file arrived, a single one at the target or below it, and
that each original is gone except those the fallback found identical, which the code leaves (6.3). Its core, `SweepInv`,
is shared: an entry the sweep has not reached has its bytes at the destination, and one it did not delete has its
original, so at each step one side is whole; what was swept is what the outcome lists; a rollback leaves behind it only
restored entries or a reported undo failure.

**Batches**, for any sources (no source twice, no file in two of them, a plain source being one file), any files,
options and failures: `BatchInv` (`BatchInvariant`) adds to `SweepInv` that the loop sorted each source it passed into
renamed, settled, queued or failed, that only the first two have moved, and that a failure stops the loop under a
stopping strategy. From it: `BatchLosesNothing` (`NoSourceFileLost`), `StopLeavesTheRest`, `UndoTakesRenamesBack` and
`NoSourceUnanswered`: if the batch was not stopped, a failed source is as it was, and each file of the others was moved,
is listed, or was found identical and left where it was (6.3); if it ended in an `Err`, which lists nothing (6.8), each
source is all moved or all where it was.

**Copies**, for any plan, concurrency, strategy and number of files that appear from outside. `CopyRunsEngine`: every
copy is a run of the engine, so all of the above holds of copies. `CopyInv` (`CopyInvariant`) then ties the disk to the
engine's books: a destination is a copy of this call exactly when the engine counts it as applied; a task past the check
without `overwrite` is at a destination that was absent before the call; a truncated file is in the hands of the task
that is writing it, or of one whose failure is not recorded yet, or is listed as failed. `NothingOverwritten`
(`ExistingFileKept`) is one of its conjuncts, because a task may write where the check found nothing only as long as
no two tasks share an entry (`ExecuteFacts`); `OutcomeIsOnDisk` (`OutcomeMatchesFiles`) follows with `EffectInv`.

**The planner**, for any list of distinct entries (the scan lists a path once), any sizes and threshold, and any
`BatchConfig`: budgets of zero, a count of files or none, either order. `PlansAreRight`: every entry is in one place,
in a stream exactly when it is over the threshold, a smallest stream leads, and the batches follow one another, none
empty, each within both budgets unless it is a single entry, none closed while the next entry still fitted.
`PlanRight` (`PlanIsRight`) is the same of the workloads and configurations of a run, for any bounds.
`SortsAreStable`: the sorted list takes each place of the scan once, by size, and equal sizes in their order.
`PlansAreUnits`: what the planner makes meets what the others assume of their units (`UnitsAssumption`,
`DistinctAssumption`, the stream part of `EtaAssumption`, the non-empty units of `Compress`). The argument has no
induction over data. A loop over a list is a fold, and `FoldExists` shows, by a least counterexample as for sums, that
it has a run: its state before the first entry, and after each. An invariant then goes along the run (`UpTo`). For
`pack` it is `BudgetInv` with `Held` and `EachOnce`: the batches so far hold the entries so far, once each, every
batch but the last is closed for a reason that names the entry after it, and none goes over a budget with more than
one entry. For the sort, `Comes` is a strict order, so an entry's number of predecessors is a place of the list and no
two share one (`SortedPlaces`). `IsLaidOut` puts batches and streams in the queue.

**The estimator**, for any plan, threshold, number of directories and orphans, assuming that the planner streams only
entries over the threshold the estimator is told (`EtaAssumption`; the planner and `Planned` take it from the same
configuration, and `PlansAreUnits` shows the planner keeps to it). `EtaInv` (`EtaInvariant`): before dispatch the
engine has sent nothing and the estimator knows the plan; during it, its counters are those of the engine, and what it
has credited to an entry without a verdict is what was last reported of it. The step needs that only an entry in the
hand of a task is sampled, announced or given its one verdict (`VerdictInv`), and that its sampler belongs to a stream
(`Streamed`). `EstimateIsTheEngines` (`CountsFollowEngine`) is its last conjunct. `EstimateLasts`
(`EstimateLastsWithWork`, an action property): within a phase the counters only fall, so no new rate comes to be needed,
and at each event a rate either is fed or is not charged for the interval, and then it stays known, unless work of its
own kind was in flight and the event brought none of it. The last case is how an estimate does get lost (6.22).

**The pipeline**, for any tree, destination, strategy and concurrency, assuming of the tree that what lies below a
reserved directory is reserved too, and of the volumes that those Linux can name and that fold case are in its table
(`MountAssumption`: ext4 with case folding turned on is outside, which the query alone would tell). `PipelineInv`
(`PipelineInvariant`) says, phase by phase, what is left of the workload, and of each directory no file will create,
that it waits, is being made, exists, or is reported. From it `DirectoriesAccounted` (`EveryDirAccounted`),
`PipelinePromise` (`KeepsPromise`: the promise of `dispatch`, given for the files it was handed, extended to all
scanned ones) and `NoneReplaced` (`NoSilentReplacement`).

**Sync**, for any trees, any number of calls and any edits between their steps, assuming the initial trees are trees
(each source file under its own name). `SyncInv` (`SyncInvariant`): with a destination that folds no more names than the
diff, nothing still to be removed belongs to a scanned name, and in the sweep each file chosen that shares its slot with
no other is whole or a tolerated failure; and as long as nobody edits, the destination folds what the diff folds and no
two names of the source are one file there, the files not chosen are mirrored, then all of them. That no two are one
file is what validation is for, and a premise here because it does not always look (6.18): `OnePerSlot`, of the chosen
files in `OrphansAfterCopies` (`SweepOnlyWhenWhole`), of all scanned ones (`Distinct`) in `CleanIsMirror`
(`MirrorsAfterClean`) and `MirrorConverges`. `OrphansAfterCopies` and `LiveIsKept` (`LiveKept`, an action property)
assume `ExactDests`, that no destination folds names the diff keeps apart: on one that does, the sweep deletes what the
copy wrote (`SyncCase`). `CleanIsMirror` needs no assumption. `MirrorConverges` (`Converges`, an action property)
assumes `InTime`, that no initial file is dated after the clock starts (each call copies such a file again), and has the
premise that the destination rounds by no more than the probe says, `resolution <= granularity` (6.19).

**Compress**, for any plan with no empty unit, any concurrency and strategy, both formats. `CompressInv`
(`CompressInvariant`) has the phases that loop, tasks and writer can be in together (`LoopInv`: the writer ends without
a stop only after all tasks left and the channel is empty), the permits and the channel within them, and the way of
each entry: behind its task it is in the channel, in the writer's hand, in the archive or among the failures, and in one
of them only. From it `MemoryIsBounded` (`MemoryBounded`), `ArchiveIsTheOutcome` (`ArchiveMatchesOutcome`) and
`StartedIsAnswered` (`CancelLosesNothing`): a call that answers with an outcome, and that no failure stopped, announced
the end of every entry it started; so does gzip's `Err`. An `Err` of zip, about creating or finishing the archive
(`compress.rs:413`, `:440`, `:490`), leaves entries started and unanswered, and no theorem says otherwise.

**Watch**, for any changes and any number of errors: `AnswerIsTrue` (`AnswerTrue`): the oneshot holds the first error
and nothing before it, set-up is the only other way to an error, and a path that was never there stops it at once.
`EventsAreTrue` (`EventsTrue`): what was delivered, what is in the stream and what the library still holds are, in this
order, the covered changes since set-up, each by its kind, cut off only by the end of the watch.

**Removal and analysis**, for any tree, criteria, options and number of calls, and any changes by others. The
assumptions say what the constants are: the walk lists each entry once, what lies above one is a directory or a link to
one and comes before it, a root that is a file is one, all empty files are equal, sizes and times are numbers, a file
has at most one modification time, and options have the types the builders take. `CleanupInv` (`CleanupInvariant`) has
these parts.

- `RemoveInv`: what is found, to be removed or removed lies in `Selectable`, the part of the tree the criteria select
  whatever the disk holds: entries within reach that no criterion rules out (`RulesOut`: extension, size, times and
  patterns, each stated for what the scan found and not by the code's tests); nothing is unlinked in a dry run; the
  outcome is what was unlinked. `OnlyWhatWasAsked` (`OnlyAskedGo`) and `RemovalSaysWhatIsGone` (`RemovalTold`) follow;
  the latter says that the successes are what was removed, or none after a stop under `Undo`, which withdraws them
  (6.14).
- `GatherInv`: on a disk that nobody changed since the call began, a walk has gathered exactly what the criteria select
  among the entries behind it, in the directories it could read (`unread`). This is stated for both walks in terms of
  the same disk, so `PreviewIsThePlan` (`PreviewForetells`) follows, for analyses without an error or an unreadable
  directory, although the two calls share no code.
- `TasksInv`: each hash task read what the file holds, or failed and was counted as an error; `GroupsInv`: the groups
  of a report hold files with equal reads. That on a calm disk they are all such sets (`DuplicatesFound` for
  `Duplicates`) needs that files dropped for a unique size, and empty ones that are never read, lose no group.
- `FiguresInv`: an aggregator's figures are those of the set of entries it has seen: counts, bytes, the tables by
  extension and age, the largest files, the capped list of errors. It needs that the walk never counts an entry twice
  (what was seen is behind the walk). `ReportIsTrue` (`Exact`) joins it with `GatherInv`.

**Sums.** The figures of a report and the bytes left of a copy are sums. That a sum over a finite set exists, does not
depend on the order of its terms and grows by the term added would be induction over data; `SumTheorems` proves it
without an induction rule, from a least counterexample: if the subsets for which a fact holds were not all subsets, one
outside of least cardinality would have all its proper subsets inside.

Only model-checked, and why: liveness (`Termination`, `CallsEnd`, `StopsWhenTold`), which is out of the prover's reach.

## 5. Not modelled

- Hashing, case folding, Unicode normalization, Windows naming rules, MIME tables, `prefix_workload` and
  `merge_workloads`: pure computation over data the properties do not tell apart (constants or free choices here).
- The volume's own answers (`statfs`, `pathconf`, `GetVolumeInformationW`) are a record and a query that may fail; the
  notify library is modelled from how `watch.rs` uses it.
- Durations, error payloads, message wording, the magnitudes of ETA rates, truncation of the paths in a group of
  duplicates, progress events of analysis.
- `rename` is one step. In `MoveMany` no other process touches the files, and every file has a destination of its own:
  base names are compared exactly (`move_many.rs:143-167`), so two sources whose names differ only by case on a
  case-insensitive destination are outside the model; so is a case-insensitive destination in `MovePath`.
- `compress`: the archive's bytes (an archive is the set of its members). A write that fails halfway may leave a
  truncated member behind (`compress.rs:450-471`); the model has the entry as not in the archive.
- A directory that the fallback of `move_path` made at `dest` stays when its copy is undone; the model has no files in
  it then, and nothing is said of it.
- `sync`: edits of the destination by others, source files dated in the future (each call copies them again), and
  directories (the diff lists files).
- `remove` and `analyze`: entries created while a scan runs (those that vanish or change are modelled), and which
  entries the dispatcher still starts after a stop (left open).
- Feature gates, fault harness, examples, scripts, dev-docs: not part of the library's behaviour.

## 6. Where the code does less than its documents say

The first two have a run whose counterexample shows it; the others were met while translating.

1. `MovePathAlias`: moving a file onto itself (or a second path to it) with `skip_if_identical` finds it identical to
   itself and removes the "source", the only copy (`move_path.rs:274-283`).
2. `SyncCase`: on a case-insensitive destination that holds `README`, a source file `readme` is to be copied and
   `README` is an orphan. The copy writes over that very file, the sweep then removes it, and the outcome reports both
   as succeeded (`diff.rs:60-80`, `sync.rs:198-202` against `sync.rs:16-19`).
3. The pipeline drops the `skipped` list that `outcome.rs:32` documents (`pipeline.rs:206`). For the same reason the
   cross-device fallback of a move, and the shared copy of a batch, leave the source of an identical destination in
   place and in no list of the outcome, while `move_path.rs:52-59` says it is removed, in the fallback too.
   `CleanMoveMovesAll` and `EverySourceAnswered` name this exception.
4. In `move_many` under `Undo`, a fatal error in the loop, or any failure in the shared copy, leaves the renamed
   sources where they were moved (`move_many.rs:260`, `300`).
5. `directories_failed` also holds rejected and uncreatable directories when no permissions were to be preserved
   (`pipeline.rs:186` against `outcome.rs:47-54`).
6. Directories rejected for a case collision are created all the same by the files below them (`validate.rs:161`).
7. Rolling back an overwriting move removes the destination and with it the claim of `move_path.rs:397` that the
   pre-operation state is restored; `UndoPutsBack` therefore assumes overwrite off.
8. In `move_many`, an error of the scan or validation of the shared copy ends the call in `Err` after other sources
   were renamed (`move_many.rs:294`): each source is whole, in one place or the other, but the lists that would say
   which, and which failed, are gone.
9. In `compress`, a read that fails after the writer stopped is announced as failed by its task and is in no list
   (`compress.rs:388`), while `progress-and-cancellation.md` refers to the outcome's failed list for the error.
10. `sync` to a destination that keeps the two Unicode forms of a name apart matches them as one file but copies under
    the source's form, so both forms stay; `MirrorsAfterClean` and `Converges` are stated for destinations that
    identify the names the diff identifies.
11. A single file that another process creates between the conflict check of a move and its rename is replaced although
    `overwrite` is off (`move_path.rs:204-208`): the exception `late` in `ExistingKept`.
12. An entry that is skipped after samples credited some of its bytes (they measured the file that was there) is counted
    off twice: `EntrySkipped` subtracts its whole size (`eta.rs:306`), though its comment says it only retires the
    entry. `CountsFollowEngine` therefore bounds the bytes left in that case, and fixes them in every other.
13. `excludes` means two things: `analyze()` prunes whole subtrees (`walk.rs:259-276`) and ignores it for a root that
    is a file, `remove()` matches only the file's relative path (`remove_filter.rs:81-85`), though `remove_filter.rs:8`
    says the semantics are those of `AnalysisFilter`.
14. Under `Undo`, an early stop of `remove()` clears `succeeded` (`remove.rs:27`) although the files are gone.
15. When the query for case sensitivity fails, `fs_caps/unix.rs:98-112` says the answer `true` makes the collision check
    run; `validate.rs:48` runs it only when the answer is `false`. `NoSilentReplacement` is stated for volumes the host
    can tell.
16. `docs/guide/operations.md:45` gives `false` as the default of `watch`'s `.recursive`, the code has `true`
    (`watch.rs:26`).
17. A single file that is moved across devices to a new name lands in a directory of that name: the copy takes `dest` as
    the directory to copy into and the scan names the file by its base name (`move_path.rs:216`, `scan.rs:58-69`), while
    `lib.rs:116` says `dest` "can be a rename target" and `operations.md:56` that the fallback applies every option
    alike.
18. The collision check runs only on volumes the probe calls case-insensitive (`validate.rs:48`). A case-sensitive
    volume may still take the two Unicode forms of a name for one file; then both are copied and reported, and one is
    kept: the "silent-loss problem this check exists to prevent" (`validate.rs:86-88`). In `sync`, moreover, it looks
    only at the files to copy, and not at those left as they are.
19. `sync` tolerates coarse timestamps only on FAT and exFAT: `fs_caps/mod.rs:139-165` gives every other type it names,
    HFS+, ext2 and ext3 among them, and every type it does not know, a granularity of zero, and calls them "sub-second"
    (`:151`). Where the destination keeps whole seconds, each call copies again the files whose time has a fraction of
    one, although `filesystem-safety.md:65-74` says that the tolerance matches "what that filesystem can actually
    represent".
20. A directory that `analyze()` cannot read is yielded by the walk as an entry without error, its failure kept aside
    (`read_children_error`), where nobody looks (`walk.rs:377-407`): what is below is missing from a report that counts
    no error, while `error_strategy.rs:2` and `CHANGELOG.md:187-189` name an unreadable directory as a per-entry error.
21. An error of `analyze()` on its root itself ends the call under either strategy (`walk.rs:336`), also where
    `error_strategy.rs:11` has errors collected.
22. `estimate()` says that it answers `None` "while any regime with outstanding work has no measured rate yet"
    (`eta.rs:388`); it does so too once a measured rate has faded, after about a minute in which work of its kind was in
    flight and nothing of it got done (`eta.rs:46-57`, `:456`).
23. `operations.md:74` and `remove.rs:132` say that a symlink cycle surfaces as a per-entry error of `remove()`; the
    scan ends the whole call with it (`scan.rs:93`).

## 7. Plan

Done, in this order, each on what came before: `Outcomes`, `Dispatcher`, `DispatchPromise` and the refinement;
`CopyAction`; `Pipeline` with the probe; `Sweep`, `MovePath` with intrusions, `MoveMany`; `Compress`; `Sync`;
`Planner`; `Eta`; `Selection`, `Remove`, `Analysis`, `Cleanup`; `Watch`; and the theorems of section 4.

Left:

1. Case-insensitive destinations and intrusions in the batch move, with names as constants.
2. The promise of the pipeline as a specification of its own, with `Pipeline` shown to implement it.

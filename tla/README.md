# TLA+ models of ZManager Desktop

ZManager Desktop is an archive manager: a Rust process (Tauri, `src-tauri/src`)
that runs archive jobs on worker threads, and web pages (`src/`) that start the
jobs and show them. The Main Window starts work; each accepted job gets a task
window of its own. These modules model the parts of the program that decide
what happens to a job, to the messages about it and to the requests of the
operating system, where threads, callbacks and messages interleave.

## 1. The system

| Component | Code | State it keeps | Operations | What makes it hard |
|---|---|---|---|---|
| Job Registry | `src-tauri/src/job_registry.rs` | job records, retained snapshots, catalog, acceptance queue, counters, subscriptions, leases; one mutex | accept, configure, emit, commit, pause, resume, cancel, dismiss, evict, subscribe, acknowledge | operations of workers and windows in any order; bounded retention and admission; a second copy of each status in the catalog |
| Job workers | `src-tauri/src/commands.rs` (`start_create`, `start_extract`, `test_archive`) | a thread per job, its cancellation token, the pause gate | announce, run the engine with an event sink, settle the outcome | cancel, pause and completion race; panics; a Quit in an overwrite prompt |
| Latest-value subscriptions | `forward_latest_values`, `acknowledge_subscription`, `subscribeWithReconnect` in `src/desktop/jobFeed.ts` | flow state, forwarder locals, page cursor | send, acknowledge, change, stop, reconnect | several locked regions; one message in flight; the last value must arrive |
| Accepted-job feed and handoff | `subscribe_accepted_jobs`, `acknowledge_accepted_job`, `jobFeed.ts`, `jobHandoffController.ts` | acceptance queue, connection generation, delivery chain, presentations | replay, deliver, present, acknowledge, reconnect | replays and start answers hand off one job twice; failures during a reconnect |
| Native Launch Inbox | `native_launch_inbox.rs`, `nativeInboundController.ts` | queue, dedupe lists, readiness, attempts; completed ids | ingest, attach, ready, deliver, acknowledge, shut down | events before the window exists; emission outside the lock; at-least-once delivery |
| Coordinator | `processJobAccounting.ts`, `jobTerminationWatcher.ts`, `disposableTaskLifecycle.ts` | active ids, launch facts | observe, reconcile, reveal, hide, decide to close | a conflated catalog, a feed, answers and windows tell of one job in any order |
| Task window | `workspaces/disposableTask.ts`, `disposableTaskRecoveryController.ts`, `disposableTaskWindowManager.ts` | optimistic requests, retry | reduce, retry, close | optimistic state against snapshots |
| Share queue | `share_queue.rs` | shares, one active send, generations | enqueue, follow a job, schedule, finish, cancel, remove | late results, removal while sending |
| Native drag | `native_drag_session.rs`, `platform/macos.rs`, `NativePromiseDrag.swift` | accepted operations, sessions, promise claims, the host's coordinator | accept, take, start, write, end, release, cancel, reap | six threads settle one job; callbacks of the system against time-outs |
| Destination reservation | `destination_reservation.rs` | reserved paths | reserve, release | two creates of one name |
| Archive browsing | `archive_index.rs`, `archiveLoadController.ts`, `workspaces/archiveWorkspace.ts` | up to four sessions, revisions, cursors; generations of loads and page requests | start, page, search, close; open, refresh, retry, navigate | pages of a growing index, answered out of order; loads that supersede each other |
| Create workspace | `workspaces/createWorkspace.ts`, `createPlanController.ts`, `createStartController.ts` | sources, options, destination, plan, exclusions, folder, selection; timer, submission guard | edit, plan, browse, exclude, submit | plans answered out of order; state kept as paths while plans come and go |
| Quick actions, accounts, LocalSend, platform, user interface | the rest of `src-tauri/src` and `src/` | | | requests and answers, parsing, presentation |

Interaction: a start command accepts a job (`try_accept_job`), which inserts a
record, publishes the catalog and appends to the acceptance queue; it then
stores recovery facts and spawns the worker. The worker reports through
`JobEventCollector`, which waits at the pause gate before each event. The
registry publishes each change of a record to a watch channel; a forwarder task
per subscription sends the newest value and waits for an acknowledgement. The
Main Window follows the catalog (for accounting) and the accepted-job feed (to
open task windows); a task window follows its one job and issues cancel, pause,
resume and dismiss. The inbox hands the requests of the operating system to the
Main Window, which starts jobs for them.

`PROJECT.json` lists each component with its status and, under `hazards`, what
can go wrong at which line with the properties that watch it.

## 2. Modules

| Module | Models | Proofs |
|---|---|---|
| `JobLifecycle` | the abstract promise: the life of a job id | |
| `JobRegistry` | registry operations and the worker of each job; implements `JobLifecycle` | `JobRegistryProofs` |
| `AcceptedFeed` | acceptance queue, stream, page connection, handoff controller | `AcceptedFeedProofs` |
| `LatestValueFeed` | one forwarder with its acknowledgements and its page | `TaskWindowProofs` |
| `TaskWindow` | extends it with the job, the reducer and the buttons of a task window | `TaskWindowProofs` |
| `NativeInbox` | inbox, its threads and the inbound controller | `RequestProofs` |
| `ShareQueue` | queue of shares, its commands, the threads that follow jobs and transfers | `ShareQueueProofs` |
| `Coordinator` | accounting of active jobs, lifecycle of the hidden Main Window and its process | `RequestProofs` |
| `NativeDrag` | one drag out of the window, from acceptance to its end | `NativeDragProofs` |
| `ArchiveBrowse` | archive sessions, the load controller, what the page shows | `ArchiveBrowseProofs` |
| `CreateWorkspace` | the form that creates an archive, its planning and submission | `CreateWorkspaceProofs` |
| `MC...` | the module above for TLC; the configurations give the constants | |

### JobRegistry

`jobs[j]` is the `JobRecord` of id `j`, or `NoRecord`. A record keeps what the
code branches on: the status and the status to resume to, the gate, the
cancellation token, whether a summary is there, what kind of failure came
last, whether recovery facts are stored, the revision, the terminal sequence,
`publication_closed`, and the last published snapshot. Progress counters,
notices, names and time stamps are left out; each change of them is a
publication like any other. `worker[j]` is the program counter of the thread:
`accepted` (the command thread has the id), `ready`, `running` (in the engine),
`gated` (`JobEventCollector.emit` called), `emitting` (past the gate, before
the mutex), `returned` (the engine's outcome is known), then `finished`,
`abandoned` (the command failed after acceptance, no thread) or `dead` (an
uncaught panic).

Every registry method takes the mutex once and is one action; the gate is a
separate lock, so `ArriveAtGate`, `PassGate` and `Emit` are three. The engine
(`zmanager-core`, a submodule outside the sources) is external: it emits at
most `MaxEvents` events, nothing after a last one, reports cancellation only
once the token is cancelled, may complete although it is, may fail, and its run
ends. `EmitJobEvent` treats the engine's Completed and Failed as progress, as
the code does; the command layer settles the job (`Settle`). Only the create
worker is wrapped in `catch_unwind`, so `Panic` leaves other kinds running.

`StoreAndPublish` is `publish_record` followed by `publish_catalog`, with the
fail-closed branch when `u64` is exhausted; `MaxU64` is a constant so that TLC
reaches the exhaustion. `CommitCompleted` keeps the branch that returns with
the status changed and nothing published. An admission evicts, checks the
limit, inserts, publishes and rolls back in one step, as under the mutex.

### AcceptedFeed

A job is named by its acceptance revision, so the queue is an increasing
sequence. The page is one thread; code between two awaits is one step, and the
point at which each of them waits is a value of `stage` (connection) or `phase`
(head of the delivery chain). Messages of an earlier generation are dropped
when the generation moves on, because `onmessage` ignores them.
`reconnecting` is the pending promise that later failures join. `stray` is the
initial `connect()` that a reconnect overtook. `overlooked` is history: the jobs whose
delivery failed after the stream of the reconnect under way had sent them
(`BehindReplay`). `HandOffAnswer` is the other way
into the handoff controller, from the answer of the start command. `opened`
counts task windows. The handoff controller's own `acknowledge` is not wired
by the runtime adapter and stays out; so does `unsubscribe()`.

### LatestValueFeed

One subscription. A value is its revision. The forwarder takes the flow lock
once to clear `ack_queued`, once to set or clear `in_flight`; each is a step,
the acknowledging command comes in between. `tokio::select!` prefers nobody.
The command channel has room for four; `TypeOK` shows it never fills. After a
refusal the page drops its messages and asks again. `gone` is the removal of
the job, which stops the forwarder; so does the end of the window (`Leave`).

### TaskWindow

Extends `LatestValueFeed`: `statuses` tells what each revision said, `JobLifecycle`
what a job may become. `phase`, `shown` and `prompt` are the reducer's state, each
event of the reducer is an action with the guard of the button, callback or timer
that raises it. The job controls are synchronous commands and run in the order of
their calls. A control is refused only when its job is gone (the exhaustion of a
64-bit revision, the other reason, is in `JobRegistry`), so the call and its answer
are one step. A retry is what comes of it: the window closes because the
replacement has one, stays, or stays without offering another retry. Left out are
the dialog of the password, minimizing, and the actions on outputs.

### NativeInbox

An operation that delivers is two steps (itself, then `deliver_pending`'s
collection) and one more for each emission, which happens without the lock.
`main` runs set-up, commands and most ingestion; the single-instance callback
has a thread of its own. There is one window, "main". Events are numbered in the
order in which they are taken in; `log` tells which they are, `queue` maps the numbers
of the queued ones to their window and attempts. The code's queue grows at its end only,
so its order is that of the numbers, and what a thread collected is a set of them which
it emits least first. The dedupe lists (2048
each) and the controller's completed set (512) are unbounded in the model: far
fewer events are handed out than would roll them over.

### ShareQueue

`item[s]` is the `ShareRecord` of share `s` while `s` is in `present`; ids are
enqueue sequences. A record keeps whether there is a receiver (its generation),
an artifact, the compression and transfer states, skipped, cancelled, the
attempt and `delivery_uncertain`; the mode follows from the compression state.
Commands are synchronous and run on the main thread one after the other, so
`Idle` guards each of them until the last one has called `schedule()`; each
compression (`watch`) and each transfer (`sending`, then `leaving`) has a thread
of its own. A transfer is named by its share and attempt instead of by a drawn
`send_id`. Jobs live as `JobLifecycle` says, with `running` for all that comes
before a cancellation or an end. What LocalSend does with a transfer, or with
the request to cancel one, is its outcome: sent, cancelled or failed. A request
made again is answered from the queue and changes nothing, so it is no action.
`confirmed` is history: how often the user confirmed a delivery in doubt. The
thread that follows a job sees its end, because a terminal record leaves by
dismissal (no page calls it) or when newer ones push it out.

### Coordinator

The Main Window's page, with the parts of the registry it learns from. A job has
one of the statuses that accounting tells apart; `catalog` is the snapshot sent
last, `carrying` that it is on its way: one at a time, the next one taken after
the acknowledgement, as `LatestValueFeed` shows. The feed may deliver any
accepted job, which allows more orders than its queue does. A job is handed off
in one step, with its window; a presentation that waits or fails is the subject
of `AcceptedFeed`. `answers` are start commands that were accepted and not yet
answered, with what waits for each: an inbound request, the Main Window, or a
task window that asked for a retry (once per window, and only of a job that
ended, as a retry needs a failure). `MaybeClose` is a part of the three handlers
that call it: a catalog, the removal of the last task window, a settled request.
The hidden Main Window is then the last window, so the process goes with it.
`RevealRequested` is whatever calls `revealNormalAppWindow`; the window counts
as shown when it was, or the attempt fails. `CloseMain` is the close command and
the system's close request, which decide alike. A window and its entry go in one
step, and the handoff a task window asks for is heard of before its end. Left
out are the termination watcher, which nothing waits on, the cap on recent
terminal ids, and jobs that leave the catalog.

### NativeDrag

One drag. `job` is its record by status and token, changed by what the emitters of
`JobRegistry` do to a status; `command` is the program counter through
`accept_native_file_drag` and `start_native_file_drag`; `session` its place in the
session registry. Each of the two registries and the job registry has its own lock,
so a step holds one. On macOS Finder asks for promised files on threads of its own
(`promise.writer`), again for the same one if it likes (`MaxRequests`); a writer
claims its promise, opens the file, writes, and keeps it if the token allows
(`KeepFile`), or makes the directories of a promise without files. `finder` is the
Swift side: `remaining` promises, the end of the drag, the one callback with the
outcome and the release of the context. On Windows and Linux everything is staged
inside the command. The reaper removes an expired operation or session in one step
and settles the job in the next; so does the exit. The limits of sixteen are
refusals that may come at any time, the engine and the stream are their outcomes. That
a record created in the same command refuses its recovery facts is left out; only an
exhausted revision could make it.

### ArchiveBrowse

`sessions` is the registry of `archive_index.rs` with the worker of each session,
whose index grows by an entry (`Insert`) and is published as a revision in a step of
its own (`Publish`), as its two locks are. Start and close are synchronous commands
on the main thread (`calls`, in order); pages, searches and waits run on threads, so
`requests` are answered in any order and with the revision they read. `loads` are
the calls of `loadArchive`: where each awaits, what it carries over the await, and
whether a later one superseded it; generations and request numbers are only compared
with the newest, so a flag says the same. `workspace` is what the page shows. An
archive is a sequence of the folders of its entries; the pages are sorted the other
way, so that a page of a partial index differs from the same page of the whole.

### CreateWorkspace

The form, with `planState` and `plan` as the page has them, `revision` for
`planRevision`, exclusions, folder, search and selection as paths. A path is the
sequence of its names. Planning takes the contents of the sources, some of which may
have vanished by then, and fails for an invalid split. `scheduled` is the revision
of the debounce timer, `planning` and `starts` are calls without answer, answered in
any order; the submission guard is shared with other kinds of work. Each intent of
`createRuntimeActions.ts` is one action with all it calls, planning included. The
readiness that the toolbar asks for before it offers Create is not a guard: Create
decides by itself. Left out are anchor and focus of a selection, expansion of
folders, columns, names of archives, the preview in a browser, Compress & Share.

## 3. Runs

Every configuration switches the deadlock check off: users may stop issuing
commands, and the counters that bound the models run out.

| Run | Bounds | Shows |
|---|---|---|
| `registry_admission` | 3 ids, 2 places, 2 retained, revisions up to 9 | catalog and order of eviction; three ids are the fewest with a refusal, an eviction and a terminal record that is kept while another goes; nine lets the catalog's revision and the terminal sequence run out mid-way |
| `registry_worker` | 1 job of each kind, 2 events, 4 controls | gate, refinement of `JobLifecycle`, cancellation and work end; jobs share only admission and the counters, which the other run covers; four controls allow pause, resume, pause, cancel |
| `accepted_feed` | 3 jobs, 2 failures | one window a job, subscriptions accounted for, the queue drains but for jobs behind a replay; three jobs give a predecessor and a successor of the one that fails, the second failure one that joins the reconnect of the first |
| `accepted_feed_unpresented` (violation) | 2 jobs, 1 failure | section 5 |
| `task_window` | 5 revisions, 1 refusal | backpressure, no acknowledgement refused by a race, the phase is settled, the end is shown and the window goes; five revisions hold pause, resume, cancel and the end, and in-flight, queued and current value differ from the third on |
| `native_inbox` | 2 threads, 4 events, queue of 2, 3 attempts, 1 failure | effects at most once, first handled in order, nothing lost; more events than places and one pair with the same key |
| `share_queue` | 2 shares, 2 places, restarts up to 2 attempts | one transfer that the queue knows, no ready share forgotten, stops win, no repeated transfer unasked, removal and cancellation; two shares are one that sends and one that waits, in either order of readiness |
| `coordinator` | 2 jobs, 1 request, 1 reveal, 1 failed reveal | handed-off jobs count while they live, the hidden window goes with nothing it could know of left, and does go; two jobs are one that is over and one that follows it (a second archive or a retry) |
| `coordinator_early_exit` (violation) | the same | section 5 |
| `native_drag` | a file and a folder, 4 requests | completed means written, cancelled keeps nothing more, every drag ends; the two promises are the two ways to write one, four requests ask for each again while it is written, after it failed and after it was kept |
| `archive_browse` | 2 archives of two and no entries, 2 sessions, 2 loads, 3 actions, pages of one, up to 2 revisions before the last | no session is forgotten, what stays on the screen is the whole listing, loading ends; two loads are one that supersedes another, two entries are a page that is complete and one that is not |
| `create_workspace` | 2 sources, 4 paths, 3 plan revisions, 1 search | preview, view and request belong to the sources of the form, planning ends; three revisions are an answered plan, one under way and one that is waiting for the timer |

Fairness: worker threads run and an engine run ends (`JobRegistry`); calls are
answered, messages and timers come, presentations end (`AcceptedFeed`,
`TaskWindow`); the application sets up, the page loads, threads run on
(`NativeInbox`); transfers end, a job that was asked to end does, threads run on
(`ShareQueue`); messages and answers arrive, a request that has its answers
settles, a reveal ends (`Coordinator`); a claimed promise is written or fails,
the drag loop of Windows and Linux returns, the timer of a retained source fires
and the reaper comes (`NativeDrag`); enumeration ends, calls are answered
(`ArchiveBrowse`); the timer fires, plans are answered (`CreateWorkspace`). Nothing is assumed of users, of the choice
between the branches of a `select!`, or of the order of independent answers. Actions
that end either way (a presentation that succeeds or fails) are fair only together.
`AcceptedJobsLeave` has a limit: a job that failed behind the replay of a reconnect under
way (`overlooked`, section 5) may stay until a later one is accepted. It holds of every
other job, whichever two steps fail.

`CancellationEnds` and `WorkEnds` make the exceptions the code leaves: a dead
worker (uncaught panic), a record whose publication closed, a job left paused.
`WindowFollowsJob` ends with the removal of the job, `EventsAreHandled` with a
failed handler or the exit, `QuietEnds` is about processes that were never
launched normally, `SettledPageIsWhole` about sessions that can be read.

## 4. Proofs

`JobRegistryProofs` proves, for all limits, kinds and bounds, everything that
`registry_admission` and `registry_worker` check except liveness, and what no run
needs to check any more: `TypeOK`, `AdmissionBound`, `SuccessIsAtomic`,
`FinishedWorkIsTerminal`, `CancelledWasAsked`, `TerminalIsFinal`,
`OnlyTerminalJobsLeave` and `SnapshotsAdvance`. The argument:

* `TypeOK` is inductive by itself (`TypeCorrect`). What `PublishCatalog` and
  `StoreAndPublish` do to the types, and that `Evicted` and `Retained` keep
  records or drop them, are lemmas.
* The state invariants are not inductive alone. `GateMatchesStatus` needs the
  record to be mutable or terminal as its sequence says, `CancelledWasAsked`
  needs the token of every cancelling job cancelled and that of a worker about
  to emit a cancelled event, `SuccessIsAtomic` needs the relation between
  summary and status of the record itself and not only of its last snapshot.
  `RecordInv` collects what holds of a record, `WorkerInv(j)` what the place of
  worker `j` in its program says about record `j`: as long as it has events to
  report the record is there and not terminal, after it finished the record
  cannot change, ids that were never given out are untouched. `IInv` is
  `TypeOK` with both for every id.
* `StepShape` says what a step does to the records: nothing, admit one job,
  dismiss one, or rewrite one unfinished record as `Rewrite` allows. The action
  properties (`TerminalFinal`, `SnapshotRevisions`, `OnlyTerminalLeave`) and
  the refinement (`RegistryImplementsLifecycle`) follow from it and `IInv`.
* `AdmissionIsBounded` counts, and rests on the library's facts about finite
  cardinalities. `CatalogIsCurrent` rests on it by way of
  `RefusalEvictsNothing`: `job_capacity` is the one path that changes records
  and does not publish the catalog, and when what eviction leaves takes every
  place, eviction took nothing.

`AcceptedFeedProofs` proves the safety properties of `accepted_feed`, and `TypeOK`
and `AcknowledgedAfterPresentation`, for any number of jobs and failures. With the types, three facts are inductive:
`ConnectionInv` (the registry's subscriptions are those the page accounts for,
a `connect()` that is not part of a reconnect is the initial one and was not
overtaken, giving up belongs to a reconnect), `WindowInv` (a job has one window
once it was presented and is not being presented again) and `AckInv` (what is
acknowledged was presented). `ReconnectKeeps` and `DeliveryFailsKeeps` treat the
two operations that other handlers run as their last step.

`ShareQueueProofs` proves `TypeOK` and every property of `share_queue` but the
liveness one, for any number of shares, places and attempts. Three of its invariants need each
other: that a stopped transfer ends cancelled needs the active send to have its
record, that it has its record needs removal to be refused, and the refusal
needs the states of all records. `RecordInv` adds what relates the fields of one
record to each other, to what its user confirmed and to its job: a share that
may be sent is not in doubt, one that is neither in doubt nor on its way has no
attempt that was not confirmed, a cancelled one is or ends cancelled, a
compression that is over has a job that ended. `QueueNeverRests` needs each
operation to leave a call of `schedule()` to somebody; what that call does is
`ScheduleKeeps`.

`RequestProofs` proves, of `NativeInbox`, `InboxTypeOK`, `EffectsAtMostOnce`,
`FirstHandledInOrder` and the safety part of `EventsAreHandled` (`NothingIsLost`: until
the exit an event that was taken in was begun, is in the chain, is with a thread, or is
queued with all its attempts left), for any events, queue limit, attempts and threads.
`InboxInv` follows an event from the queue to the threads, the page's chain and its
handler. `Distinct` and `Worked` give the single effect: no two events of one key are
taken in, and what was completed is known as such. For the order, `InBatch` and `InChain`
say that whatever a thread is to emit, or has emitted, comes after all that was taken in
before it. They need `Heard`, that nothing is emitted to a page without a listener, and
that an earlier event is still attempted when a later one is collected: it stays in the
queue until it was begun (`Kept`), and each of its attempts that the page has not heard
of is with a thread (`Tries`). So when attempts run out, as many threads hold the event;
the one that collects now holds nothing, hence `AttemptsAssumption`: no more threads
ingest than an event has attempts (two and three in the code). With fewer attempts the
order is lost.

The same module proves the safety properties of `coordinator`, `TypeOK` and
that a job once known as ended is not counted again (`NotCountedAgain`), for any
number of jobs, requests and reveals. `Knowledge` is the strengthening: it bounds how far
the catalog on its way, the page's sets and the registry can be apart. A catalog
never shows a job that was not accepted nor an end that did not happen, what the
page recorded as over or observed still is so in the last catalog, and a request
with an unanswered command is pending. So a job that was handed off and lives
cannot be released by any catalog that may still arrive, and the decision to
close, which sees no active id and no request, loses neither (`ClosingIsIdle`).

Four modules keep a part of the Job Registry of their own, the statuses of the jobs they
start or follow. Each is shown to let these jobs live as `JobLifecycle` promises, what
`JobRegistry` is shown to do: `DragJobLives`, `CompressionsLive` (share queue),
`TaskJobLives` (task window, from its first revision on) and `AccountedJobsLive`
(coordinator). Where a module has one status for all that comes before a cancellation
or an end, it is read as queued, and an end without a name as a cancelled one. No run
checks these refinements; with them, what is concluded from the lives of jobs in one
module does not rest on lives that the registry never produces.

`TaskWindowProofs` proves `TypeOK` and `OneInFlight` of `LatestValueFeed`, that no
acknowledgement of a held subscription is refused (`AcksTaken`), then, for the task
window that extends it, `TaskTypeOK` and `PhaseIsSettled`. The feed's invariant
follows the one message there may be: `InFlight` lets nothing be on its way, to the
page or back, but the revision that flow state and forwarder agree on, `OnePlace`
has it in one place at a time, `Bounded` keeps every revision behind the last one
published, `Connected` relates a subscription to its forwarder and its page.
`TaskRunsFeed` shows that a step of a task window takes a step of its feed or leaves
it alone, so that the feed's invariant is the window's too. `PhaseIsSettled` also
needs `Shown`: a live window shows a job that has not ended.

`NativeDragProofs` proves the safety properties of `native_drag`, for any number of
promises and requests. No thread knows what the others did; what it may conclude from
its own place is the invariant. `Confined` says what cannot have begun without a
session, `Told` that whoever is about to report a cancellation has cancelled the
token, and that only a committed drop takes the session away without doing so, `Kept`
that what counts as complete was written, `Counted` that every request is with a
writer, being answered or over. The proofs turned up two definitions with a `CASE`
whose guards overlap, which TLC decides by their order and TLA+ leaves open; they are
alternatives of `IF` now, in the order of the code.

`CreateWorkspaceProofs` proves the safety properties of `create_workspace` for any
sources, contents, options and searches. A plan on show is of the form's sources because
the timer and the newest call have the newest revision and its sources (`Planned`); what is
submitted is what was shown because one submission is out at a time (`Alone`). The
assumption on the contents says that they are paths, non-empty sequences of names.

`ArchiveBrowseProofs` proves the safety properties of `archive_browse` for any
archives, number of loads and size of page. Its parts are inductive together. `Turns`: one
load is current, and has the active session or nobody has one. `Commands`: the load of a
command waits for it, each load for one, and no close is of the active session. `Asked`: a
page that is asked for belongs to a load that waits for it, which asks for one at a time.
`Accounted`: an open session is active or has a command. `Indexed`: a session that is ready
has all entries of its archive. `AllNumbered`: pages begin where their numbers say.
`WholePages`: once the archive is indexed and its load asked for the final page, what can
still be accepted will be whole, and without such a request the rows are. They are
predicates of values, `Consistent` is all of them, because a step makes one change
after the other, each of which keeps them.

The constants' assumptions are in the modules that declare them: limits are
positive naturals, kinds are among three, bounds are naturals, contents are paths, no
more threads ingest than an event has attempts.

Every safety property that a run checks is a theorem. Only model-checked is liveness, and
what else rests on fairness: the prover does not support it. These are `CancellationEnds`
and `WorkEnds`, `AcceptedJobsLeave`, `WindowFollowsJob`, `EventsAreHandled`,
`CancelledEnds`, `QuietEnds`, `DragEnds`, `LoadingEnds` and `PlanningEnds`.

## 5. Findings

* The acknowledgement of an accepted job is cumulative and the delivery chain
  goes on after a failure, so a job whose window failed to open can leave the
  queue with a later one and is not replayed (`accepted_feed_unpresented`).
* The start command of a retry is neither a request nor a job the coordinator
  counts. A failed task window that is closed before the answer is the last one,
  and the hidden coordinator goes while the accepted replacement runs
  (`coordinator_early_exit`). `DestroyedIdle` says what it never takes along.

Known from `accepted_feed`, where it is the limit that `AcceptedJobsLeave` states, and without
a run of its own:

* A failure during a reconnect joins it (`jobFeed.ts:196`). The stream of that reconnect
  sends what is queued before its subscription is answered; a job that is delivered and
  fails in between is behind the replay, and no other one starts. It stays in the queue,
  without a window unless the answer of its start command is handed off yet, until a later
  job is accepted or the feed reconnects for another reason. Two failures are needed: one
  that causes the reconnect, of a subscription or of a presentation, and the presentation
  during it. The test at `jobFeed.test.ts:125` says that the feed "replays accepted Jobs from
  the last acknowledged revision"; `public-docs/ARCHITECTURE.md:30` calls it replayable.

Observed while modelling, where no document, comment or test of the repository says
otherwise:

* Retained terminal jobs are bounded at admissions only; jobs that end later stay
  until the next one.
* Task window: every snapshot closes the prompt that protects a running task, so a
  busy job takes it away before it is answered. A cancellation that reaches a job
  which ended and left is shown as going on.
* Drag: the writer of a promise that holds directories alone never looks at the
  token. The session of a drag that could not be described to the host is left to the
  reaper. Repeated requests of Finder for one promise bring `remaining` to zero early,
  and a drop that was written is then reported as failed. A refusal by the host is
  reported as a cancellation.
* Archive: closing it does not tell the load controller, so a load under way brings
  it back; so does a page that was read before the enumeration failed and is answered
  after it, as a loaded archive with part of its listing (the reason
  `SettledPageIsWhole` asks for a session that can be read). A folder chosen while
  the index grows is left again with its next revision. An older load that resumes in
  its password retry takes over from a newer one. A search during the enumeration is
  refused and not made again; one in a failed session is answered from its part.
* Create form: saving preferences and dropping sources that are listed already change
  the options without a new plan. A plan that failed becomes ready again with an edit
  of the destination, the older plan in it. The default options of a plan say
  `followSymlinks: false` whatever the form says. Sources added while a start is
  pending are wiped with its success. Exclusions that an intermediate plan does not
  know are gone with the next. When the feed hands the job off before the answer,
  the form stays filled (`StartOvertaken`). A file that is new under an excluded
  folder is in the archive after the next plan.

## 6. Not modelled, and the plan

Not modelled, with the reason in `PROJECT.json`: account and hosted services,
key chain, LocalSend's network protocol, platform calls, diagnostics, the
archive engine, parsing of launch requests, most of the user interface (columns,
details, preferences, menus), generated contracts. These are request and answer,
parsing or presentation: they keep little state that interleaves.

Left of the components that are modelled, in the order of their worth:

1. `DestinationReservation` with the rename loop of `start_create`, the one hazard of
   the list that a module of its own would cover.
2. Selections in an archive and what an extraction of them names: the whole folder,
   or the entries on the page.
3. Handoff leases and unpublished drag jobs in `JobRegistry`.

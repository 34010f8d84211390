----------------------------- MODULE NativeDrag -----------------------------
(***************************************************************************)
(* Dragging archive entries out of the window, from the acceptance of the  *)
(* job to its end (native_drag_session.rs; accept_native_file_drag and     *)
(* start_native_file_drag in commands.rs; the promise callbacks of         *)
(* platform/macos.rs; NativePromiseDrag.swift; the reaper in main.rs).     *)
(*                                                                         *)
(* A drag is settled by whichever of its threads comes first: the command, *)
(* Finder's writer queues, AppKit's end of the drag, the release of the    *)
(* callback context, the reaper, or the user's cancellation.  The registry *)
(* of operations, the registry of sessions and the job registry each have  *)
(* a lock of their own, so every step below holds at most one of them; the *)
(* job registry is modelled by what its emitters do to a status.           *)
(*                                                                         *)
(* On macOS a drag promises files which Finder asks for later; on Windows  *)
(* and Linux the whole drag happens inside the command.                    *)
(***************************************************************************)
EXTENDS Integers, FiniteSets

CONSTANTS Promise,    \* the top-level names of the drag
          Folders,    \* the promises that hold directories and no file
          MaxRequests \* bound: how often Finder asks for a promised file

ASSUME PromiseAssumption ==
  IsFiniteSet(Promise) /\ Promise # {} /\ Folders \subseteq Promise
ASSUME RequestAssumption == MaxRequests \in Nat

VARIABLES
  platform,  \* "promise" (macOS) or "staged" (Windows, Linux)
  job,       \* [status, token]: the job record and its cancellation token
  command,   \* [pc, outcome, streamFailed]: accept and start, one after the other
  session,   \* "none", "open" or "gone": its place in the session registry
  promise,   \* [writer, completed, written]: what became of each promise
  finder,    \* the coordinator, the lease and its source in the Swift host
  reaping,   \* the reaper removed the session and has yet to report it
  exiting    \* the exit handler has shut the session registry down

vars == <<platform, job, command, session, promise, finder, reaping, exiting>>

TerminalStatus == {"completed", "failed", "cancelled"}
Ended   == job.status \in TerminalStatus
Open    == session = "open"
Writing == {p \in Promise : promise.writer[p] # "idle"}
Files   == Promise \ Folders

TypeOK ==
  /\ platform \in {"promise", "staged"}
  /\ job \in [status : {"none", "queued", "running", "cancelling"} \cup TerminalStatus,
              token  : BOOLEAN]
  /\ command \in
       [pc : {"none", "accepting", "accepted", "expired", "taken", "started",
              "prepared", "launching", "created", "native", "staging",
              "staged", "erred", "over"},
        outcome : {"none", "dropped", "cancelled", "noDrop"},
        streamFailed : BOOLEAN]
  /\ session \in {"none", "open", "gone"}
  /\ promise \in
       [writer : [Promise -> {"idle", "claimed", "opened", "whole", "broken"}],
        completed : SUBSET Promise,
        written   : SUBSET Promise]
  /\ finder \in
       [source    : BOOLEAN,
        ended     : {"none", "dropped", "cancelled"},
        remaining : 0..Cardinality(Promise),
        finishing : 0..MaxRequests,
        callback  : {"none", "dropped", "cancelled", "settle", "commit",
                     "missing", "close", "over"},
        release   : {"none", "held", "emit", "done"},
        requests  : 0..MaxRequests]
  /\ reaping \in BOOLEAN
  /\ exiting \in BOOLEAN

Init ==
  /\ platform \in {"promise", "staged"}
  /\ job = [status |-> "none", token |-> FALSE]
  /\ command = [pc |-> "none", outcome |-> "none", streamFailed |-> FALSE]
  /\ session = "none"
  /\ promise = [writer |-> [p \in Promise |-> "idle"], completed |-> {}, written |-> {}]
  /\ finder = [source |-> FALSE, ended |-> "none",
               remaining |-> Cardinality(Promise), finishing |-> 0,
               callback |-> "none", release |-> "none", requests |-> 0]
  /\ reaping = FALSE
  /\ exiting = FALSE

----------------------------------------------------------------------------
(* The job and the session of a drag *)

\* emit_direct_event and commit_completed of a drag's job: a terminal record is
\* left alone, and an ending of a cancelling job is a cancelled one.
StatusAfter(s, e) ==
  CASE s \in TerminalStatus                              -> s
    [] s = "cancelling" /\ e \in {"failed", "completed"} -> "cancelled"
    [] s = "cancelling" /\ e = "running"                 -> s
    [] OTHER                                             -> e

Emit(e) == job' = [job EXCEPT !.status = StatusAfter(@, e)]

GoTo(pc) == command' = [command EXCEPT !.pc = pc]

Callback(pc) == finder' = [finder EXCEPT !.callback = pc]

\* NativeDragSessionRegistry::cancel: remove the session, if it is there, and
\* cancel its token, which is the token of the job.
CancelSession ==
  /\ session' = IF Open THEN "gone" ELSE session
  /\ job' = [job EXCEPT !.token = @ \/ Open]

----------------------------------------------------------------------------
(* The commands *)

\* accept_native_file_drag creates the job, unpublished, and stores its recovery
\* facts, which a record that was just created does not refuse.
Accept ==
  /\ command.pc = "none"
  /\ job' = [job EXCEPT !.status = "queued"]
  /\ GoTo("accepting")
  /\ UNCHANGED <<platform, session, promise, finder, reaping, exiting>>

\* NativeDragOperationRegistry::accept. With sixteen operations of other drags
\* waiting already it refuses, and the job ends.
Register ==
  /\ command.pc = "accepting"
  /\ \/ GoTo("accepted") /\ UNCHANGED job
     \/ GoTo("over") /\ Emit("failed")
  /\ UNCHANGED <<platform, session, promise, finder, reaping, exiting>>

\* start_native_file_drag takes the operation: only one call gets it.
Take ==
  /\ command.pc = "accepted"
  /\ GoTo("taken")
  /\ UNCHANGED <<platform, job, session, promise, finder, reaping, exiting>>

Announce ==
  /\ command.pc = "taken"
  /\ Emit("running")
  /\ GoTo("started")
  /\ UNCHANGED <<platform, session, promise, finder, reaping, exiting>>

\* A step of the command that finds the token cancelled settles the job.
StopIfCancelled ==
  /\ job.token
  /\ Emit("cancelled")
  /\ GoTo("over")

\* The entries are collected from the index or the archive, which may fail.
Prepare ==
  /\ command.pc = "started"
  /\ \/ StopIfCancelled
     \/ ~job.token /\ Emit("failed") /\ GoTo("over")
     \/ ~job.token /\ GoTo("prepared") /\ UNCHANGED job
  /\ UNCHANGED <<platform, session, promise, finder, reaping, exiting>>

\* The second look at the token, before the native drag starts.
Launch ==
  /\ command.pc = "prepared"
  /\ \/ StopIfCancelled
     \/ ~job.token /\ GoTo("launching") /\ UNCHANGED job
  /\ UNCHANGED <<platform, session, promise, finder, reaping, exiting>>

\* create_with_job_token. After the exit handler, or with sixteen sessions of
\* other drags open, it refuses.
CreateSession ==
  /\ platform = "promise" /\ command.pc = "launching"
  /\ \/ ~exiting /\ session' = "open" /\ GoTo("created")
     \/ GoTo("erred") /\ UNCHANGED session
  /\ UNCHANGED <<platform, job, promise, finder, reaping, exiting>>

\* The items cannot be described or the window has no view: the command fails
\* and the session stays open until the reaper finds it.
CannotDescribe ==
  /\ command.pc = "created"
  /\ GoTo("erred")
  /\ UNCHANGED <<platform, job, session, promise, finder, reaping, exiting>>

\* The host refuses the drag: the session is cancelled, and with it the token,
\* so the command below settles the job as a cancelled one.
HostRefuses ==
  /\ command.pc = "created"
  /\ CancelSession
  /\ GoTo("erred")
  /\ UNCHANGED <<platform, promise, finder, reaping, exiting>>

\* PromiseStartInput.start retains the source and begins the dragging session.
BeginDrag ==
  /\ command.pc = "created"
  /\ GoTo("native")
  /\ finder' = [finder EXCEPT !.source = TRUE, !.release = "held"]
  /\ UNCHANGED <<platform, job, session, promise, reaping, exiting>>

\* The command goes on with a drag the callbacks own. A stream that has failed
\* by now ends the job at once, without closing the session.
ReturnPending ==
  /\ command.pc = "native"
  /\ GoTo("over")
  /\ IF command.streamFailed
     THEN Emit(IF job.token THEN "cancelled" ELSE "failed")
     ELSE UNCHANGED job
  /\ UNCHANGED <<platform, session, promise, finder, reaping, exiting>>

\* The platform could not run the drag.
SettleError ==
  /\ command.pc = "erred"
  /\ Emit(IF job.token THEN "cancelled" ELSE "failed")
  /\ GoTo("over")
  /\ UNCHANGED <<platform, session, promise, finder, reaping, exiting>>

----------------------------------------------------------------------------
(* A drag that happens inside the command (Windows, Linux) *)

StartStaging ==
  /\ platform = "staged" /\ command.pc = "launching"
  /\ GoTo("staging")
  /\ UNCHANGED <<platform, job, session, promise, finder, reaping, exiting>>

\* The stream provider extracts one file. Once the token is cancelled it
\* refuses without recording a failure.
StageEntry(p) ==
  /\ command.pc = "staging"
  /\ p \in Files \ promise.written
  /\ ~job.token
  /\ \/ promise' = [promise EXCEPT !.written = @ \cup {p}] /\ UNCHANGED command
     \/ command' = [command EXCEPT !.streamFailed = TRUE] /\ UNCHANGED promise
  /\ UNCHANGED <<platform, job, session, finder, reaping, exiting>>

\* The drag loop returns: an outcome, or an error.
DragLoopReturns ==
  /\ command.pc = "staging"
  /\ \/ GoTo("erred")
     \/ \E o \in {"dropped", "cancelled", "noDrop"} :
          command' = [command EXCEPT !.pc = "staged", !.outcome = o]
  /\ UNCHANGED <<platform, job, session, promise, finder, reaping, exiting>>

\* A drop that asked for no file is no drop; one that got some of them failed.
StagedEnding ==
  IF command.streamFailed THEN IF job.token THEN "cancelled" ELSE "failed"
  ELSE IF command.outcome = "dropped" /\ Files \subseteq promise.written THEN "completed"
  ELSE IF command.outcome = "dropped" /\ Files \cap promise.written # {} THEN "failed"
  ELSE "cancelled"

SettleStaged ==
  /\ command.pc = "staged"
  /\ Emit(StagedEnding)
  /\ GoTo("over")
  /\ UNCHANGED <<platform, session, promise, finder, reaping, exiting>>

----------------------------------------------------------------------------
(* Finder asks for the promised files *)

\* write_promise under the lock: an unknown session, or a promise that is being
\* written or is complete, refuses; the coordinator counts every request.
RequestPromise(p) ==
  /\ finder.source /\ finder.requests < MaxRequests
  /\ IF Open /\ p \notin promise.completed \cup Writing
     THEN /\ promise' = [promise EXCEPT !.writer[p] = "claimed"]
          /\ finder' = [finder EXCEPT !.requests = @ + 1]
     ELSE /\ finder' = [finder EXCEPT !.requests = @ + 1, !.finishing = @ + 1]
          /\ UNCHANGED promise
  /\ UNCHANGED <<platform, job, command, session, reaping, exiting>>

\* Without the lock: a file is opened only when the token is not cancelled.
OpenFile(p) ==
  /\ promise.writer[p] = "claimed" /\ p \in Files
  /\ ~job.token
  /\ promise' = [promise EXCEPT !.writer[p] = "opened"]
  /\ UNCHANGED <<platform, job, command, session, finder, reaping, exiting>>

\* Mutant of KeepFile: the file is kept without the last look at the token.
KeepFileRegardless(p) ==
  /\ promise.writer[p] = "opened"
  /\ promise' = [promise EXCEPT !.writer[p] = "whole", !.written = @ \cup {p}]
  /\ UNCHANGED <<platform, job, command, session, finder, reaping, exiting>>

\* Everything is written, and the token is looked at once more.
KeepFile(p) ==
  /\ promise.writer[p] = "opened"
  /\ ~job.token
  /\ promise' = [promise EXCEPT !.writer[p] = "whole", !.written = @ \cup {p}]
  /\ UNCHANGED <<platform, job, command, session, finder, reaping, exiting>>

\* A promise of directories alone never looks at the token.
MakeFolders(p) ==
  /\ promise.writer[p] = "claimed" /\ p \in Folders
  /\ promise' = [promise EXCEPT !.writer[p] = "whole", !.written = @ \cup {p}]
  /\ UNCHANGED <<platform, job, command, session, finder, reaping, exiting>>

\* The token is cancelled, the destination refuses, or the archive does not
\* yield the entry: what was created is removed again. Only a failure of the
\* stream itself is remembered for the command.
WriteFails(p) ==
  /\ promise.writer[p] \in {"claimed", "opened"}
  /\ promise' = [promise EXCEPT !.writer[p] = "broken"]
  /\ \/ UNCHANGED command
     \/ /\ promise.writer[p] = "opened"
        /\ command' = [command EXCEPT !.streamFailed = TRUE]
  /\ UNCHANGED <<platform, job, session, finder, reaping, exiting>>

\* The tail of write_promise, under the lock again: the session may be gone.
RecordWrite(p) ==
  /\ promise.writer[p] \in {"whole", "broken"}
  /\ promise' = [promise EXCEPT
       !.writer[p] = "idle",
       !.completed = IF /\ Open
                           /\ promise.writer[p] = "whole"
                        THEN @ \cup {p} ELSE @]
  /\ finder' = [finder EXCEPT !.finishing = @ + 1]
  /\ UNCHANGED <<platform, job, command, session, reaping, exiting>>

----------------------------------------------------------------------------
(* PromiseDragCompletionCoordinator, and the outcome it delivers once *)

\* takeOutcomeIfReady: a cancelled drag at once, a dropped one when nothing
\* remains.
CallbackAfter(f) ==
  IF /\ f.callback = "none"
     /\ f.ended = "cancelled" \/ (f.ended = "dropped" /\ f.remaining = 0)
  THEN f.ended ELSE f.callback

Deliver(f) == finder' = [f EXCEPT !.callback = CallbackAfter(f)]

\* Mutant of PromiseFinished: more requests than promises count below zero.
PromiseFinishedBelowZero ==
  /\ finder.finishing > 0
  /\ Deliver([finder EXCEPT !.finishing = @ - 1, !.remaining = @ - 1])
  /\ UNCHANGED <<platform, job, command, session, promise, reaping, exiting>>

\* A request is over, whatever became of it; the count stops at zero.
PromiseFinished ==
  /\ finder.finishing > 0
  /\ Deliver([finder EXCEPT !.finishing = @ - 1,
                                  !.remaining = IF @ = 0 THEN 0 ELSE @ - 1])
  /\ UNCHANGED <<platform, job, command, session, promise, reaping, exiting>>

\* draggingSession(_:endedAt:operation:).
DraggingEnded(o) ==
  /\ finder.source /\ finder.ended = "none"
  /\ Deliver([finder EXCEPT !.ended = o])
  /\ UNCHANGED <<platform, job, command, session, promise, reaping, exiting>>

\* promise_outcome_callback: a cancelled drag closes its session first.
CloseCancelled ==
  /\ finder.callback = "cancelled"
  /\ CancelSession
  /\ Callback("settle")
  /\ UNCHANGED <<platform, command, promise, reaping, exiting>>

SettleCancelled ==
  /\ finder.callback = "settle"
  /\ Emit("cancelled")
  /\ Callback("over")
  /\ UNCHANGED <<platform, command, session, promise, reaping, exiting>>

\* Mutant of TakeSummary: promises that are still unwritten do not matter.
TakeAnySummary ==
  /\ finder.callback = "dropped"
  /\ IF Open
     THEN Callback("commit") /\ session' = "gone"
     ELSE Callback("missing") /\ UNCHANGED session
  /\ UNCHANGED <<platform, job, command, promise, reaping, exiting>>

\* take_completed_summary: every promise complete and none being written. The
\* session is closed without cancelling its token.
TakeSummary ==
  /\ finder.callback = "dropped"
  /\ IF /\ Open
        /\ promise.completed = Promise /\ Writing = {}
     THEN Callback("commit") /\ session' = "gone"
     ELSE Callback("missing") /\ UNCHANGED session
  /\ UNCHANGED <<platform, job, command, promise, reaping, exiting>>

CommitDrop ==
  /\ finder.callback = "commit"
  /\ Emit("completed")
  /\ Callback("over")
  /\ UNCHANGED <<platform, command, session, promise, reaping, exiting>>

\* "Finder reported a drop before all promised files were written."
FailDrop ==
  /\ finder.callback = "missing"
  /\ Emit("failed")
  /\ Callback("close")
  /\ UNCHANGED <<platform, command, session, promise, reaping, exiting>>

CloseFailed ==
  /\ finder.callback = "close"
  /\ CancelSession
  /\ Callback("over")
  /\ UNCHANGED <<platform, command, promise, reaping, exiting>>

\* ActivePromiseDrags.remove, after the outcome or after fifteen minutes.
RemoveSource ==
  /\ finder.source
  /\ finder' = [finder EXCEPT !.source = FALSE]
  /\ UNCHANGED <<platform, job, command, session, promise, reaping, exiting>>

\* Nobody holds the lease any more: no source, no request being answered, no
\* outcome being delivered.
LeaseUnused ==
  /\ finder.release = "held" /\ ~finder.source
  /\ Writing = {} /\ finder.finishing = 0
  /\ finder.callback \in {"none", "over"}

\* Mutant of Release: the session is closed and nobody is told.
ReleaseSilently ==
  /\ LeaseUnused
  /\ CancelSession
  /\ finder' = [finder EXCEPT !.release = "done"]
  /\ UNCHANGED <<platform, command, promise, reaping, exiting>>

\* promise_release_callback: a session still open is a drag nobody settled.
Release ==
  /\ LeaseUnused
  /\ CancelSession
  /\ finder' = [finder EXCEPT !.release = IF Open THEN "emit" ELSE "done"]
  /\ UNCHANGED <<platform, command, promise, reaping, exiting>>

SettleReleased ==
  /\ finder.release = "emit"
  /\ Emit("cancelled")
  /\ finder' = [finder EXCEPT !.release = "done"]
  /\ UNCHANGED <<platform, command, session, promise, reaping, exiting>>

----------------------------------------------------------------------------
(* The reaper thread, the user and the exit *)

\* NativeDragOperationRegistry::reap_expired: five minutes without a start.
ReapOperation ==
  /\ command.pc = "accepted"
  /\ GoTo("expired")
  /\ UNCHANGED <<platform, job, session, promise, finder, reaping, exiting>>

FailExpired ==
  /\ command.pc = "expired"
  /\ Emit("failed")
  /\ GoTo("over")
  /\ UNCHANGED <<platform, session, promise, finder, reaping, exiting>>

\* NativeDragSessionRegistry::reap_expired, whatever the drag is doing.
ReapSession ==
  /\ Open
  /\ CancelSession
  /\ reaping' = TRUE
  /\ UNCHANGED <<platform, command, promise, finder, exiting>>

CancelReaped ==
  /\ reaping
  /\ Emit("cancelled")
  /\ reaping' = FALSE
  /\ UNCHANGED <<platform, command, session, promise, finder, exiting>>

\* request_cancel.
RequestCancel ==
  /\ job.status \in {"queued", "running"}
  /\ job' = [status |-> "cancelling", token |-> TRUE]
  /\ UNCHANGED <<platform, command, session, promise, finder, reaping, exiting>>

\* NativeDragSessionRegistry::shutdown in the exit handler.
Exit ==
  /\ ~exiting
  /\ exiting' = TRUE
  /\ CancelSession
  /\ UNCHANGED <<platform, command, promise, finder, reaping>>

----------------------------------------------------------------------------

\* What the program does by itself.
System ==
  \/ Register \/ Announce \/ Prepare \/ Launch
  \/ CreateSession \/ CannotDescribe \/ HostRefuses \/ BeginDrag
  \/ ReturnPending \/ SettleError \/ StartStaging \/ SettleStaged
  \/ \E p \in Promise : \/ OpenFile(p) \/ KeepFile(p) \/ MakeFolders(p)
                        \/ WriteFails(p) \/ RecordWrite(p)
  \/ PromiseFinished
  \/ CloseCancelled \/ SettleCancelled
  \/ TakeSummary \/ CommitDrop \/ FailDrop \/ CloseFailed
  \/ Release \/ SettleReleased
  \/ FailExpired \/ CancelReaped

\* What time brings: a drag loop ends, a timer or the reaper fires.
Timer ==
  \/ DragLoopReturns \/ RemoveSource \/ ReapOperation \/ ReapSession

\* What the user, the drop target and Finder do.
Environment ==
  \/ Accept \/ Take \/ RequestCancel
  \/ \E p \in Promise : RequestPromise(p) \/ StageEntry(p)
  \/ \E o \in {"dropped", "cancelled"} : DraggingEnded(o)

Next == System \/ Timer \/ Environment \/ Exit

\* The threads run, the drag loop of the system returns, the reaper and the
\* timer of a retained source fire. Nothing obliges the user, the page that
\* accepted a drag to start it, or Finder to ask for a file.
Fairness ==
  /\ WF_vars(System) /\ WF_vars(DragLoopReturns) /\ WF_vars(RemoveSource)
  /\ WF_vars(ReapOperation) /\ WF_vars(ReapSession)

Spec == Init /\ [][Next]_vars /\ Fairness

----------------------------------------------------------------------------
(* Properties *)

\* A drag is reported complete only when every promised file was written to
\* the end and kept (for a staged drag: every file was extracted), whatever
\* Finder asked twice, the drag end overtook or the reaper closed.
CompletedMeansWritten ==
  job.status = "completed" =>
    (IF platform = "promise" THEN Promise ELSE Files) \subseteq promise.written

\* Once a drag is shown cancelled, by whichever thread, no write that is still
\* under way leaves a file behind.
CancelledKeepsNothing ==
  [][job.status = "cancelled" =>
       promise'.written \cap Files \subseteq promise.written]_vars

\* Every accepted drag ends and gives its session back, unless the application
\* exits: the page may never start it, the native host may refuse it or fail to
\* describe it, Finder may never ask for a file.
DragEnds == command.pc = "accepting" ~> (Ended /\ ~Open) \/ exiting
=============================================================================

------------------------------ MODULE TaskWindow ------------------------------
(***************************************************************************)
(* The window of one task: the reducer of src/app/workspaces/              *)
(* disposableTask.ts, driven by DisposableTaskRuntimeApp.tsx and the       *)
(* buttons of DisposableTaskApp.tsx, on top of the subscription to its     *)
(* job.                                                                    *)
(*                                                                         *)
(* LatestValueFeed carries revisions; statuses tells what each of them     *)
(* says, the job behind it lives as JobLifecycle promises.  cancel_job,    *)
(* pause_job and resume_job are synchronous: they run in the order of      *)
(* their calls.  Only the refusal of one matters to the window, and a job  *)
(* refuses for good once it is gone, so a call and its answer are one step.*)
(***************************************************************************)
EXTENDS LatestValueFeed, SequencesExt

VARIABLES
  statuses, \* history: the status of every revision that was published
  phase,    \* DisposableTaskState.phase
  shown,    \* its job: the revision of that snapshot, 0 for the bootstrap
  prompt,   \* closePromptOpen
  controls, \* cancel, pause and resume calls on their way
  retry     \* "none", "asked", or "unpresented": accepted without a window

reducerVars == <<phase, shown, prompt>>
taskVars == <<vars, statuses, reducerVars, controls, retry>>

TerminalStatus == {"completed", "failed", "cancelled"}
JobStatus == {"queued", "running", "paused", "cancelling"} \cup TerminalStatus

Status == statuses[published]
Ended  == Status \in TerminalStatus

\* createDisposableTask makes a snapshot of the accepted, queued job.
ShownStatus == IF shown = 0 THEN "queued" ELSE statuses[shown]

PhaseForStatus(s) ==
  CASE s = "queued"    -> "starting"
    [] s = "completed" -> "succeeded"
    [] OTHER           -> s

LivePhase == {"starting", "running", "paused", "cancelling"}
Live == phase \in LivePhase

----------------------------------------------------------------------------
(* The job *)

\* Bound: a control that was called finds a revision left for its effect.
Room == published + Len(controls) < MaxRevision

Becomes(s) == Publish /\ statuses' = Append(statuses, s)

Progress ==
  CASE Status = "queued"     -> {"queued", "running"} \cup TerminalStatus
    [] Status = "running"    -> {"running"} \cup TerminalStatus
    [] Status = "paused"     -> {"paused"} \cup TerminalStatus
    [] Status = "cancelling" -> {"cancelling", "cancelled"}
    [] OTHER                 -> {}

Work ==
  /\ Room
  /\ \E s \in Progress : Becomes(s)
  /\ UNCHANGED <<reducerVars, controls, retry>>

\* Only terminal records leave.
JobLeaves ==
  /\ Ended /\ RemoveJob
  /\ UNCHANGED <<statuses, reducerVars, controls, retry>>

\* Mutant of Effect: a paused job takes no cancellation.
EffectUnlessPaused(c) ==
  CASE c = "cancel" /\ Status \in {"queued", "running"} -> {"cancelling"}
    [] c = "pause" /\ Status \in {"queued", "running"}  -> {"paused"}
    [] c = "resume" /\ Status = "paused" ->
         {IF Contains(statuses, "running") THEN "running" ELSE "queued"}
    [] OTHER -> {}

\* request_cancel, request_pause and request_resume where they change the job.
Effect(c) ==
  CASE c = "cancel" /\ ~Ended                          -> {"cancelling"}
    [] c = "pause" /\ Status \in {"queued", "running"} -> {"paused"}
    [] c = "resume" /\ Status = "paused" ->
         {IF Contains(statuses, "running") THEN "running" ELSE "queued"}
    [] OTHER -> {}

\* The head of the calls: its effect, its success without one, or the refusal
\* for want of the job, on which the reducer returns to the status it knows.
Control ==
  /\ controls # <<>> /\ controls' = Tail(controls)
  /\ IF gone
     THEN /\ IF Live THEN phase' = PhaseForStatus(ShownStatus) /\ prompt' = FALSE
                     ELSE UNCHANGED <<phase, prompt>>
          /\ UNCHANGED <<vars, statuses, shown>>
     ELSE /\ IF Effect(Head(controls)) = {}
             THEN UNCHANGED <<vars, statuses>>
             ELSE \E s \in Effect(Head(controls)) : Becomes(s)
          /\ UNCHANGED reducerVars
  /\ UNCHANGED retry

----------------------------------------------------------------------------
(* The window *)

Open == stage # "closed"

\* "jobUpdated": the reducer takes newer snapshots as long as the task lives.
JobUpdated(r) ==
  IF r <= shown \/ ~Live
  THEN UNCHANGED reducerVars
  ELSE phase' = PhaseForStatus(statuses[r]) /\ shown' = r /\ prompt' = FALSE

\* A message of the feed, which is accepted when it is newer.
ReceiveSnapshot ==
  /\ Receive
  /\ IF Head(wire) > highest THEN JobUpdated(Head(wire)) ELSE UNCHANGED reducerVars
  /\ UNCHANGED <<statuses, controls, retry>>

\* The window and the job are not concerned.
Aside == UNCHANGED <<statuses, reducerVars, controls, retry>>

SubscriptionStep == Subscription /\ Aside

\* A button calls a control of the job.
Call(c) ==
  /\ Open /\ Room
  /\ controls' = Append(controls, c)
  /\ UNCHANGED <<vars, statuses, shown, retry>>

\* "Cancel", or "Cancel task" in the prompt: shown as done at once.
Cancel ==
  /\ Live
  /\ prompt \/ ShownStatus \in {"queued", "running", "paused"}
  /\ phase' = "cancelling" /\ prompt' = FALSE
  /\ Call("cancel")

Pause ==
  /\ phase = "running" /\ ShownStatus \in {"queued", "running"}
  /\ UNCHANGED <<phase, prompt>>
  /\ Call("pause")

Resume ==
  /\ phase = "paused" /\ ShownStatus = "paused"
  /\ UNCHANGED <<phase, prompt>>
  /\ Call("resume")

\* What only the reducer hears of.
Dispatch ==
  Open /\ UNCHANGED <<vars, statuses, shown, controls>>

\* The close button of the window or of the view.
CloseRequested ==
  /\ Dispatch /\ UNCHANGED retry
  /\ IF Live THEN prompt' = TRUE /\ UNCHANGED phase
             ELSE phase' = "closing" /\ prompt' = FALSE

KeepOpen ==
  prompt /\ prompt' = FALSE /\ UNCHANGED <<phase, retry>> /\ Dispatch

ContinueInBackground ==
  prompt /\ prompt' = FALSE /\ phase' = "closing" /\ UNCHANGED retry /\ Dispatch

\* Of a failed extraction or test, for the sake of another password.
Retrying ==
  /\ phase = "failed" /\ retry = "none" /\ retry' = "asked"
  /\ UNCHANGED <<phase, prompt>> /\ Dispatch

\* The replacement has its own window and this one closes, or was not started,
\* or is accepted but its handoff failed.
RetryEnds ==
  /\ retry = "asked"
  /\ \/ retry' = "none" /\ phase' = "closing" /\ prompt' = FALSE
     \/ retry' \in {"none", "unpresented"} /\ UNCHANGED <<phase, prompt>>
  /\ Dispatch

\* Mutant of AutoClose: a cancelled task stays.
AutoCloseSucceeded ==
  /\ phase = "succeeded" /\ phase' = "closing"
  /\ prompt' = FALSE /\ UNCHANGED retry /\ Dispatch

\* "autoCloseElapsed" of the timer that a good end starts.
AutoClose ==
  /\ phase \in {"succeeded", "cancelled"} /\ phase' = "closing"
  /\ prompt' = FALSE /\ UNCHANGED retry /\ Dispatch

\* closeDisposableTaskWindow: the window is destroyed.
Destroy ==
  /\ phase = "closing" /\ Leave
  /\ UNCHANGED <<statuses, reducerVars, controls, retry>>

----------------------------------------------------------------------------
TaskInit ==
  /\ Init
  /\ statuses = <<"queued">>
  /\ phase = "starting" /\ shown = 0 /\ prompt = FALSE
  /\ controls = <<>> /\ retry = "none"

Buttons ==
  \/ Cancel \/ Pause \/ Resume
  \/ CloseRequested \/ KeepOpen \/ ContinueInBackground
  \/ Retrying

TaskNext ==
  \/ Work \/ JobLeaves \/ Control
  \/ ReceiveSnapshot \/ SubscriptionStep
  \/ Buttons \/ RetryEnds \/ AutoClose \/ Destroy

\* The runtime polls the forwarder, calls are answered, messages and timers
\* come. The select may prefer a command or a change for as long as it likes.
TaskFairness ==
  /\ WF_taskVars(Subscribe /\ Aside) /\ WF_taskVars(Retry /\ Aside)
  /\ WF_taskVars(Forwarding /\ Aside)
  /\ \A r \in 1 .. MaxRevision : WF_taskVars(TakeAck(r) /\ Aside)
  /\ WF_taskVars(ReceiveSnapshot) /\ WF_taskVars(Control)
  /\ WF_taskVars(AutoClose) /\ WF_taskVars(Destroy)

TaskSpec == TaskInit /\ [][TaskNext]_taskVars /\ TaskFairness

----------------------------------------------------------------------------
(* Properties *)

\* The state is what the feed, the reducer and its window hold; the prompt is
\* about a task that lives, and what a snapshot showed was published.
TaskTypeOK ==
  /\ TypeOK
  /\ statuses \in Seq(JobStatus)
  /\ Len(statuses) = published
  /\ phase \in LivePhase \cup {"succeeded", "failed", "cancelled", "closing"}
  /\ shown \in 0 .. highest
  /\ prompt \in BOOLEAN /\ (prompt => Live)
  /\ controls \in Seq({"cancel", "pause", "resume"})
  /\ retry \in {"none", "asked", "unpresented"}

\* The window shows the job as its newest snapshot has it. Only a cancellation
\* that was asked for is shown ahead of it, and only while the call or its
\* outcome is on the way: whatever snapshots, refusals and further controls
\* come in between, none leaves the window cancelling what goes on.
PhaseIsSettled ==
  \/ phase \in {PhaseForStatus(ShownStatus), "closing"}
  \/ /\ phase = "cancelling"
     /\ Contains(controls, "cancel") \/ shown < published

\* The window follows its job as long as that is retained: it shows the newest
\* revision, and having shown a good end, or been told to, it closes.
WindowFollowsJob ==
  \A r \in 1 .. MaxRevision :
    (published = r) ~> \/ gone \/ stage = "closed"
                       \/ shown >= r /\ phase \notin {"succeeded", "cancelled", "closing"}
=============================================================================

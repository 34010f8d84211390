---------------------------- MODULE Coordinator ----------------------------
(***************************************************************************)
(* The Main Window as coordinator of its process: which jobs it counts as  *)
(* active (processJobAccounting.ts), and when the hidden window goes and   *)
(* the process with it (disposableTaskLifecycle.ts, wired in               *)
(* zmanagerRuntimeAdapter.ts).                                             *)
(*                                                                         *)
(* The page learns of a job from the answer of a start command, from the   *)
(* feed of accepted jobs, from an event of a task window and from the      *)
(* catalog; nothing orders them. A catalog is what LatestValueFeed makes   *)
(* of it: one snapshot on its way, the next one taken when it was          *)
(* acknowledged. A job is handed off once, as AcceptedFeed shows.          *)
(***************************************************************************)
EXTENDS Integers, FiniteSets

CONSTANTS
  MaxJobs,          \* bound: jobs accepted
  MaxRequests,      \* bound: inbound requests that keep the window hidden
  MaxReveals,       \* bound: requests to show the Main Window
  MaxFailures       \* bound: of them, those whose window cannot be shown

ASSUME BoundAssumption ==
  MaxJobs \in Nat /\ MaxRequests \in Nat /\ MaxReveals \in Nat /\ MaxFailures \in Nat

Job == 1 .. MaxJobs   \* ids in the order of acceptance

VARIABLES
  \* Job Registry
  job,        \* status of each job
  accepted,   \* jobs accepted
  answers,    \* start commands whose answer is on its way
  \* feed of the catalog
  catalog,    \* the snapshot sent last
  carrying,   \* it is on its way
  \* ProcessJobAccounting
  active,     \* activeJobIds
  observed,   \* observedInCatalog
  recent,     \* recentTerminalJobIds
  \* handoff controller and task windows
  handed,     \* deliveredJobs
  windows,    \* windows of the DisposableTaskWindowManager, by job
  retried,    \* task windows that asked for a replacement
  \* DisposableTaskLifecycle and Main Window
  lifecycle,  \* its snapshot
  shown,      \* quickActionWindow.shown
  startup,    \* what handleStartupQuickAction has still to learn
  revealing,  \* revealNormalAppWindow waits for its window
  process,
  \* bounds
  requests, reveals, failures

registry   == <<job, accepted, answers>>
feed       == <<catalog, carrying>>
accounting == <<active, observed, recent>>
tasks      == <<handed, windows, retried>>
main       == <<lifecycle, shown, startup, revealing>>
bounds     == <<requests, reveals, failures>>
vars == <<registry, feed, accounting, tasks, main, process, bounds>>

Alive(s) == s \in {"live", "cancelling"}

Running == process = "running"

----------------------------------------------------------------------------
(* Closing *)

\* shouldCloseCoordinator
ShouldClose(l, win, act) ==
  /\ l.quickActionOnly /\ l.activityObserved /\ l.pending = 0
  /\ win = {} /\ act = {} /\ ~shown

\* maybeCloseQuickActionOnlyCoordinator: the window is the last one, the process
\* ends with it.
MaybeClose(l, win, act) ==
  process' = IF ShouldClose(l, win, act) THEN "destroyed" ELSE process

----------------------------------------------------------------------------
(* The registry *)

\* A start command is accepted. by says who waits for the answer.
Accept(by, window) ==
  /\ accepted < MaxJobs /\ accepted' = accepted + 1
  /\ job' = [job EXCEPT ![accepted + 1] = "live"]
  /\ answers' = answers \cup {[job |-> accepted + 1, by |-> by, window |-> window]}

JobCancels(j) ==
  /\ Running /\ job[j] = "live"
  /\ job' = [job EXCEPT ![j] = "cancelling"]
  /\ UNCHANGED <<accepted, answers, feed, accounting, tasks, main, process, bounds>>

JobEnds(j) ==
  /\ Running /\ Alive(job[j])
  /\ job' = [job EXCEPT ![j] = "ended"]
  /\ UNCHANGED <<accepted, answers, feed, accounting, tasks, main, process, bounds>>

----------------------------------------------------------------------------
(* Accounting *)

SendCatalog ==
  /\ Running /\ ~carrying /\ catalog # job
  /\ catalog' = job /\ carrying' = TRUE
  /\ UNCHANGED <<registry, accounting, tasks, main, process, bounds>>

\* A job that is being cancelled is not among them (isLiveJobStatus).
LiveIn(c) == {j \in Job : c[j] = "live"}

\* Mutant of Released: a job that the catalog does not have is over.
ReleasedUnseen(c, seen) == {j \in Job : c[j] \in {"ended", "none"}}

\* Ids that a catalog shows to be over: terminal, or seen before and now missing.
Released(c, seen) ==
  {j \in Job : c[j] = "ended" \/ (j \in seen /\ c[j] = "none")}

StillObserved(c, seen) == seen \ Released(c, seen)

\* reconcileCatalog. (No id is forgotten: recent keeps 512, far more than the jobs
\* here.)
Reconcile ==
  /\ Running /\ carrying /\ carrying' = FALSE
  /\ recent' = recent \cup {j \in Job : catalog[j] = "ended"}
  /\ LET seen == observed \cup LiveIn(catalog)
     IN /\ active' = (active \cup LiveIn(catalog)) \ Released(catalog, seen)
        /\ observed' = StillObserved(catalog, seen)
  /\ UNCHANGED <<registry, catalog, tasks, main, bounds>>

\* Mutant of DeliverCatalog: the catalog does not close the window.
DeliverCatalogOnly == Reconcile /\ UNCHANGED process

\* A catalog arrives: accounting, then the decision to close.
DeliverCatalog == Reconcile /\ MaybeClose(lifecycle, windows, active')

\* observeAccepted
Counted(j) == IF j \in recent THEN active ELSE active \cup {j}

\* handoffAcceptedJob: once for each job, with the task window.
HandOff(j) ==
  /\ IF j \in handed THEN UNCHANGED <<active, handed, windows>>
     ELSE /\ active' = Counted(j)
          /\ handed' = handed \cup {j}
          /\ windows' = windows \cup {j}
  /\ UNCHANGED <<observed, recent, retried>>

FeedDelivers(j) ==
  /\ Running /\ j <= accepted /\ j \notin handed
  /\ HandOff(j)
  /\ UNCHANGED <<registry, feed, main, process, bounds>>

\* The answer of a start command of this page.
AnswerArrives(a) ==
  /\ Running /\ a \in answers /\ a.by # "task"
  /\ answers' = answers \ {a}
  /\ HandOff(a.job)
  /\ UNCHANGED <<job, accepted, feed, main, process, bounds>>

----------------------------------------------------------------------------
(* Task windows *)

\* removeWindow, when a window was destroyed or could not be created.
WindowCloses(j) ==
  /\ Running /\ j \in windows /\ windows' = windows \ {j}
  /\ IF windows' = {} THEN MaybeClose(lifecycle, {}, active) ELSE UNCHANGED process
  /\ UNCHANGED <<registry, feed, accounting, handed, retried, main, bounds>>

\* retryWithPassword: the window of a failed job starts its replacement.
TaskRetries(j) ==
  /\ Running /\ j \in windows \ retried /\ job[j] = "ended"
  /\ retried' = retried \cup {j}
  /\ Accept("task", j)
  /\ UNCHANGED <<feed, accounting, handed, windows, main, process, bounds>>

\* Its answer: the window asks the Main Window to hand the job off, which hears
\* of it before the end of the window. Nobody waits when the window is gone.
TaskAnswer(a) ==
  /\ Running /\ a \in answers /\ a.by = "task"
  /\ answers' = answers \ {a}
  /\ IF a.window \in windows THEN HandOff(a.job) ELSE UNCHANGED <<accounting, tasks>>
  /\ UNCHANGED <<job, accepted, feed, main, process, bounds>>

----------------------------------------------------------------------------
(* Inbound requests whose disposition is a task window; one after the other *)

AwaitsAnswer(by) == \E a \in answers : a.by = by

\* runInboundQuickAction: observeQuickActionLaunch, beginQuickActionRequest.
RequestArrives ==
  /\ Running /\ requests < MaxRequests /\ requests' = requests + 1
  /\ lifecycle.pending = 0
  /\ lifecycle' = [lifecycle EXCEPT !.quickActionOnly = ~lifecycle.normalLaunch,
                                    !.activityObserved = TRUE, !.pending = 1]
  /\ UNCHANGED <<registry, feed, accounting, tasks, shown, startup, revealing, process,
                 reveals, failures>>

\* startQuickCreate, startQuickExtract: a job for each archive.
RequestStarts ==
  /\ Running /\ lifecycle.pending = 1 /\ ~AwaitsAnswer("request")
  /\ Accept("request", 0)
  /\ UNCHANGED <<feed, accounting, tasks, main, process, bounds>>

\* endQuickActionRequest, onDisposableTaskRequestSettled
Settle ==
  /\ Running /\ lifecycle.pending = 1
  /\ lifecycle' = [lifecycle EXCEPT !.pending = 0]
  /\ MaybeClose(lifecycle', windows, active)
  /\ UNCHANGED <<registry, feed, accounting, tasks, shown, startup, revealing, bounds>>

\* Mutant of RequestSettles: the request does not wait for its answer.
RequestSettlesEarly == Settle

\* The request is over when its jobs were handed off.
RequestSettles == ~AwaitsAnswer("request") /\ Settle

----------------------------------------------------------------------------
(* The Main Window *)

\* revealNormalAppWindow until its window is asked for: observeNormalLaunch.
Reveal ==
  /\ lifecycle' = [lifecycle EXCEPT !.normalLaunch = TRUE, !.quickActionOnly = FALSE]
  /\ revealing' = TRUE

\* revealWindowForStartupQuickAction
Startup ==
  /\ Running /\ startup # "known" /\ startup' = "known"
  /\ IF startup = "quickAction" \/ lifecycle.quickActionOnly
     THEN /\ lifecycle' = [lifecycle EXCEPT !.quickActionOnly = @ \/ ~lifecycle.normalLaunch]
          /\ UNCHANGED revealing
     ELSE Reveal
  /\ UNCHANGED <<registry, feed, accounting, tasks, shown, process, bounds>>

\* The application is activated again, or a request needs the Main Window.
RevealRequested ==
  /\ Running /\ ~revealing /\ reveals < MaxReveals /\ reveals' = reveals + 1
  /\ Reveal
  /\ UNCHANGED <<registry, feed, accounting, tasks, shown, startup, process, requests,
                 failures>>

RevealEnds ==
  /\ Running /\ revealing /\ revealing' = FALSE
  /\ \/ shown' = TRUE /\ UNCHANGED failures
     \/ failures < MaxFailures /\ failures' = failures + 1 /\ UNCHANGED shown
  /\ UNCHANGED <<registry, feed, accounting, tasks, lifecycle, startup, process, requests,
                 reveals>>

\* A job of the Main Window, one awaiting its acceptance at a time.
MainStarts ==
  /\ Running /\ shown /\ ~AwaitsAnswer("main")
  /\ Accept("main", 0)
  /\ UNCHANGED <<feed, accounting, tasks, main, process, bounds>>

\* appWindowEffects.close, and the close policy: hidden while there is work.
CloseMain ==
  /\ Running /\ shown
  /\ IF windows # {} \/ active # {}
     THEN /\ lifecycle' = [lifecycle EXCEPT !.quickActionOnly = TRUE,
                                            !.activityObserved = TRUE]
          /\ shown' = FALSE
          /\ UNCHANGED process
     ELSE process' = "closed" /\ UNCHANGED <<lifecycle, shown>>
  /\ UNCHANGED <<registry, feed, accounting, tasks, startup, revealing, bounds>>

----------------------------------------------------------------------------
Init ==
  /\ job = [j \in Job |-> "none"] /\ accepted = 0 /\ answers = {}
  /\ catalog = job /\ carrying = FALSE
  /\ active = {} /\ observed = {} /\ recent = {}
  /\ handed = {} /\ windows = {} /\ retried = {}
  /\ lifecycle = [normalLaunch |-> FALSE, quickActionOnly |-> FALSE,
                  activityObserved |-> FALSE, pending |-> 0]
  /\ shown = FALSE /\ startup \in {"normal", "quickAction"} /\ revealing = FALSE
  /\ process = "running"
  /\ requests = 0 /\ reveals = 0 /\ failures = 0

Next ==
  \/ SendCatalog \/ DeliverCatalog
  \/ \E j \in Job : JobCancels(j) \/ JobEnds(j) \/ FeedDelivers(j) \/ WindowCloses(j)
                    \/ TaskRetries(j)
  \/ \E a \in answers : AnswerArrives(a) \/ TaskAnswer(a)
  \/ RequestArrives \/ RequestStarts \/ RequestSettles
  \/ Startup \/ RevealRequested \/ RevealEnds \/ MainStarts \/ CloseMain

\* Messages arrive, what was asked of the window is done.
Fairness ==
  /\ WF_vars(SendCatalog) /\ WF_vars(DeliverCatalog)
  /\ \A j \in Job : WF_vars(FeedDelivers(j))
  /\ WF_vars(\E a \in answers : AnswerArrives(a) \/ TaskAnswer(a))
  /\ WF_vars(RequestSettles) /\ WF_vars(Startup) /\ WF_vars(RevealEnds)

Spec == Init /\ [][Next]_vars /\ Fairness

----------------------------------------------------------------------------
(* Properties *)

Answer == [job : Job, by : {"request", "main", "task"}, window : 0 .. MaxJobs]

\* The state keeps its types, and what was seen in a catalog is counted.
TypeOK ==
  /\ job \in [Job -> {"none", "live", "cancelling", "ended"}]
  /\ accepted \in 0 .. MaxJobs /\ answers \subseteq Answer
  /\ catalog \in [Job -> {"none", "live", "cancelling", "ended"}] /\ carrying \in BOOLEAN
  /\ active \subseteq Job /\ observed \subseteq active /\ recent \subseteq Job
  /\ handed \subseteq Job /\ windows \subseteq handed /\ retried \subseteq Job
  /\ lifecycle \in [normalLaunch : BOOLEAN, quickActionOnly : BOOLEAN,
                    activityObserved : BOOLEAN, pending : 0 .. 1]
  /\ shown \in BOOLEAN /\ revealing \in BOOLEAN
  /\ startup \in {"normal", "quickAction", "known"}
  /\ process \in {"running", "destroyed", "closed"}
  /\ requests \in 0 .. MaxRequests /\ reveals \in 0 .. MaxReveals
  /\ failures \in 0 .. MaxFailures

\* A job that was handed off counts as long as it lives, though a catalog that
\* is older than the job may arrive later.
CountedWhileAlive == \A j \in handed : Alive(job[j]) => j \in active

\* A job that a catalog has shown to be over never counts again, though its
\* acceptance may arrive later.
NotCountedAgain == active \cap recent = {}

\* The hidden window takes no work along that the page could know of: jobs of
\* requests, and jobs that were handed off, are over. What may be lost is a job
\* that no catalog and no feed has told of, and whose command is not answered or
\* was answered to a window that is gone.
DestroyedIdle ==
  process = "destroyed" =>
    \A j \in Job : Alive(job[j]) =>
      /\ j \notin handed
      /\ \A a \in answers : a.job = j => a.by # "request"

Quiet ==
  /\ Running /\ lifecycle.activityObserved /\ lifecycle.pending = 0
  /\ windows = {} /\ ~shown /\ ~revealing /\ \A j \in Job : ~Alive(job[j])

\* A process that only ever served quick actions ends when they are settled, in
\* whatever order the last window, the last request and the last catalog come.
QuietEnds == (Quiet /\ ~lifecycle.normalLaunch) ~> (~Quiet \/ lifecycle.normalLaunch)

\* The hidden coordinator is destroyed after requests, jobs and windows settled,
\* and not before.
DestroyedAfterJobs == process = "destroyed" => \A j \in Job : ~Alive(job[j])
=============================================================================

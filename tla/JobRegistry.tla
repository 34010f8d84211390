---------------------------- MODULE JobRegistry ----------------------------
(***************************************************************************)
(* The process-wide Job Registry (src-tauri/src/job_registry.rs) together  *)
(* with the worker behind each accepted create, extract or test request    *)
(* (src-tauri/src/commands.rs).                                            *)
(*                                                                         *)
(* Every registry operation runs under one mutex, so it is one step. A     *)
(* worker is a thread of its own: arriving at the pause gate, passing it,  *)
(* emitting, returning from the engine and settling the outcome are        *)
(* separate steps that interleave with the commands of the task windows.   *)
(***************************************************************************)
EXTENDS Integers, Sequences, FiniteSets

CONSTANTS
  Kind,         \* the kinds of request in play
  MaxRetained,  \* MAX_RETAINED_TERMINAL_JOBS
  MaxAdmitted,  \* MAX_ADMITTED_JOBS
  MaxU64,       \* u64::MAX, where a revision or a sequence is exhausted
  MaxJobs,      \* bound: job ids handed out
  MaxEvents,    \* bound: events one engine run emits
  MaxControls   \* bound: cancel, pause and resume commands

ASSUME KindAssumption == Kind \subseteq {"create", "extract", "test"}
ASSUME LimitAssumption ==
  /\ MaxRetained \in Nat \ {0}
  /\ MaxAdmitted \in Nat \ {0}
  /\ MaxU64 \in Nat \ {0}
ASSUME ModelBoundAssumption == MaxJobs \in Nat /\ MaxEvents \in Nat /\ MaxControls \in Nat

VARIABLES
  jobs,              \* the record of every id, NoRecord when the map has none
  nextJobId,         \* next_job_id
  terminalSequence,  \* NEXT_TERMINAL_SEQUENCE
  catalog,           \* what catalog_sender last published, per id
  catalogRevision,   \* catalog_revision
  catalogClosed,     \* catalog_publication_closed
  accepted,          \* accepted_jobs, the replayable acceptance queue
  acceptance,        \* next_acceptance_revision
  worker,            \* the thread behind every id
  controls           \* control commands issued so far (bound of the model)

catalogVars == <<catalog, catalogRevision, catalogClosed>>
acceptVars  == <<nextJobId, accepted, acceptance>>
vars == <<jobs, nextJobId, terminalSequence, catalog, catalogRevision,
          catalogClosed, accepted, acceptance, worker, controls>>

Job == 1 .. MaxJobs

TerminalStatus == {"completed", "failed", "cancelled"}
Status         == {"queued", "running", "paused", "cancelling"} \cup TerminalStatus

\* JobEvent as far as the registry tells events apart, and what an engine run
\* or the code around it ends with.
CoreEvent == {"Started", "Progress", "Completed", "Failed", "Cancelled"}
LastEvent == {"Completed", "Failed", "Cancelled"}
Outcome   == {"ok", "failed", "retryable", "cancelled"}

----------------------------------------------------------------------------
(* Records and snapshots *)

Terminal(j) == jobs[j].status \in TerminalStatus
Live(j)     == jobs[j].status # "absent"

\* A record the registry still changes: not terminal, publication not closed.
Mutable(j) == Live(j) /\ ~Terminal(j) /\ ~jobs[j].closed

NoSnapshot == [revision |-> 0, status |-> "absent", summary |-> FALSE,
               output |-> FALSE, retry |-> FALSE]

NoRecord == [status |-> "absent", pausedFrom |-> "none", paused |-> FALSE,
             token |-> FALSE, summary |-> FALSE, failure |-> "none",
             facts |-> "none", revision |-> 0, sequence |-> 0,
             closed |-> FALSE, snapshot |-> NoSnapshot]

\* snapshot_dto: artifacts and actions (of a create or an extraction) only once
\* completed, a retry (of an extraction or a test) only after a failure that
\* said it is retryable.
SnapshotOf(r) ==
  [revision |-> r.revision,
   status   |-> r.status,
   summary  |-> r.summary,
   output   |-> r.status = "completed" /\ r.facts \in {"create", "extract"},
   retry    |-> r.failure = "retryable" /\ r.facts \in {"extract", "test"}]

Fresh ==
  LET r == [NoRecord EXCEPT !.status = "queued", !.revision = 1]
  IN  [r EXCEPT !.snapshot = SnapshotOf(r)]

----------------------------------------------------------------------------
(* Publication *)

CanPublish(r) == ~r.closed /\ r.revision < MaxU64

\* publish_record: the next revision and its snapshot, or fail closed.
Published(r) ==
  IF r.closed THEN r
  ELSE IF r.revision < MaxU64
       THEN LET n == [r EXCEPT !.revision = @ + 1]
            IN  [n EXCEPT !.snapshot = SnapshotOf(n)]
       ELSE [r EXCEPT !.closed = TRUE]

CatalogOpen == ~catalogClosed /\ catalogRevision < MaxU64

Descriptor(r) == [revision |-> r.revision, status |-> r.status]

\* publish_catalog of the jobs as they are after the step.
PublishCatalog ==
  IF CatalogOpen
  THEN /\ catalogRevision' = catalogRevision + 1
       /\ catalog' = [i \in Job |-> Descriptor(jobs'[i])]
       /\ UNCHANGED catalogClosed
  ELSE /\ catalogClosed' = TRUE
       /\ UNCHANGED <<catalog, catalogRevision>>

\* Store a record through publish_record; a successful publication is followed
\* by publish_catalog when the operation asks for one.
StoreAndPublish(j, r, listed) ==
  /\ jobs' = [jobs EXCEPT ![j] = Published(r)]
  /\ IF listed /\ CanPublish(r) THEN PublishCatalog ELSE UNCHANGED catalogVars

----------------------------------------------------------------------------
(* Admission *)

\* Mutant of EndedBefore: the newest goes first.
EndedAfter(h, i) == jobs[h].sequence > jobs[i].sequence

EndedBefore(h, i) == jobs[h].sequence # 0 /\ jobs[h].sequence < jobs[i].sequence

\* evict_oldest_terminal_jobs: the oldest terminal records, by terminal
\* sequence, until fewer than MaxRetained are left.
Evicted ==
  LET done     == {i \in Job : Terminal(i)}
      older(i) == {h \in Job : EndedBefore(h, i)}
  IN  {i \in Job : /\ jobs[i].sequence # 0
                   /\ Cardinality(older(i)) + MaxRetained <= Cardinality(done)}

Retained == [i \in Job |-> IF i \in Evicted THEN NoRecord ELSE jobs[i]]

Places == Cardinality({i \in Job : Retained[i].status # "absent"})

HasRoom == Places < MaxAdmitted

\* job_capacity: the id is spent and the evicted records are gone, unpublished.
RefuseAdmission ==
  /\ ~HasRoom
  /\ jobs' = Retained
  /\ UNCHANGED <<catalogVars, accepted, acceptance, worker>>

\* The catalog cannot be published, so the inserted record is removed again.
RollBackAdmission ==
  /\ HasRoom /\ ~CatalogOpen
  /\ jobs' = Retained
  /\ PublishCatalog
  /\ UNCHANGED <<accepted, acceptance, worker>>

Admit(k) ==
  /\ HasRoom /\ CatalogOpen
  /\ jobs' = [Retained EXCEPT ![nextJobId + 1] = Fresh]
  /\ PublishCatalog
  /\ acceptance' = acceptance + 1
  /\ accepted' = Append(accepted, [job |-> nextJobId + 1, revision |-> acceptance + 1])
  /\ worker' = [worker EXCEPT ![nextJobId + 1].pc = "accepted",
                              ![nextJobId + 1].kind = k]

\* try_accept_job on behalf of start_create, start_extract or test_archive.
Accept(k) ==
  /\ nextJobId < MaxJobs
  /\ acceptance < MaxU64
  /\ nextJobId' = nextJobId + 1
  /\ RefuseAdmission \/ RollBackAdmission \/ Admit(k)
  /\ UNCHANGED <<terminalSequence, controls>>

\* acknowledge_accepted_job: everything up to the acknowledged entry goes.
AcknowledgeAccepted(n) ==
  /\ n \in DOMAIN accepted
  /\ accepted' = SubSeq(accepted, n + 1, Len(accepted))
  /\ UNCHANGED <<jobs, nextJobId, acceptance, terminalSequence, catalogVars,
                 worker, controls>>

----------------------------------------------------------------------------
(* Operations a worker calls *)

StatusAfter(s, e) ==
  CASE e = "Started" /\ s \in {"queued", "running"} -> "running"
    [] e = "Completed"                              -> "completed"
    [] e \in {"failed", "retryable"}                -> "failed"
    [] e \in {"Cancelled", "cancelled"}             -> "cancelled"
    [] OTHER                                        -> s

\* The common tail of the emitters: a terminal record gets the next terminal
\* sequence, or publication closes when there is none.
Conclude(j, r) ==
  IF r.status \in TerminalStatus
  THEN IF terminalSequence < MaxU64
       THEN /\ terminalSequence' = terminalSequence + 1
            /\ StoreAndPublish(j, [r EXCEPT !.sequence = terminalSequence + 1], TRUE)
       ELSE /\ jobs' = [jobs EXCEPT ![j] = [r EXCEPT !.closed = TRUE]]
            /\ UNCHANGED <<terminalSequence, catalogVars>>
  ELSE /\ StoreAndPublish(j, r, r.status # jobs[j].status)
       /\ UNCHANGED terminalSequence

\* The registry and its publications stay as they are.
Ignored == UNCHANGED <<jobs, terminalSequence, catalogVars>>

\* emit_job_event. The engine's own Completed and Failed are progress: the
\* status waits for the command layer to settle the job.
EmitJobEvent(j, e) ==
  LET failed == [jobs[j] EXCEPT !.failure = IF e = "Failed" THEN "final" ELSE @]
  IN  IF ~Mutable(j) THEN Ignored
      ELSE IF e \in {"Completed", "Failed"}
           THEN StoreAndPublish(j, failed, TRUE) /\ UNCHANGED terminalSequence
           ELSE Conclude(j, [jobs[j] EXCEPT !.status = StatusAfter(@, e)])

\* emit_direct_event. Once cancellation is requested an ending is a cancelled one.
EmitDirectEvent(j, e) ==
  LET ending == e # "Started"
      event  == IF jobs[j].status = "cancelling" /\ ending THEN "cancelled" ELSE e
  IN  IF ~Mutable(j) THEN Ignored
      ELSE Conclude(j,
             [jobs[j] EXCEPT
                !.status  = StatusAfter(@, event),
                !.summary = IF event = "cancelled" THEN FALSE ELSE @,
                !.failure = CASE event = "failed"    -> "final"
                              [] event = "retryable" -> "retryable"
                              [] OTHER               -> @])

\* Mutant of CommitCompleted: a cancellation requested meanwhile is overlooked.
CommitRegardless(j) ==
  IF Mutable(j) THEN Conclude(j, [jobs[j] EXCEPT !.status = "completed", !.summary = TRUE])
                ELSE Ignored

\* commit_completed. Exhausting the terminal sequence returns before anything
\* is published, with the status already changed.
CommitCompleted(j) ==
  LET cancelled == jobs[j].status = "cancelling"
      r == [jobs[j] EXCEPT !.status  = IF cancelled THEN "cancelled" ELSE "completed",
                           !.summary = ~cancelled]
  IN  IF ~Mutable(j) THEN Ignored
      ELSE IF terminalSequence < MaxU64
           THEN /\ terminalSequence' = terminalSequence + 1
                /\ StoreAndPublish(j, [r EXCEPT !.sequence = terminalSequence + 1], TRUE)
           ELSE /\ jobs' = [jobs EXCEPT ![j] = r]
                /\ UNCHANGED <<terminalSequence, catalogVars>>

----------------------------------------------------------------------------
(* The worker of a job *)

At(j, pc) == worker[j].pc = pc

GoTo(j, pc) == worker' = [worker EXCEPT ![j].pc = pc]

\* The command thread stores recovery facts; when it cannot, the command fails
\* and no worker is ever spawned for the accepted job.
ConfigureRecoveryFacts(j) ==
  LET r == [jobs[j] EXCEPT !.facts = worker[j].kind]
  IN  /\ At(j, "accepted")
      /\ \/ /\ Mutable(j)
            /\ StoreAndPublish(j, r, TRUE)
            /\ GoTo(j, IF CanPublish(r) /\ CatalogOpen THEN "ready" ELSE "abandoned")
         \/ /\ ~Mutable(j)
            /\ UNCHANGED <<jobs, catalogVars>>
            /\ GoTo(j, "abandoned")
      /\ UNCHANGED <<terminalSequence, acceptVars, controls>>

\* Create and test jobs announce themselves past the pause gate; an extraction
\* announces itself through its sink. Testing hands the engine no sink at all.
BeginWork(j) ==
  /\ At(j, "ready")
  /\ IF worker[j].kind = "extract" THEN Ignored ELSE EmitDirectEvent(j, "Started")
  /\ worker' = [worker EXCEPT ![j].pc = "running",
                              ![j].left = IF worker[j].kind = "test" THEN 0 ELSE MaxEvents]
  /\ UNCHANGED <<acceptVars, controls>>

\* JobEventCollector.emit is called: the worker now waits at the pause gate.
ArriveAtGate(j, e) ==
  /\ At(j, "running") /\ worker[j].left > 0
  /\ e = "Cancelled" => jobs[j].token
  /\ worker' = [worker EXCEPT ![j].pc = "gated", ![j].event = e]
  /\ UNCHANGED <<jobs, terminalSequence, catalogVars, acceptVars, controls>>

\* wait_if_paused returns. A pause that arrives now no longer holds this event.
PassGate(j) ==
  /\ At(j, "gated") /\ ~jobs[j].paused
  /\ GoTo(j, "emitting")
  /\ UNCHANGED <<jobs, terminalSequence, catalogVars, acceptVars, controls>>

Emit(j) ==
  /\ At(j, "emitting")
  /\ EmitJobEvent(j, worker[j].event)
  /\ worker' = [worker EXCEPT ![j].pc = "running", ![j].event = "none",
                  ![j].left = IF worker[j].event \in LastEvent THEN 0 ELSE @ - 1]
  /\ UNCHANGED <<acceptVars, controls>>

\* The user answers an overwrite prompt with Quit: the engine is told to stop
\* although nobody asked the registry to cancel. Only an engine still at work
\* asks.
QuitOverwritePrompt(j) ==
  /\ At(j, "running") /\ worker[j].left > 0
  /\ worker[j].kind = "extract" /\ ~jobs[j].token
  /\ jobs' = [jobs EXCEPT ![j].token = TRUE]
  /\ UNCHANGED <<terminalSequence, catalogVars, acceptVars, worker, controls>>

\* The engine returns. It may finish the work although its token is cancelled.
EngineReturns(j, o) ==
  /\ At(j, "running")
  /\ o = "cancelled" => jobs[j].token
  /\ worker' = [worker EXCEPT ![j].pc = "returned", ![j].event = o]
  /\ UNCHANGED <<jobs, terminalSequence, catalogVars, acceptVars, controls>>

\* Mutant of Settle: a failure is reported through the engine's sink, whose
\* Failed waits for a settlement.
SettleThroughSink(j) ==
  /\ At(j, "returned")
  /\ IF worker[j].event = "ok" THEN CommitCompleted(j) ELSE EmitJobEvent(j, "Failed")
  /\ worker' = [worker EXCEPT ![j].pc = "finished", ![j].event = "none"]
  /\ UNCHANGED <<acceptVars, controls>>

Settle(j) ==
  /\ At(j, "returned")
  /\ IF worker[j].event = "ok" THEN CommitCompleted(j)
                               ELSE EmitDirectEvent(j, worker[j].event)
  /\ worker' = [worker EXCEPT ![j].pc = "finished", ![j].event = "none"]
  /\ UNCHANGED <<acceptVars, controls>>

\* A panic in the engine: only the create worker is wrapped in catch_unwind.
Panic(j) ==
  /\ At(j, "running")
  /\ IF worker[j].kind = "create" THEN EmitDirectEvent(j, "failed") ELSE Ignored
  /\ GoTo(j, IF worker[j].kind = "create" THEN "finished" ELSE "dead")
  /\ UNCHANGED <<acceptVars, controls>>

----------------------------------------------------------------------------
(* Commands of the task window *)

Control(j, r) ==
  /\ controls < MaxControls /\ controls' = controls + 1
  /\ Mutable(j)
  /\ StoreAndPublish(j, r, TRUE)
  /\ UNCHANGED <<terminalSequence, acceptVars, worker>>

\* Mutant of RequestCancel: neither the token nor the gate hears of it.
CancelStatusOnly(j) == Control(j, [jobs[j] EXCEPT !.status = "cancelling"])

\* request_cancel also opens the pause gate, so a parked worker sees its token.
RequestCancel(j) ==
  Control(j, [jobs[j] EXCEPT !.status = "cancelling", !.token = TRUE, !.paused = FALSE])

RequestPause(j) ==
  /\ jobs[j].status \in {"queued", "running"}
  /\ Control(j, [jobs[j] EXCEPT !.status = "paused", !.paused = TRUE,
                                !.pausedFrom = jobs[j].status])

RequestResume(j) ==
  /\ jobs[j].status = "paused"
  /\ Control(j, [jobs[j] EXCEPT !.paused = FALSE, !.pausedFrom = "none",
                   !.status = IF jobs[j].pausedFrom = "none" THEN "running"
                              ELSE jobs[j].pausedFrom])

\* Mutant of Dismiss: the catalog is not published.
DismissSilently(j) ==
  /\ Live(j) /\ Terminal(j)
  /\ jobs' = [jobs EXCEPT ![j] = NoRecord]
  /\ UNCHANGED <<terminalSequence, catalogVars, acceptVars, worker, controls>>

\* dismiss_job and remove_job_if_terminal.
Dismiss(j) ==
  /\ Live(j) /\ Terminal(j)
  /\ jobs' = [jobs EXCEPT ![j] = NoRecord]
  /\ PublishCatalog
  /\ UNCHANGED <<terminalSequence, acceptVars, worker, controls>>

----------------------------------------------------------------------------
Init ==
  /\ jobs = [j \in Job |-> NoRecord]
  /\ nextJobId = 0 /\ terminalSequence = 0
  /\ catalog = [j \in Job |-> Descriptor(NoRecord)]
  /\ catalogRevision = 0 /\ catalogClosed = FALSE
  /\ accepted = <<>> /\ acceptance = 0
  /\ worker = [j \in Job |-> [pc |-> "none", kind |-> "none", event |-> "none", left |-> 0]]
  /\ controls = 0

WorkerStep(j) ==
  \/ ConfigureRecoveryFacts(j)
  \/ BeginWork(j)
  \/ \E e \in CoreEvent : ArriveAtGate(j, e)
  \/ PassGate(j)
  \/ Emit(j)
  \/ \E o \in Outcome : EngineReturns(j, o)
  \/ Settle(j)

Next ==
  \/ \E k \in Kind : Accept(k)
  \/ \E n \in 1 .. MaxJobs : AcknowledgeAccepted(n)
  \/ \E j \in Job :
       \/ WorkerStep(j)
       \/ QuitOverwritePrompt(j)
       \/ Panic(j)
       \/ RequestCancel(j)
       \/ RequestPause(j)
       \/ RequestResume(j)
       \/ Dismiss(j)

\* A spawned thread is scheduled and an engine run ends. Users promise nothing.
Fairness == \A j \in Job : WF_vars(WorkerStep(j))

Spec == Init /\ [][Next]_vars /\ Fairness

----------------------------------------------------------------------------
(* Properties *)

Snapshot == [revision : 0 .. MaxU64, status : Status \cup {"absent"},
             summary : BOOLEAN, output : BOOLEAN, retry : BOOLEAN]

Record == [status : Status \cup {"absent"}, pausedFrom : {"none", "queued", "running"},
           paused : BOOLEAN, token : BOOLEAN, summary : BOOLEAN,
           failure : {"none", "final", "retryable"}, facts : Kind \cup {"none"},
           revision : 0 .. MaxU64, sequence : 0 .. MaxU64, closed : BOOLEAN,
           snapshot : Snapshot]

Thread == [pc : {"none", "accepted", "ready", "running", "gated", "emitting",
                 "returned", "finished", "abandoned", "dead"},
           kind : Kind \cup {"none"}, event : CoreEvent \cup Outcome \cup {"none"},
           left : 0 .. MaxEvents]

\* The state is what the fields of RegistryState, JobRecord and the worker hold.
TypeOK ==
  /\ jobs \in [Job -> Record]
  /\ nextJobId \in 0 .. MaxJobs
  /\ terminalSequence \in 0 .. MaxU64
  /\ catalog \in [Job -> [revision : 0 .. MaxU64, status : Status \cup {"absent"}]]
  /\ catalogRevision \in 0 .. MaxU64
  /\ catalogClosed \in BOOLEAN
  /\ accepted \in Seq([job : Job, revision : 1 .. MaxU64])
  /\ acceptance \in 0 .. MaxU64
  /\ worker \in [Job -> Thread]
  /\ controls \in 0 .. MaxControls

\* Admission never takes the registry past MAX_ADMITTED_JOBS, evictions and
\* rolled back admissions included.
AdmissionBound == Cardinality({j \in Job : Live(j)}) <= MaxAdmitted

\* A record whose last change could not be published: its revision or the
\* terminal sequence is exhausted.
Unpublished(j) == jobs[j].closed \/ (Terminal(j) /\ jobs[j].sequence = 0)

\* The catalog the coordinator counts active work with lists every job in its
\* present status and no job that is gone: each operation that changes a
\* status, inserts or removes a record publishes it, and the one path that
\* does not (job_capacity after an eviction) is never taken.
CatalogCurrent ==
  catalogClosed \/ \A j \in Job : Unpublished(j) \/ catalog[j].status = jobs[j].status

\* While a job can still change, its pause gate is shut exactly when its status
\* says paused, whichever of pause, resume, cancel and late events came last.
GateMatchesStatus == \A j \in Job : Mutable(j) => (jobs[j].paused <=> jobs[j].status = "paused")

\* A success snapshot carries its summary and its outputs at once; no other
\* snapshot carries either; a retry is offered by a failed job alone.
SuccessIsAtomic ==
  \A j \in Job :
    LET s == jobs[j].snapshot
    IN  /\ s.summary <=> s.status = "completed"
        /\ s.output <=> s.status = "completed" /\ jobs[j].facts \in {"create", "extract"}
        /\ s.retry => s.status = "failed"

\* A worker that ran to its end leaves a job nobody waits for in vain.
FinishedWorkIsTerminal == \A j \in Job : At(j, "finished") => ~Mutable(j)

\* No job is reported cancelled unless its token was cancelled.
CancelledWasAsked == \A j \in Job : jobs[j].status = "cancelled" => jobs[j].token

\* A terminal record rejects every late mutation: it stays as it is or leaves.
TerminalIsFinal ==
  [][\A j \in Job : Terminal(j) => jobs'[j] \in {jobs[j], NoRecord}]_vars

\* Eviction and dismissal never take a job that is not terminal.
OnlyTerminalJobsLeave ==
  [][\A j \in Job : Live(j) /\ jobs'[j].status = "absent" => Terminal(j)]_vars

\* Admission evicts in process terminal order: what it takes has ended, and
\* ended before every terminal job it keeps. A running job, whose sequence is
\* still zero, is not the oldest.
OldestLeaveFirst ==
  [][nextJobId' # nextJobId =>
       \A i \in Job :
         Live(i) /\ jobs'[i].status = "absent"
         => /\ Terminal(i)
            /\ \A j \in Job : jobs'[j].sequence # 0
                              => jobs[i].sequence < jobs[j].sequence]_vars

\* A subscriber that compares revisions misses nothing and never goes back:
\* the content of a snapshot changes only with the next revision.
SnapshotsAdvance ==
  [][\A j \in Job : Live(j) /\ jobs'[j].status # "absent"
                      /\ jobs'[j].snapshot # jobs[j].snapshot
                      => jobs'[j].snapshot.revision = jobs[j].snapshot.revision + 1]_vars

\* The registry implements the life of a job as its watchers know it. What the
\* mapping hides: revisions, publication, the pause gate, the worker.
Lifecycle == INSTANCE JobLifecycle WITH
  status <- [j \in Job |-> jobs[j].status],
  spent  <- 1 .. nextJobId

\* Ids are never reused, a status never goes back, a job asked to cancel can
\* only end cancelled although its engine completes, fails or panics meanwhile.
ImplementsLifecycle == Lifecycle!Spec

\* A requested cancellation ends, also of a job that was paused with its worker
\* parked at the gate. A worker that died of a panic is the exception.
CancellationEnds ==
  \A j \in Job : (Mutable(j) /\ jobs[j].status = "cancelling")
                    ~> (~Mutable(j) \/ At(j, "dead"))

\* Accepted work ends, unless it is left paused or its worker died.
WorkEnds ==
  \A j \in Job : Live(j) ~> (~Mutable(j) \/ At(j, "dead") \/ jobs[j].status = "paused")
===========================================================================

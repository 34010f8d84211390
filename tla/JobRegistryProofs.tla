------------------------- MODULE JobRegistryProofs -------------------------
(***************************************************************************)
(* Proofs about JobRegistry, for every value of its constants.             *)
(*                                                                         *)
(* Everything rests on one observation, StepShape: a step leaves the       *)
(* records alone, admits a job, dismisses one, or rewrites one unfinished  *)
(* record as Rewrite allows.  The invariant of a record (RecordInv) and    *)
(* that of the worker behind it (WorkerInv) are what makes the             *)
(* properties TLC checks inductive.                                        *)
(***************************************************************************)
EXTENDS JobRegistry, FiniteSetTheorems, SequenceTheorems, TLAPS

\* The moves of a status within the life of one record.
Move(s, t) ==
  \/ s = t
  \/ s = "queued" /\ t = "running"
  \/ s \in {"queued", "running"} /\ t = "paused"
  \/ s = "paused" /\ t \in {"queued", "running"}
  \/ s \in {"queued", "running", "paused"} /\ t = "cancelling"
  \/ s \in {"queued", "running", "paused"} /\ t \in TerminalStatus
  \/ s = "cancelling" /\ t = "cancelled"

\* What every operation keeps of a record: gate and status agree, a job that
\* is being or was cancelled has its token set, summary and retry go with the
\* status, and the last snapshot has the record's revision.
RecordInv(r) ==
  /\ r.status = "absent" => r = NoRecord
  /\ r.sequence # 0 => r.status \in TerminalStatus
  /\ (~r.closed /\ r.status \notin TerminalStatus) => (r.paused <=> r.status = "paused")
  /\ r.status \in {"cancelling", "cancelled"} => r.token
  /\ r.summary <=> r.status = "completed"
  /\ r.failure = "retryable" => r.status = "failed"
  /\ r.snapshot.revision = r.revision
  /\ r.snapshot.summary <=> r.snapshot.status = "completed"
  /\ r.snapshot.output <=> (r.snapshot.status = "completed" /\ r.facts \in {"create", "extract"})
  /\ r.snapshot.retry => r.snapshot.status = "failed"
  /\ r.snapshot.status = "completed" => r.status = "completed"

\* What a step may make of the record r of a job that has not ended.
Rewrite(r, n) ==
  /\ n \in Record /\ RecordInv(n)
  /\ n.status # "absent"
  /\ Move(r.status, n.status)
  /\ r.token => n.token
  /\ r.closed => n.closed
  /\ n.snapshot # r.snapshot => n.snapshot.revision = r.snapshot.revision + 1

\* What a worker's place in its program says about its job.
WorkerInv(j) ==
  /\ j > nextJobId => jobs[j] = NoRecord /\ worker[j].pc = "none" /\ worker[j].event = "none"
  /\ worker[j].pc \in {"accepted", "ready"} => Live(j) /\ ~Terminal(j)
  /\ worker[j].pc \in {"running", "gated", "emitting"} /\ worker[j].left > 0
       => Live(j) /\ ~Terminal(j)
  /\ worker[j].pc \in {"gated", "emitting"} => worker[j].event \in CoreEvent /\ worker[j].left > 0
  /\ worker[j].pc = "returned" => worker[j].event \in Outcome
  /\ worker[j].event \in {"Cancelled", "cancelled"} /\ Live(j) => jobs[j].token
  /\ worker[j].pc = "finished" => ~Mutable(j)

IInv ==
  /\ TypeOK
  /\ \A j \in Job : RecordInv(jobs[j])
  /\ \A j \in Job : WorkerInv(j)

----------------------------------------------------------------------------
(* Records *)

\* The placeholder and the record of a new job are well-formed.
LEMMA FreshRecord ==
  /\ NoRecord \in Record /\ RecordInv(NoRecord)
  /\ Fresh \in Record /\ RecordInv(Fresh) /\ Fresh.status = "queued"
  /\ Fresh.sequence = 0
<1>1. NoSnapshot \in Snapshot
  BY LimitAssumption DEF NoSnapshot, Snapshot
<1>2. NoRecord \in Record /\ RecordInv(NoRecord)
  <2>1. NoRecord \in Record
    BY <1>1, LimitAssumption DEF NoRecord, Record
  <2>2. NoRecord.snapshot = NoSnapshot /\ NoRecord.status = "absent"
    BY DEF NoRecord
  <2> QED
    BY <2>1, <2>2 DEF NoRecord, NoSnapshot, RecordInv, TerminalStatus
<1> DEFINE r == [NoRecord EXCEPT !.status = "queued", !.revision = 1]
           s == SnapshotOf(r)
<1>3. Fresh = [r EXCEPT !.snapshot = s]
  BY DEF Fresh
<1>4. r \in Record
  <2>1. 1 \in 0 .. MaxU64 /\ "queued" \in Status \cup {"absent"}
    BY LimitAssumption DEF Status
  <2> QED
    BY <1>2, <2>1 DEF Record
<1>5. s \in Snapshot
  BY <1>4, LimitAssumption DEF Snapshot, SnapshotOf, Record
<1>6. Fresh \in Record /\ Fresh.status = "queued" /\ Fresh.sequence = 0
  BY <1>3, <1>4, <1>5 DEF Record, NoRecord
<1>7. RecordInv(Fresh)
  BY <1>3 DEF NoRecord, SnapshotOf, RecordInv, TerminalStatus
<1> QED
  BY <1>2, <1>6, <1>7

\* publish_record keeps a record well-formed and moves its snapshot by one
\* revision or not at all.
LEMMA PublishedRecord ==
  ASSUME NEW r \in Record, RecordInv(r), r.status # "absent"
  PROVE  /\ Published(r) \in Record /\ RecordInv(Published(r))
         /\ Published(r).status = r.status
         /\ Published(r).token = r.token
         /\ r.closed => Published(r).closed
         /\ Published(r).snapshot # r.snapshot
              => Published(r).snapshot.revision = r.snapshot.revision + 1
<1>1. CASE r.closed
  BY <1>1 DEF Published
<1>2. CASE ~r.closed /\ r.revision < MaxU64
  <2> DEFINE n == [r EXCEPT !.revision = @ + 1]
             s == SnapshotOf(n)
  <2>1. Published(r) = [n EXCEPT !.snapshot = s]
    BY <1>2 DEF Published
  <2>2. s \in Snapshot
    BY <1>2, LimitAssumption DEF Record, Snapshot, SnapshotOf
  <2>3. s.revision = r.revision + 1 /\ s.status = r.status /\ s.summary = r.summary
        /\ (s.output <=> (r.status = "completed" /\ r.facts \in {"create", "extract"}))
        /\ (s.retry => r.failure = "retryable")
    BY DEF SnapshotOf, Record
  <2>a. n \in Record
    BY <1>2, LimitAssumption DEF Record
  <2> HIDE DEF s
  <2>4. [n EXCEPT !.snapshot = s] \in Record
    BY <2>a, <2>2 DEF Record
  <2> QED
    BY <1>2, <2>1, <2>3, <2>4 DEF Record, RecordInv
<1>3. CASE ~r.closed /\ ~(r.revision < MaxU64)
  BY <1>3 DEF Published, Record, RecordInv
<1> QED
  BY <1>1, <1>2, <1>3

----------------------------------------------------------------------------
(* Operations on one record *)

\* One unfinished record was rewritten, and has status s now.
Rewritten(j, s) ==
  \E n : Rewrite(jobs[j], n) /\ n.status = s /\ jobs' = [jobs EXCEPT ![j] = n]

\* The part of TypeOK that publishing touches.
PublicationOK ==
  /\ terminalSequence \in 0 .. MaxU64
  /\ catalog \in [Job -> [revision : 0 .. MaxU64, status : Status \cup {"absent"}]]
  /\ catalogRevision \in 0 .. MaxU64
  /\ catalogClosed \in BOOLEAN

\* publish_catalog lists well-formed records as well-formed descriptors.
LEMMA PublishCatalogType ==
  ASSUME TypeOK, jobs' \in [Job -> Record],
         PublishCatalog \/ UNCHANGED catalogVars,
         terminalSequence' \in 0 .. MaxU64
  PROVE  PublicationOK'
<1>1. CASE UNCHANGED catalogVars
  BY <1>1 DEF TypeOK, PublicationOK, catalogVars
<1>2. CASE PublishCatalog /\ CatalogOpen
  <2>1. \A i \in Job : Descriptor(jobs'[i]) \in [revision : 0 .. MaxU64, status : Status \cup {"absent"}]
    BY DEF Descriptor, Record
  <2>2. catalogRevision + 1 \in 0 .. MaxU64
    BY <1>2, LimitAssumption DEF CatalogOpen, TypeOK
  <2> QED
    BY <1>2, <2>1, <2>2 DEF PublishCatalog, TypeOK, PublicationOK
<1>3. CASE PublishCatalog /\ ~CatalogOpen
  BY <1>3 DEF PublishCatalog, TypeOK, PublicationOK
<1> QED
  BY <1>1, <1>2, <1>3

\* Storing a legal rewrite through publish_record is a legal rewrite.
LEMMA StoreRewrites ==
  ASSUME TypeOK, NEW j \in Job, NEW r, Rewrite(jobs[j], r),
         r.snapshot = jobs[j].snapshot,
         NEW listed, StoreAndPublish(j, r, listed),
         terminalSequence' \in 0 .. MaxU64
  PROVE  Rewritten(j, r.status) /\ PublicationOK' /\ jobs' \in [Job -> Record]
<1> DEFINE n == Published(r)
<1>1. r \in Record /\ RecordInv(r) /\ r.status # "absent"
  BY DEF Rewrite
<1>2. /\ n \in Record /\ RecordInv(n) /\ n.status = r.status /\ n.token = r.token
      /\ r.closed => n.closed
      /\ n.snapshot # r.snapshot => n.snapshot.revision = r.snapshot.revision + 1
  BY <1>1, PublishedRecord
<1>3. jobs' = [jobs EXCEPT ![j] = n]
  BY DEF StoreAndPublish
<1> HIDE DEF n
<1>4. Rewrite(jobs[j], n)
  BY <1>1, <1>2 DEF Rewrite
<1>5. jobs' \in [Job -> Record]
  BY <1>2, <1>3 DEF TypeOK
<1>6. PublicationOK'
  BY <1>5, PublishCatalogType DEF StoreAndPublish
<1> QED
  BY <1>2, <1>3, <1>4, <1>5, <1>6 DEF Rewritten

\* So does the common tail of the emitters, which dates a record that ended.
LEMMA ConcludeRewrites ==
  ASSUME TypeOK, NEW j \in Job, NEW r, Rewrite(jobs[j], r),
         r.snapshot = jobs[j].snapshot, Conclude(j, r)
  PROVE  Rewritten(j, r.status) /\ PublicationOK' /\ jobs' \in [Job -> Record]
<1>1. CASE r.status \in TerminalStatus /\ terminalSequence < MaxU64
  <2> DEFINE d == [r EXCEPT !.sequence = terminalSequence + 1]
  <2>1. terminalSequence + 1 \in 0 .. MaxU64
    BY <1>1, LimitAssumption DEF TypeOK
  <2>2. d \in Record /\ d.status = r.status /\ d.snapshot = r.snapshot
    BY <2>1 DEF Rewrite, Record
  <2>3. RecordInv(d)
    BY <1>1, <2>1 DEF Rewrite, RecordInv, Record, TerminalStatus
  <2>4. Rewrite(jobs[j], d)
    BY <2>2, <2>3 DEF Rewrite, Record
  <2>5. StoreAndPublish(j, d, TRUE) /\ terminalSequence' = terminalSequence + 1
    BY <1>1 DEF Conclude
  <2> HIDE DEF d
  <2> QED
    BY <2>1, <2>2, <2>4, <2>5, StoreRewrites
<1>2. CASE r.status \in TerminalStatus /\ ~(terminalSequence < MaxU64)
  <2> DEFINE c == [r EXCEPT !.closed = TRUE]
  <2>1. c \in Record /\ c.status = r.status /\ c.snapshot = r.snapshot
    BY DEF Rewrite, Record
  <2>2. Rewrite(jobs[j], c)
    BY <1>2, <2>1 DEF Rewrite, RecordInv, Record, TerminalStatus
  <2>3. jobs' = [jobs EXCEPT ![j] = c] /\ UNCHANGED <<terminalSequence, catalogVars>>
    BY <1>2 DEF Conclude
  <2> HIDE DEF c
  <2>4. jobs' \in [Job -> Record]
    BY <2>1, <2>3 DEF TypeOK
  <2> QED
    BY <2>1, <2>2, <2>3, <2>4 DEF Rewritten, PublicationOK, TypeOK, catalogVars
<1>3. CASE r.status \notin TerminalStatus
  BY <1>3, StoreRewrites DEF Conclude, TypeOK
<1> QED
  BY <1>1, <1>2, <1>3
\* emit_job_event ignores a record or rewrites it; only Cancelled ends it.
LEMMA EmitJobEventRewrites ==
  ASSUME TypeOK, NEW j \in Job, RecordInv(jobs[j]), NEW e \in CoreEvent,
         e = "Cancelled" /\ Live(j) => jobs[j].token,
         EmitJobEvent(j, e)
  PROVE  /\ PublicationOK' /\ jobs' \in [Job -> Record]
         /\ \/ jobs' = jobs
            \/ /\ Mutable(j)
               /\ \E s : Rewritten(j, s) /\ (s \in TerminalStatus => e = "Cancelled")
<1>0. jobs[j] \in Record
  BY DEF TypeOK
<1>1. CASE ~Mutable(j)
  BY <1>1 DEF EmitJobEvent, Ignored, catalogVars, TypeOK, PublicationOK
<1>2. CASE Mutable(j) /\ e \in {"Completed", "Failed"}
  <2> DEFINE r == [jobs[j] EXCEPT !.failure = IF e = "Failed" THEN "final" ELSE @]
  <2>1. r \in Record /\ r.status = jobs[j].status /\ r.snapshot = jobs[j].snapshot
    BY <1>0 DEF Record
  <2>2. Rewrite(jobs[j], r)
    BY <1>0, <1>2, <2>1 DEF Rewrite, RecordInv, Record, Mutable, Live, Terminal, Move
  <2>3. StoreAndPublish(j, r, TRUE) /\ UNCHANGED terminalSequence
    BY <1>2 DEF EmitJobEvent
  <2> HIDE DEF r
  <2>4. Rewritten(j, r.status) /\ PublicationOK' /\ jobs' \in [Job -> Record]
    BY <2>1, <2>2, <2>3, StoreRewrites DEF TypeOK
  <2> QED
    BY <1>2, <2>1, <2>4 DEF Mutable, Terminal
<1>3. CASE Mutable(j) /\ e \in {"Started", "Progress", "Cancelled"}
  <2> DEFINE t == StatusAfter(jobs[j].status, e)
             r == [jobs[j] EXCEPT !.status = t]
  <2>1. Conclude(j, r)
    BY <1>3 DEF EmitJobEvent
  <2>2. jobs[j].status \in {"queued", "running", "paused", "cancelling"}
    BY <1>0, <1>3 DEF Mutable, Live, Terminal, Record, Status
  <2>3. \/ e = "Cancelled" /\ t = "cancelled" /\ jobs[j].token
        \/ e # "Cancelled" /\ jobs[j].status = "queued" /\ t = "running"
        \/ e # "Cancelled" /\ t = jobs[j].status
    BY <1>3 DEF StatusAfter, Mutable
  <2>4. t \in Status /\ Move(jobs[j].status, t)
    BY <2>2, <2>3 DEF Move, Status, TerminalStatus
  <2> HIDE DEF t
  <2>5. /\ r \in Record /\ r.status = t /\ r.snapshot = jobs[j].snapshot
        /\ r.token = jobs[j].token /\ r.closed = jobs[j].closed
    BY <1>0, <2>4 DEF Record
  <2>6. RecordInv(r)
    BY <1>0, <2>2, <2>3 DEF RecordInv, Record, TerminalStatus
  <2>7. Rewrite(jobs[j], r)
    BY <2>2, <2>3, <2>4, <2>5, <2>6 DEF Rewrite
  <2>8. r.status \in TerminalStatus => e = "Cancelled"
    BY <2>2, <2>3, <2>5 DEF TerminalStatus
  <2> HIDE DEF r
  <2> QED
    BY <1>3, <2>1, <2>5, <2>7, <2>8, ConcludeRewrites
<1> QED
  BY <1>1, <1>2, <1>3 DEF CoreEvent

\* emit_direct_event does too; everything but Started ends the record.
LEMMA EmitDirectEventRewrites ==
  ASSUME TypeOK, NEW j \in Job, RecordInv(jobs[j]),
         NEW e \in {"Started", "failed", "retryable", "cancelled"},
         e = "cancelled" /\ Live(j) => jobs[j].token,
         EmitDirectEvent(j, e)
  PROVE  /\ PublicationOK' /\ jobs' \in [Job -> Record]
         /\ \/ jobs' = jobs /\ ~Mutable(j)
            \/ /\ Mutable(j)
               /\ \E s : Rewritten(j, s) /\ (s \in TerminalStatus <=> e # "Started")
<1>0. jobs[j] \in Record
  BY DEF TypeOK
<1>1. CASE ~Mutable(j)
  BY <1>1 DEF EmitDirectEvent, Ignored, catalogVars, TypeOK, PublicationOK
<1>2. CASE Mutable(j)
  <2> DEFINE v == IF jobs[j].status = "cancelling" /\ e # "Started" THEN "cancelled" ELSE e
             t == StatusAfter(jobs[j].status, v)
             r == [jobs[j] EXCEPT
                     !.status  = StatusAfter(@, v),
                     !.summary = IF v = "cancelled" THEN FALSE ELSE @,
                     !.failure = CASE v = "failed"    -> "final"
                                   [] v = "retryable" -> "retryable"
                                   [] OTHER           -> @]
  <2>1. /\ t \in Status /\ Move(jobs[j].status, t)
        /\ t \in TerminalStatus <=> e # "Started"
        /\ t # "completed"
        /\ t \in {"cancelling", "cancelled"} => jobs[j].token
        /\ v \in {"failed", "retryable"} <=> t = "failed"
        /\ t = "paused" <=> (jobs[j].status = "paused" /\ e = "Started")
    BY <1>0, <1>2 DEF StatusAfter, Move, Record, RecordInv, Status, TerminalStatus, Mutable, Live, Terminal
  <2> DEFINE f == CASE v = "failed"    -> "final"
                    [] v = "retryable" -> "retryable"
                    [] OTHER           -> jobs[j].failure
             b == IF v = "cancelled" THEN FALSE ELSE jobs[j].summary
  <2>a. f \in {"none", "final", "retryable"} /\ b \in BOOLEAN /\ (b => jobs[j].summary)
        /\ (f = "retryable" => (v = "retryable" \/ jobs[j].failure = "retryable"))
    BY <1>0 DEF Record
  <2>b. r = [jobs[j] EXCEPT !.status = t, !.summary = b, !.failure = f]
    OBVIOUS
  <2> HIDE DEF f, b
  <2>2. r \in Record /\ r.status = t /\ r.snapshot = jobs[j].snapshot /\ r.token = jobs[j].token
        /\ r.closed = jobs[j].closed /\ r.paused = jobs[j].paused /\ r.facts = jobs[j].facts
        /\ r.sequence = jobs[j].sequence /\ r.revision = jobs[j].revision
        /\ (r.failure = "retryable" => (v = "retryable" \/ jobs[j].failure = "retryable"))
        /\ (r.summary => jobs[j].summary)
    <3> HIDE DEF r, t, v
    <3> QED
      BY <1>0, <2>1, <2>a, <2>b DEF Record
  <2>3. EmitDirectEvent(j, e) => Conclude(j, r)
    BY <1>2 DEF EmitDirectEvent
  <2>4. jobs[j].status \notin TerminalStatus /\ jobs[j].status # "absent"
    BY <1>2 DEF Mutable, Live, Terminal
  <2>5. t = "paused" => jobs[j].status = "paused"
    BY <2>1
  <2>6. t \notin TerminalStatus => (jobs[j].status = "paused" => t = "paused")
    BY <2>1
  <2> HIDE DEF r, t, v
  <2>7. RecordInv(r)
    BY <1>0, <2>1, <2>2, <2>4, <2>5, <2>6 DEF RecordInv, Status, TerminalStatus
  <2>8. Rewrite(jobs[j], r)
    BY <2>1, <2>2, <2>7 DEF Rewrite, Status, TerminalStatus
  <2> QED
    BY <1>2, <2>1, <2>2, <2>3, <2>8, ConcludeRewrites
<1> QED
  BY <1>1, <1>2
\* commit_completed ends a record, as completed or as cancelled.
LEMMA CommitCompletedRewrites ==
  ASSUME TypeOK, NEW j \in Job, RecordInv(jobs[j]), CommitCompleted(j)
  PROVE  /\ PublicationOK' /\ jobs' \in [Job -> Record]
         /\ \/ jobs' = jobs /\ ~Mutable(j)
            \/ /\ Mutable(j)
               /\ \E s \in TerminalStatus : Rewritten(j, s)
<1>0. jobs[j] \in Record
  BY DEF TypeOK
<1>1. CASE ~Mutable(j)
  BY <1>1 DEF CommitCompleted, Ignored, catalogVars, TypeOK, PublicationOK
<1>2. CASE Mutable(j)
  <2> DEFINE c == jobs[j].status = "cancelling"
             t == IF c THEN "cancelled" ELSE "completed"
             r == [jobs[j] EXCEPT !.status = t, !.summary = ~c]
  <2>1. jobs[j].status \in {"queued", "running", "paused", "cancelling"}
    BY <1>0, <1>2 DEF Mutable, Live, Terminal, Record, Status
  <2>2. /\ r \in Record /\ r.status = t /\ r.snapshot = jobs[j].snapshot
        /\ r.token = jobs[j].token /\ r.closed = jobs[j].closed
    BY <1>0 DEF Record, Status, TerminalStatus
  <2>3. RecordInv(r)
    BY <1>0, <2>1 DEF RecordInv, Record, TerminalStatus
  <2>4. Rewrite(jobs[j], r)
    BY <2>1, <2>2, <2>3 DEF Rewrite, Move, TerminalStatus
  <2>5. t \in TerminalStatus
    BY DEF TerminalStatus
  <2>6. CASE terminalSequence < MaxU64
    <3> DEFINE d == [r EXCEPT !.sequence = terminalSequence + 1]
    <3>1. StoreAndPublish(j, d, TRUE) /\ terminalSequence' = terminalSequence + 1
      BY <1>2, <2>6 DEF CommitCompleted
    <3>2. terminalSequence + 1 \in 0 .. MaxU64
      BY <2>6, LimitAssumption DEF TypeOK
    <3> HIDE DEF r
    <3>3. d \in Record /\ d.status = r.status /\ d.snapshot = r.snapshot
      BY <2>2, <3>2 DEF Record
    <3>4. RecordInv(d)
      BY <2>2, <2>3, <2>5, <3>2 DEF RecordInv, Record
    <3>5. Rewrite(jobs[j], d)
      BY <2>2, <2>4, <3>3, <3>4 DEF Rewrite, Record
    <3> HIDE DEF d, t
    <3> QED
      BY <1>2, <2>2, <2>5, <3>1, <3>2, <3>3, <3>5, StoreRewrites
  <2>7. CASE ~(terminalSequence < MaxU64)
    <3>1. jobs' = [jobs EXCEPT ![j] = r] /\ UNCHANGED <<terminalSequence, catalogVars>>
      BY <1>2, <2>7 DEF CommitCompleted
    <3> HIDE DEF r, t
    <3>2. jobs' \in [Job -> Record]
      BY <2>2, <3>1 DEF TypeOK
    <3> QED
      BY <1>2, <2>2, <2>4, <2>5, <3>1, <3>2 DEF Rewritten, PublicationOK, TypeOK, catalogVars
  <2> QED
    BY <2>6, <2>7
<1> QED
  BY <1>1, <1>2

\* A control command rewrites the record of a job that can still change.
LEMMA ControlRewrites ==
  ASSUME TypeOK, NEW j \in Job, RecordInv(jobs[j]),
         RequestCancel(j) \/ RequestPause(j) \/ RequestResume(j)
  PROVE  /\ PublicationOK' /\ jobs' \in [Job -> Record] /\ Mutable(j)
         /\ \E s : s \notin TerminalStatus /\ Rewritten(j, s)
<1>0. jobs[j] \in Record
  BY DEF TypeOK
<1>1. ASSUME NEW r, Control(j, r), Rewrite(jobs[j], r), r.snapshot = jobs[j].snapshot,
             r.status \notin TerminalStatus
      PROVE  /\ PublicationOK' /\ jobs' \in [Job -> Record] /\ Mutable(j)
             /\ \E s : s \notin TerminalStatus /\ Rewritten(j, s)
  BY <1>1, StoreRewrites DEF Control, TypeOK
<1>2. ASSUME Mutable(j)
      PROVE  jobs[j].status \in {"queued", "running", "paused", "cancelling"}
  BY <1>0, <1>2 DEF Mutable, Live, Terminal, Record, Status
<1>3. CASE RequestCancel(j)
  <2> DEFINE r == [jobs[j] EXCEPT !.status = "cancelling", !.token = TRUE, !.paused = FALSE]
  <2>1. Control(j, r) /\ Mutable(j)
    BY <1>3 DEF RequestCancel, Control
  <2>2. /\ r \in Record /\ r.status = "cancelling" /\ r.snapshot = jobs[j].snapshot
        /\ r.token = TRUE /\ r.closed = jobs[j].closed
    BY <1>0 DEF Record, Status
  <2>3. RecordInv(r)
    BY <1>0, <1>2, <2>1 DEF RecordInv, Record, TerminalStatus
  <2>4. Rewrite(jobs[j], r) /\ r.status \notin TerminalStatus
    BY <1>2, <2>1, <2>2, <2>3 DEF Rewrite, Move, TerminalStatus
  <2> HIDE DEF r
  <2> QED
    BY <1>1, <2>1, <2>2, <2>4
<1>4. CASE RequestPause(j)
  <2> DEFINE r == [jobs[j] EXCEPT !.status = "paused", !.paused = TRUE,
                                  !.pausedFrom = jobs[j].status]
  <2>1. Control(j, r) /\ Mutable(j) /\ jobs[j].status \in {"queued", "running"}
    BY <1>4 DEF RequestPause, Control
  <2>2. /\ r \in Record /\ r.status = "paused" /\ r.snapshot = jobs[j].snapshot
        /\ r.token = jobs[j].token /\ r.closed = jobs[j].closed
    BY <1>0, <2>1 DEF Record, Status
  <2>3. RecordInv(r)
    BY <1>0, <2>1 DEF RecordInv, Record, TerminalStatus
  <2>4. Rewrite(jobs[j], r) /\ r.status \notin TerminalStatus
    BY <2>1, <2>2, <2>3 DEF Rewrite, Move, TerminalStatus
  <2> HIDE DEF r
  <2> QED
    BY <1>1, <2>1, <2>2, <2>4
<1>5. CASE RequestResume(j)
  <2> DEFINE t == IF jobs[j].pausedFrom = "none" THEN "running" ELSE jobs[j].pausedFrom
             r == [jobs[j] EXCEPT !.paused = FALSE, !.pausedFrom = "none", !.status = t]
  <2>1. Control(j, r) /\ Mutable(j) /\ jobs[j].status = "paused"
    BY <1>5 DEF RequestResume, Control
  <2>2. t \in {"queued", "running"}
    BY <1>0 DEF Record
  <2> HIDE DEF t
  <2>3. /\ r \in Record /\ r.status = t /\ r.snapshot = jobs[j].snapshot
        /\ r.token = jobs[j].token /\ r.closed = jobs[j].closed
    BY <1>0, <2>2 DEF Record, Status
  <2>4. RecordInv(r)
    BY <1>0, <2>1, <2>2 DEF RecordInv, Record, TerminalStatus
  <2>5. Rewrite(jobs[j], r) /\ r.status \notin TerminalStatus
    BY <2>1, <2>2, <2>3, <2>4 DEF Rewrite, Move, TerminalStatus
  <2> HIDE DEF r
  <2> QED
    BY <1>1, <2>1, <2>3, <2>5
<1> QED
  BY <1>3, <1>4, <1>5
----------------------------------------------------------------------------
(* The shape of a step *)

JobStep(j) ==
  \/ jobs' = jobs
  \/ Live(j) /\ ~Terminal(j) /\ \E s : Rewritten(j, s)

\* The steps of one job: its worker, its prompt, its panic, its controls.
OperationOn(j) ==
  \/ WorkerStep(j) \/ QuitOverwritePrompt(j) \/ Panic(j)
  \/ RequestCancel(j) \/ RequestPause(j) \/ RequestResume(j)

\* The status a rewrite names is the status the job has afterwards.
LEMMA RewrittenStatus ==
  ASSUME TypeOK, NEW j \in Job, NEW s, Rewritten(j, s)
  PROVE  jobs'[j].status = s
BY DEF TypeOK, Rewritten

\* configure_recovery_facts touches nothing a watcher sees but the revision.
LEMMA ConfigureRewrites ==
  ASSUME TypeOK, NEW j \in Job, RecordInv(jobs[j]), ConfigureRecoveryFacts(j)
  PROVE  /\ PublicationOK' /\ jobs' \in [Job -> Record] /\ JobStep(j)
         /\ Terminal(j)' => Terminal(j)
<1>0. jobs[j] \in Record /\ worker[j].kind \in Kind \cup {"none"}
  BY DEF TypeOK, Thread
<1>1. CASE ~Mutable(j)
  BY <1>1 DEF ConfigureRecoveryFacts, PublicationOK, TypeOK, JobStep, Terminal, catalogVars
<1>2. CASE Mutable(j)
  <2> DEFINE r == [jobs[j] EXCEPT !.facts = worker[j].kind]
  <2>1. StoreAndPublish(j, r, TRUE) /\ UNCHANGED terminalSequence
    BY <1>2 DEF ConfigureRecoveryFacts
  <2>2. jobs[j].status \in {"queued", "running", "paused", "cancelling"}
    BY <1>0, <1>2 DEF Mutable, Live, Terminal, Record, Status
  <2>3. /\ r \in Record /\ r.status = jobs[j].status /\ r.snapshot = jobs[j].snapshot
        /\ r.token = jobs[j].token /\ r.closed = jobs[j].closed
    BY <1>0 DEF Record
  <2>4. RecordInv(r)
    BY <1>0, <2>2 DEF RecordInv, Record, TerminalStatus
  <2>5. Rewrite(jobs[j], r)
    BY <2>2, <2>3, <2>4 DEF Rewrite, Move
  <2> HIDE DEF r
  <2> QED
    BY <1>2, <2>1, <2>5, <2>3, StoreRewrites, RewrittenStatus DEF TypeOK, JobStep, Mutable, Terminal
<1> QED
  BY <1>1, <1>2

\* Answering a prompt with Quit sets the token of a job that is at work.
LEMMA QuitRewrites ==
  ASSUME IInv, NEW j \in Job, QuitOverwritePrompt(j)
  PROVE  /\ PublicationOK' /\ jobs' \in [Job -> Record] /\ JobStep(j)
         /\ Terminal(j)' => Terminal(j)
<1> DEFINE r == [jobs[j] EXCEPT !.token = TRUE]
<1>1. jobs[j] \in Record /\ RecordInv(jobs[j])
  BY DEF IInv, TypeOK
<1>2. Live(j) /\ ~Terminal(j)
  BY DEF IInv, WorkerInv, QuitOverwritePrompt, At
<1>3. jobs' = [jobs EXCEPT ![j] = r] /\ UNCHANGED <<terminalSequence, catalogVars>>
  BY <1>1 DEF QuitOverwritePrompt, IInv, TypeOK, Record
<1>4. r \in Record /\ RecordInv(r) /\ r.status = jobs[j].status /\ r.snapshot = jobs[j].snapshot
      /\ r.closed = jobs[j].closed /\ r.token = TRUE
  BY <1>1, <1>2 DEF Record, RecordInv, Live, Terminal
<1>5. Rewrite(jobs[j], r)
  BY <1>2, <1>4 DEF Rewrite, Live, Move
<1> HIDE DEF r
<1>6. Rewritten(j, r.status) /\ jobs' \in [Job -> Record]
  BY <1>3, <1>4, <1>5 DEF Rewritten, IInv, TypeOK
<1> QED
  BY <1>2, <1>3, <1>4, <1>6, RewrittenStatus DEF JobStep, PublicationOK, IInv, TypeOK, catalogVars, Terminal

\* What the settling of a worker makes of its job.
LEMMA SettleRewrites ==
  ASSUME IInv, NEW j \in Job, Settle(j)
  PROVE  /\ PublicationOK' /\ jobs' \in [Job -> Record] /\ JobStep(j)
         /\ Mutable(j) => \E s \in TerminalStatus : Rewritten(j, s)
         /\ ~Mutable(j) => jobs' = jobs
<1>1. /\ TypeOK /\ RecordInv(jobs[j]) /\ worker[j].event \in Outcome
      /\ worker[j].event = "cancelled" /\ Live(j) => jobs[j].token
  BY DEF IInv, WorkerInv, Settle, At
<1>2. CASE worker[j].event = "ok"
  BY <1>1, <1>2, CommitCompletedRewrites DEF Settle, JobStep, Mutable
<1>3. CASE worker[j].event # "ok"
  <2> DEFINE e == worker[j].event
  <2>1. e \in {"Started", "failed", "retryable", "cancelled"} /\ e # "Started"
        /\ EmitDirectEvent(j, e)
    BY <1>1, <1>3 DEF Outcome, Settle
  <2> HIDE DEF e
  <2> QED
    BY <1>1, <2>1, EmitDirectEventRewrites DEF JobStep, Mutable, e
<1> QED
  BY <1>2, <1>3

\* A step of one job rewrites its record as Rewrite allows, or not at all; only
\* settling, a panic and the engine's Cancelled event end the job.
LEMMA OperationShape ==
  ASSUME IInv, NEW j \in Job, OperationOn(j)
  PROVE  /\ PublicationOK' /\ jobs' \in [Job -> Record]
         /\ JobStep(j)
         /\ Terminal(j)' => Terminal(j) \/ Settle(j) \/ Panic(j)
                            \/ (Emit(j) /\ worker[j].event = "Cancelled")
         /\ UNCHANGED acceptVars
<1>1. TypeOK /\ RecordInv(jobs[j]) /\ WorkerInv(j)
  BY DEF IInv
<1>2. CASE ConfigureRecoveryFacts(j)
  BY <1>1, <1>2, ConfigureRewrites DEF ConfigureRecoveryFacts
<1>3. CASE BeginWork(j)
  <2>1. CASE Ignored
    BY <1>1, <1>3, <2>1 DEF Ignored, BeginWork, PublicationOK, TypeOK, JobStep, Terminal, catalogVars
  <2>2. CASE EmitDirectEvent(j, "Started")
    <3>1. /\ PublicationOK' /\ jobs' \in [Job -> Record]
          /\ \/ jobs' = jobs
             \/ Mutable(j) /\ \E s : s \notin TerminalStatus /\ Rewritten(j, s)
      BY <1>1, <2>2, EmitDirectEventRewrites
    <3> QED
      BY <1>1, <1>3, <3>1, RewrittenStatus DEF BeginWork, JobStep, Mutable, Terminal
  <2> QED
    BY <1>3, <2>1, <2>2 DEF BeginWork
<1>4. CASE (\E e \in CoreEvent : ArriveAtGate(j, e)) \/ PassGate(j) \/ (\E o \in Outcome : EngineReturns(j, o))
  BY <1>1, <1>4 DEF ArriveAtGate, PassGate, EngineReturns, PublicationOK, TypeOK, JobStep, Terminal, catalogVars
<1>5. CASE Emit(j)
  <2> DEFINE e == worker[j].event
  <2>1. /\ e \in CoreEvent /\ EmitJobEvent(j, e)
        /\ e = "Cancelled" /\ Live(j) => jobs[j].token
        /\ UNCHANGED acceptVars
    BY <1>1, <1>5 DEF Emit, WorkerInv, At
  <2> HIDE DEF e
  <2>2. /\ PublicationOK' /\ jobs' \in [Job -> Record]
        /\ \/ jobs' = jobs
           \/ Mutable(j) /\ \E s : Rewritten(j, s) /\ (s \in TerminalStatus => e = "Cancelled")
    BY <1>1, <2>1, EmitJobEventRewrites
  <2> QED
    BY <1>1, <1>5, <2>1, <2>2, RewrittenStatus DEF JobStep, Mutable, Terminal, e
<1>6. CASE Settle(j)
  BY <1>6, SettleRewrites DEF Settle
<1>7. CASE QuitOverwritePrompt(j)
  BY <1>7, QuitRewrites DEF QuitOverwritePrompt
<1>8. CASE Panic(j)
  <2>1. CASE Ignored
    BY <1>1, <1>8, <2>1 DEF Ignored, Panic, PublicationOK, TypeOK, JobStep, catalogVars
  <2>2. CASE EmitDirectEvent(j, "failed")
    BY <1>1, <1>8, <2>2, EmitDirectEventRewrites DEF Panic, JobStep, Mutable
  <2> QED
    BY <1>8, <2>1, <2>2 DEF Panic
<1>9. CASE RequestCancel(j) \/ RequestPause(j) \/ RequestResume(j)
  <2>1. UNCHANGED acceptVars
    BY <1>9 DEF RequestCancel, RequestPause, RequestResume, Control
  <2> QED
    BY <1>1, <1>9, <2>1, ControlRewrites, RewrittenStatus DEF JobStep, Mutable, Terminal
<1> QED
  BY <1>2, <1>3, <1>4, <1>5, <1>6, <1>7, <1>8, <1>9 DEF OperationOn, WorkerStep

\* What every legal rewrite keeps, seen from any job.
LEMMA JobStepKeeps ==
  ASSUME TypeOK, NEW j \in Job, JobStep(j), jobs' \in [Job -> Record], NEW i \in Job,
         RecordInv(jobs[i])
  PROVE  /\ RecordInv(jobs'[i])
         /\ Live(i) <=> Live(i)'
         /\ Terminal(i) => jobs'[i] = jobs[i]
         /\ ~Mutable(i) => ~Mutable(i)'
         /\ jobs[i].token => jobs'[i].token
         /\ i # j => jobs'[i] = jobs[i]
         /\ Move(jobs[i].status, jobs'[i].status)
         /\ jobs'[i].snapshot # jobs[i].snapshot
              => jobs'[i].snapshot.revision = jobs[i].snapshot.revision + 1
<1>1. CASE jobs' = jobs
  BY <1>1 DEF Live, Terminal, Mutable, Move
<1>2. CASE Live(j) /\ ~Terminal(j) /\ \E s : Rewritten(j, s)
  <2>1. PICK n : Rewrite(jobs[j], n) /\ jobs' = [jobs EXCEPT ![j] = n]
    BY <1>2 DEF Rewritten
  <2>2. CASE i = j
    <3>1. jobs'[i] = n
      BY <2>1, <2>2 DEF TypeOK
    <3> QED
      BY <1>2, <2>1, <2>2, <3>1 DEF Rewrite, Live, Terminal, Mutable
  <2>3. CASE i # j
    <3>1. jobs'[i] = jobs[i]
      BY <2>1, <2>3 DEF TypeOK
    <3> QED
      BY <2>3, <3>1 DEF Live, Terminal, Mutable, Move
  <2> QED
    BY <2>2, <2>3
<1> QED
  BY <1>1, <1>2 DEF JobStep

\* The worker of the job a step is about keeps its invariant.
LEMMA OperationWorker ==
  ASSUME IInv, NEW j \in Job, OperationOn(j)
  PROVE  worker' \in [Job -> Thread] /\ WorkerInv(j)' /\ controls' \in 0 .. MaxControls
<1> DEFINE w == worker[j]
           ended == Settle(j) \/ Panic(j) \/ (Emit(j) /\ w.event = "Cancelled")
<1>1. /\ TypeOK /\ RecordInv(jobs[j]) /\ WorkerInv(j)
      /\ w \in Thread /\ j \in Nat
      /\ jobs' \in [Job -> Record] /\ JobStep(j) /\ nextJobId' = nextJobId
      /\ Terminal(j)' => Terminal(j) \/ ended
  BY OperationShape, ModelBoundAssumption DEF IInv, TypeOK, acceptVars, Job
<1>2. /\ RecordInv(jobs'[j])
      /\ Live(j) <=> Live(j)'
      /\ ~Mutable(j) => ~Mutable(j)'
      /\ jobs[j].token => jobs'[j].token
      /\ ~Live(j) => jobs'[j] = NoRecord
  BY <1>1, JobStepKeeps DEF RecordInv, Live
<1>3. CASE ConfigureRecoveryFacts(j)
  <2>1. PICK pc \in {"ready", "abandoned"} : worker' = [worker EXCEPT ![j].pc = pc]
    BY <1>3 DEF ConfigureRecoveryFacts, GoTo
  <2>2. worker' \in [Job -> Thread] /\ worker'[j] = [w EXCEPT !.pc = pc]
    BY <1>1, <2>1 DEF TypeOK, Thread
  <2>3. ~ended /\ w.pc = "accepted" /\ UNCHANGED controls
    BY <1>3 DEF Settle, Panic, Emit, ConfigureRecoveryFacts, At
  <2> QED
    BY <1>1, <1>2, <2>2, <2>3 DEF WorkerInv, Thread, TypeOK
<1>4. CASE BeginWork(j)
  <2> DEFINE left == IF w.kind = "test" THEN 0 ELSE MaxEvents
  <2>1. left \in 0 .. MaxEvents
    BY ModelBoundAssumption
  <2>2. worker' = [worker EXCEPT ![j].pc = "running", ![j].left = left]
        /\ ~ended /\ w.pc = "ready" /\ UNCHANGED controls
    BY <1>4 DEF Settle, Panic, Emit, BeginWork, At
  <2> HIDE DEF left
  <2>3. worker' \in [Job -> Thread] /\ worker'[j] = [w EXCEPT !.pc = "running", !.left = left]
    BY <1>1, <2>1, <2>2 DEF TypeOK, Thread
  <2> QED
    BY <1>1, <1>2, <2>2, <2>3 DEF WorkerInv, Thread, TypeOK
<1>5. CASE \E e \in CoreEvent : ArriveAtGate(j, e)
  <2>1. PICK e \in CoreEvent : ArriveAtGate(j, e)
    BY <1>5
  <2>2. worker' = [worker EXCEPT ![j].pc = "gated", ![j].event = e]
        /\ w.pc = "running" /\ w.left > 0 /\ UNCHANGED <<jobs, controls>>
        /\ (e = "Cancelled" => jobs[j].token)
    BY <2>1 DEF ArriveAtGate, At
  <2>3. worker' \in [Job -> Thread] /\ worker'[j] = [w EXCEPT !.pc = "gated", !.event = e]
    BY <1>1, <2>2 DEF TypeOK, Thread
  <2> QED
    BY <1>1, <1>2, <2>1, <2>2, <2>3 DEF WorkerInv, Thread, TypeOK, CoreEvent, Terminal, Live
<1>6. CASE PassGate(j)
  <2>1. worker' = [worker EXCEPT ![j].pc = "emitting"]
        /\ ~ended /\ w.pc = "gated" /\ UNCHANGED controls
    BY <1>6 DEF Settle, Panic, Emit, PassGate, GoTo, At
  <2>2. worker' \in [Job -> Thread] /\ worker'[j] = [w EXCEPT !.pc = "emitting"]
    BY <1>1, <2>1 DEF TypeOK, Thread
  <2> QED
    BY <1>1, <1>2, <2>1, <2>2 DEF WorkerInv, Thread, TypeOK
<1>7. CASE Emit(j)
  <2> DEFINE left == IF w.event \in LastEvent THEN 0 ELSE w.left - 1
  <2>1. worker' = [worker EXCEPT ![j].pc = "running", ![j].event = "none", ![j].left = left]
        /\ w.pc = "emitting" /\ UNCHANGED controls
    BY <1>7 DEF Emit, At
  <2>2. left \in 0 .. MaxEvents /\ (left > 0 => ~ended)
    BY <1>1, <2>1, ModelBoundAssumption DEF WorkerInv, Thread, LastEvent, Settle, Panic, Emit, At
  <2> HIDE DEF left
  <2>3. worker' \in [Job -> Thread]
        /\ worker'[j] = [w EXCEPT !.pc = "running", !.event = "none", !.left = left]
    BY <1>1, <2>1, <2>2 DEF TypeOK, Thread
  <2> QED
    BY <1>1, <1>2, <2>1, <2>2, <2>3 DEF WorkerInv, Thread, TypeOK
<1>8. CASE \E o \in Outcome : EngineReturns(j, o)
  <2>1. PICK o \in Outcome : EngineReturns(j, o)
    BY <1>8
  <2>2. worker' = [worker EXCEPT ![j].pc = "returned", ![j].event = o]
        /\ w.pc = "running" /\ UNCHANGED <<jobs, controls>>
        /\ (o = "cancelled" => jobs[j].token) /\ o # "Cancelled"
    BY <2>1 DEF EngineReturns, At, Outcome
  <2>3. worker' \in [Job -> Thread] /\ worker'[j] = [w EXCEPT !.pc = "returned", !.event = o]
    BY <1>1, <2>2 DEF TypeOK, Thread
  <2> QED
    BY <1>1, <1>2, <2>1, <2>2, <2>3 DEF WorkerInv, Thread, TypeOK
<1>9. ASSUME NEW pc \in {"finished", "dead"}, NEW event \in {w.event, "none"},
             worker' = [worker EXCEPT ![j].pc = pc, ![j].event = event],
             w.pc # "none", UNCHANGED controls,
             pc = "finished" => ~Mutable(j)'
      PROVE  worker' \in [Job -> Thread] /\ WorkerInv(j)' /\ controls' \in 0 .. MaxControls
  <2>1. worker' \in [Job -> Thread] /\ worker'[j] = [w EXCEPT !.pc = pc, !.event = event]
    BY <1>1, <1>9 DEF TypeOK, Thread
  <2> QED
    BY <1>1, <1>2, <1>9, <2>1 DEF WorkerInv, Thread, TypeOK
<1>10. CASE Settle(j)
  <2>1. worker' = [worker EXCEPT ![j].pc = "finished", ![j].event = "none"]
        /\ w.pc = "returned" /\ UNCHANGED controls
    BY <1>10 DEF Settle, At
  <2>2. ~Mutable(j)'
    BY <1>1, <1>2, <1>10, SettleRewrites, RewrittenStatus DEF Mutable, Terminal
  <2> QED
    BY <1>9, <2>1, <2>2
<1>11. CASE Panic(j)
  <2> DEFINE pc == IF w.kind = "create" THEN "finished" ELSE "dead"
  <2>1. worker' = [worker EXCEPT ![j].pc = pc] /\ w.pc = "running" /\ UNCHANGED controls
    BY <1>11 DEF Panic, GoTo, At
  <2>2. worker' = [worker EXCEPT ![j].pc = pc, ![j].event = w.event]
    BY <1>1, <2>1 DEF TypeOK, Thread
  <2>3. pc = "finished" => ~Mutable(j)'
    <3>1. pc = "finished" => EmitDirectEvent(j, "failed")
      BY <1>11 DEF Panic
    <3>2. EmitDirectEvent(j, "failed") /\ Mutable(j) => \E s \in TerminalStatus : Rewritten(j, s)
      BY <1>1, EmitDirectEventRewrites
    <3> QED
      BY <1>1, <1>2, <3>1, <3>2, RewrittenStatus DEF Mutable, Terminal
  <2> HIDE DEF pc
  <2>4. pc \in {"finished", "dead"}
    BY DEF pc
  <2> QED
    BY <1>9, <2>1, <2>2, <2>3, <2>4
<1>12. CASE QuitOverwritePrompt(j) \/ RequestCancel(j) \/ RequestPause(j) \/ RequestResume(j)
  <2>1. worker' = worker /\ ~Terminal(j)' /\ controls' \in 0 .. MaxControls
    <3>1. CASE QuitOverwritePrompt(j)
      <4>1. worker' = worker /\ controls' = controls
        BY <3>1 DEF QuitOverwritePrompt
      <4>2. ~Terminal(j)
        BY <1>1, <3>1 DEF WorkerInv, QuitOverwritePrompt, At
      <4> QED
        BY <1>1, <3>1, <4>1, <4>2, QuitRewrites DEF TypeOK
    <3>2. CASE RequestCancel(j) \/ RequestPause(j) \/ RequestResume(j)
      <4>1. worker' = worker /\ controls' = controls + 1 /\ controls < MaxControls
        BY <3>2 DEF RequestCancel, RequestPause, RequestResume, Control
      <4>2. ~Terminal(j)'
        BY <1>1, <3>2, ControlRewrites, RewrittenStatus DEF Terminal
      <4> QED
        BY <1>1, <4>1, <4>2, ModelBoundAssumption DEF TypeOK
    <3> QED
      BY <1>12, <3>1, <3>2
  <2> QED
    BY <1>1, <1>2, <2>1 DEF WorkerInv, TypeOK, Live, NoRecord
<1> QED
  BY <1>3, <1>4, <1>5, <1>6, <1>7, <1>8, <1>10, <1>11, <1>12 DEF OperationOn, WorkerStep
\* Eviction only takes records that have ended.
LEMMA EvictedHaveEnded ==
  ASSUME IInv, NEW j \in Evicted
  PROVE  j \in Job /\ Terminal(j) /\ jobs[j].sequence # 0
BY DEF IInv, RecordInv, Evicted, Terminal

\* A request leaves every record alone but the evicted ones and its own.
LEMMA AcceptShape ==
  ASSUME IInv, NEW k \in Kind, Accept(k)
  PROVE  /\ nextJobId + 1 \in Job /\ nextJobId' = nextJobId + 1
         /\ jobs[nextJobId + 1] = NoRecord
         /\ jobs' = Retained \/ (Admit(k) /\ jobs' = [Retained EXCEPT ![nextJobId + 1] = Fresh])
         /\ jobs' \in [Job -> Record]
         /\ \A i \in Job : i # nextJobId + 1
              => jobs'[i] = jobs[i] \/ (i \in Evicted /\ Terminal(i) /\ jobs'[i] = NoRecord)
         /\ jobs'[nextJobId + 1] \in {NoRecord, Fresh}
<1>1. /\ nextJobId + 1 \in Job /\ nextJobId' = nextJobId + 1
      /\ nextJobId + 1 > nextJobId
  BY ModelBoundAssumption DEF Accept, IInv, TypeOK, Job
<1>2. jobs[nextJobId + 1] = NoRecord
  BY <1>1 DEF IInv, WorkerInv
<1>3. Retained \in [Job -> Record]
      /\ \A i \in Job : Retained[i] = jobs[i] \/ (i \in Evicted /\ Terminal(i) /\ Retained[i] = NoRecord)
  BY FreshRecord, EvictedHaveEnded DEF Retained, IInv, TypeOK
<1>4. nextJobId + 1 \notin Evicted
  BY <1>2, EvictedHaveEnded DEF NoRecord
<1>5. jobs' = Retained \/ (Admit(k) /\ jobs' = [Retained EXCEPT ![nextJobId + 1] = Fresh])
  BY DEF Accept, RefuseAdmission, RollBackAdmission, Admit
<1>6. Retained[nextJobId + 1] = NoRecord
  BY <1>1, <1>2 DEF Retained
<1> HIDE DEF Retained
<1> QED
  BY <1>1, <1>2, <1>3, <1>4, <1>5, <1>6, FreshRecord

\* Every operation of the specification keeps the invariant.
LEMMA AcceptKeeps ==
  ASSUME IInv, NEW k \in Kind, Accept(k)
  PROVE  IInv'
<1> DEFINE id == nextJobId + 1
<1>1. /\ id \in Job /\ nextJobId' = id
      /\ jobs[id] = NoRecord
      /\ jobs' \in [Job -> Record]
      /\ \A i \in Job : i # id => jobs'[i] = jobs[i] \/ (Terminal(i) /\ jobs'[i] = NoRecord)
      /\ jobs'[id] \in {NoRecord, Fresh}
      /\ jobs' = Retained \/ (Admit(k) /\ jobs'[id] = Fresh)
      /\ UNCHANGED <<terminalSequence, controls>>
  <2>1. Retained \in [Job -> Record]
    BY FreshRecord DEF Retained, IInv, TypeOK
  <2> HIDE DEF Retained
  <2> QED
    BY <2>1, AcceptShape DEF Accept
<1>2. PublicationOK'
  BY <1>1, PublishCatalogType
     DEF IInv, TypeOK, Accept, RefuseAdmission, RollBackAdmission, Admit
<1>3. /\ accepted' \in Seq([job : Job, revision : 1 .. MaxU64])
      /\ acceptance' \in 0 .. MaxU64
  <2>1. CASE Admit(k)
    <3>1. [job |-> id, revision |-> acceptance + 1] \in [job : Job, revision : 1 .. MaxU64]
          /\ acceptance + 1 \in 0 .. MaxU64
      BY <1>1, LimitAssumption DEF Accept, IInv, TypeOK
    <3> QED
      BY <2>1, <3>1 DEF Admit, IInv, TypeOK
  <2>2. CASE UNCHANGED <<accepted, acceptance>>
    BY <2>2 DEF IInv, TypeOK
  <2> QED
    BY <2>1, <2>2 DEF Accept, RefuseAdmission, RollBackAdmission
<1>4. /\ worker' \in [Job -> Thread]
      /\ \A i \in Job : i # id => worker'[i] = worker[i]
      /\ worker'[id].event = "none"
      /\ worker'[id].pc = "none" \/ (worker'[id].pc = "accepted" /\ jobs'[id] = Fresh)
  <2>1. worker \in [Job -> Thread] /\ worker[id] \in Thread
        /\ worker[id].pc = "none" /\ worker[id].event = "none"
    BY <1>1, ModelBoundAssumption DEF IInv, TypeOK, WorkerInv, Job
  <2>2. CASE Admit(k)
    <3> DEFINE n == [worker[id] EXCEPT !.pc = "accepted", !.kind = k]
    <3>1. n \in Thread /\ n.pc = "accepted" /\ n.event = "none"
      BY <2>1 DEF Thread
    <3>2. worker' = [worker EXCEPT ![id] = n]
      BY <2>1, <2>2 DEF Admit
    <3>3. jobs'[id] = Fresh
      <4>1. Retained \in [Job -> Record]
        BY FreshRecord DEF Retained, IInv, TypeOK
      <4> QED
        BY <1>1, <2>2, <4>1 DEF Admit
    <3> HIDE DEF n
    <3> QED
      BY <1>1, <2>1, <3>1, <3>2, <3>3
  <2>3. CASE UNCHANGED worker
    BY <2>1, <2>3
  <2> QED
    BY <2>2, <2>3 DEF Accept, RefuseAdmission, RollBackAdmission
<1>5. TypeOK'
  BY <1>1, <1>2, <1>3, <1>4 DEF TypeOK, PublicationOK, IInv, Job
<1>6. ASSUME NEW i \in Job PROVE RecordInv(jobs'[i])
  BY <1>1, FreshRecord DEF IInv
<1>7. ASSUME NEW i \in Job PROVE WorkerInv(i)'
  <2>0. i \in Nat /\ nextJobId \in Nat /\ worker[i] \in Thread /\ jobs[i] \in Record
    BY ModelBoundAssumption DEF Job, IInv, TypeOK
  <2>1. CASE i # id
    <3>1. WorkerInv(i) /\ worker'[i] = worker[i]
      BY <1>4, <2>1 DEF IInv
    <3>2. jobs'[i] = jobs[i] \/ (Terminal(i) /\ jobs'[i] = NoRecord)
      BY <1>1, <2>1
    <3> QED
      BY <1>1, <2>0, <2>1, <3>1, <3>2
         DEF WorkerInv, Live, Terminal, Mutable, NoRecord, TerminalStatus
  <2>2. CASE i = id
    <3>1. ~(i > nextJobId') /\ worker'[i].event = "none"
      BY <1>1, <1>4, <2>0, <2>2
    <3>2. worker'[i].pc = "none" \/ (worker'[i].pc = "accepted" /\ Live(i)' /\ ~Terminal(i)')
      BY <1>4, <2>2, FreshRecord DEF Live, Terminal, TerminalStatus
    <3> QED
      BY <3>1, <3>2 DEF WorkerInv
  <2> QED
    BY <2>1, <2>2
<1> QED
  BY <1>5, <1>6, <1>7 DEF IInv

\* A dismissal takes a record whose worker is done with it.
LEMMA DismissKeeps ==
  ASSUME IInv, NEW j \in Job, Dismiss(j)
  PROVE  IInv' /\ jobs' = [jobs EXCEPT ![j] = NoRecord]
<1>1. jobs' = [jobs EXCEPT ![j] = NoRecord] /\ jobs' \in [Job -> Record]
      /\ UNCHANGED <<terminalSequence, acceptVars, worker, controls>>
      /\ Live(j) /\ Terminal(j)
  BY FreshRecord DEF Dismiss, IInv, TypeOK
<1>2. PublicationOK'
  BY <1>1, PublishCatalogType DEF Dismiss, IInv, TypeOK
<1>3. TypeOK'
  BY <1>1, <1>2 DEF TypeOK, PublicationOK, IInv, acceptVars
<1>4. ASSUME NEW i \in Job PROVE RecordInv(jobs'[i])
  BY <1>1, FreshRecord DEF IInv, TypeOK
<1>5. ASSUME NEW i \in Job PROVE WorkerInv(i)'
  <2>1. jobs'[i] = IF i = j THEN NoRecord ELSE jobs[i]
    BY <1>1 DEF IInv, TypeOK
  <2> QED
    BY <1>1, <2>1 DEF IInv, WorkerInv, Live, Terminal, Mutable, acceptVars, NoRecord, TerminalStatus
<1> QED
  BY <1>1, <1>3, <1>4, <1>5 DEF IInv

\* An acknowledgement only shortens the queue of accepted jobs.
LEMMA AcknowledgeKeeps ==
  ASSUME IInv, NEW n \in 1 .. MaxJobs, AcknowledgeAccepted(n)
  PROVE  IInv' /\ jobs' = jobs
<1> DEFINE Entry == [job : Job, revision : 1 .. MaxU64]
<1>1. accepted \in Seq(Entry) /\ n \in Nat
  BY ModelBoundAssumption DEF IInv, TypeOK
<1> HIDE DEF Entry
<1>2. accepted' \in Seq(Entry)
  <2>1. Len(accepted) \in Nat /\ \A i \in 1 .. Len(accepted) : accepted[i] \in Entry
    BY <1>1, ElementOfSeq, LenProperties
  <2>2. \A i \in n + 1 .. Len(accepted) : accepted[i] \in Entry
    BY <1>1, <2>1
  <2> QED
    BY <1>1, <2>1, <2>2, SubSeqProperties DEF AcknowledgeAccepted
<1>3. UNCHANGED <<jobs, nextJobId, acceptance, terminalSequence, catalogVars, worker, controls>>
  BY DEF AcknowledgeAccepted
<1>4. TypeOK'
  BY <1>2, <1>3 DEF TypeOK, IInv, catalogVars, Entry
<1> QED
  BY <1>3, <1>4 DEF IInv, WorkerInv, Live, Terminal, Mutable

\* So do the operations of one job: what they rewrite, and the worker behind it.
LEMMA OperationKeeps ==
  ASSUME IInv, NEW j \in Job, OperationOn(j)
  PROVE  IInv'
<1>1. /\ PublicationOK' /\ jobs' \in [Job -> Record] /\ JobStep(j)
      /\ UNCHANGED acceptVars
      /\ worker' \in [Job -> Thread] /\ WorkerInv(j)' /\ controls' \in 0 .. MaxControls
  BY OperationShape, OperationWorker
<1>2. TypeOK'
  BY <1>1 DEF TypeOK, PublicationOK, IInv, acceptVars
<1>3. \A i \in Job : RecordInv(jobs'[i])
  BY <1>1, JobStepKeeps DEF IInv
<1>4. \A i \in Job : i # j => worker'[i] = worker[i]
  BY DEF OperationOn, WorkerStep, ConfigureRecoveryFacts, BeginWork, ArriveAtGate, PassGate,
         Emit, EngineReturns, Settle, QuitOverwritePrompt, Panic, RequestCancel,
         RequestPause, RequestResume, Control, GoTo, IInv, TypeOK
<1>5. ASSUME NEW i \in Job PROVE WorkerInv(i)'
  <2>1. CASE i = j
    BY <1>1, <2>1
  <2>2. CASE i # j
    <3>1. jobs'[i] = jobs[i] /\ worker'[i] = worker[i] /\ WorkerInv(i) /\ nextJobId' = nextJobId
      BY <1>1, <1>4, <2>2, JobStepKeeps DEF IInv, acceptVars
    <3> QED
      BY <3>1 DEF WorkerInv, Live, Terminal, Mutable
  <2> QED
    BY <2>1, <2>2
<1> QED
  BY <1>2, <1>3, <1>5 DEF IInv

\* The invariant holds initially ...
LEMMA InitIInv == Init => IInv
<1> SUFFICES ASSUME Init PROVE IInv
  OBVIOUS
<1>1. TypeOK
  <2>1. Descriptor(NoRecord) \in [revision : 0 .. MaxU64, status : Status \cup {"absent"}]
    BY LimitAssumption DEF Descriptor, NoRecord
  <2>2. [pc |-> "none", kind |-> "none", event |-> "none", left |-> 0] \in Thread
    BY ModelBoundAssumption DEF Thread
  <2> QED
    <3>1. <<>> \in Seq([job : Job, revision : 1 .. MaxU64])
      BY EmptySeq
    <3>2. /\ 0 \in 0 .. MaxJobs /\ 0 \in 0 .. MaxU64 /\ 0 \in 0 .. MaxControls
      BY LimitAssumption, ModelBoundAssumption
    <3> QED
      BY <2>1, <2>2, <3>1, <3>2, FreshRecord DEF Init, TypeOK
<1>2. \A j \in Job : jobs[j] = NoRecord /\ worker[j].pc = "none" /\ worker[j].event = "none"
  BY DEF Init
<1> QED
  BY <1>1, <1>2, FreshRecord DEF IInv, WorkerInv, Outcome

\* ... and every step keeps it.
LEMMA NextIInv == IInv /\ [Next]_vars => IInv'
<1> SUFFICES ASSUME IInv, [Next]_vars PROVE IInv'
  OBVIOUS
<1>1. ASSUME NEW k \in Kind, Accept(k) PROVE IInv'
  BY <1>1, AcceptKeeps
<1>2. ASSUME NEW n \in 1 .. MaxJobs, AcknowledgeAccepted(n) PROVE IInv'
  BY <1>2, AcknowledgeKeeps
<1>3. ASSUME NEW j \in Job, OperationOn(j) PROVE IInv'
  BY <1>3, OperationKeeps
<1>4. ASSUME NEW j \in Job, Dismiss(j) PROVE IInv'
  BY <1>4, DismissKeeps
<1>5. CASE UNCHANGED vars
  BY <1>5 DEF vars, IInv, TypeOK, WorkerInv, Live, Terminal, Mutable
<1> QED
  BY <1>1, <1>2, <1>3, <1>4, <1>5 DEF Next, OperationOn
\* The inductive invariant holds throughout.
LEMMA Invariance == Spec => []IInv
BY InitIInv, NextIInv, PTL DEF Spec

----------------------------------------------------------------------------
(* The properties *)

\* The registry's records, its catalog, the accepted queue and the workers keep
\* the shape the code's types give them (RegistryState, JobRecord).
THEOREM TypeCorrect == Spec => []TypeOK
<1>1. IInv => TypeOK
  BY DEF IInv
<1> QED
  BY <1>1, Invariance, PTL

\* Whichever of pause, resume, cancel and a late event came last, the pause gate
\* of a job that can still change is shut exactly when its status says paused.
THEOREM GateFollowsStatus == Spec => []GateMatchesStatus
<1>1. IInv => GateMatchesStatus
  BY DEF IInv, RecordInv, GateMatchesStatus, Mutable, Live, Terminal
<1> QED
  BY <1>1, Invariance, PTL

\* A snapshot reports success, summary and outputs together or not at all.
THEOREM SuccessAtomic == Spec => []SuccessIsAtomic
<1>1. IInv => SuccessIsAtomic
  BY DEF IInv, RecordInv, SuccessIsAtomic
<1> QED
  BY <1>1, Invariance, PTL

\* A worker that reached its end left a job that cannot change any more.
THEOREM FinishedTerminal == Spec => []FinishedWorkIsTerminal
<1>1. IInv => FinishedWorkIsTerminal
  BY DEF IInv, WorkerInv, FinishedWorkIsTerminal, At
<1> QED
  BY <1>1, Invariance, PTL

\* A job is only reported cancelled after its token was.
THEOREM CancelledAsked == Spec => []CancelledWasAsked
<1>1. IInv => CancelledWasAsked
  BY DEF IInv, RecordInv, CancelledWasAsked
<1> QED
  BY <1>1, Invariance, PTL

\* Every step, seen from any job: it keeps the record, admits or rewrites it as
\* Rewrite allows, or takes a terminal one away.
LEMMA StepShape ==
  ASSUME IInv, [Next]_vars, NEW i \in Job
  PROVE  \/ jobs'[i] = jobs[i]
         \/ ~Live(i) /\ jobs'[i] = Fresh
         \/ Terminal(i) /\ jobs'[i] = NoRecord
         \/ /\ Live(i) /\ ~Terminal(i) /\ jobs'[i].status # "absent"
            /\ Move(jobs[i].status, jobs'[i].status)
            /\ jobs'[i].snapshot # jobs[i].snapshot
                 => jobs'[i].snapshot.revision = jobs[i].snapshot.revision + 1
<1>1. ASSUME NEW k \in Kind, Accept(k)
      PROVE  jobs'[i] = jobs[i] \/ (~Live(i) /\ jobs'[i] = Fresh) \/ (Terminal(i) /\ jobs'[i] = NoRecord)
  <2>1. CASE i = nextJobId + 1
    <3>1. jobs[i] = NoRecord /\ jobs'[i] \in {NoRecord, Fresh}
      BY <1>1, <2>1, AcceptShape
    <3>2. NoRecord.status = "absent"
      BY DEF NoRecord
    <3> QED
      BY <3>1, <3>2 DEF Live
  <2>2. CASE i # nextJobId + 1
    BY <1>1, <2>2, AcceptShape
  <2> QED
    BY <2>1, <2>2
<1>2. ASSUME NEW n \in 1 .. MaxJobs, AcknowledgeAccepted(n)
      PROVE  jobs'[i] = jobs[i]
  BY <1>2, AcknowledgeKeeps
<1>3. ASSUME NEW j \in Job, Dismiss(j)
      PROVE  jobs'[i] = jobs[i] \/ (Terminal(i) /\ jobs'[i] = NoRecord)
  BY <1>3, DismissKeeps DEF Dismiss, IInv, TypeOK
<1>4. ASSUME NEW j \in Job, OperationOn(j)
      PROVE  \/ jobs'[i] = jobs[i]
             \/ /\ Live(i) /\ ~Terminal(i) /\ jobs'[i].status # "absent"
                /\ Move(jobs[i].status, jobs'[i].status)
                /\ jobs'[i].snapshot # jobs[i].snapshot
                     => jobs'[i].snapshot.revision = jobs[i].snapshot.revision + 1
  <2>1. TypeOK /\ JobStep(j) /\ jobs' \in [Job -> Record] /\ RecordInv(jobs[i])
    BY <1>4, OperationShape DEF IInv
  <2>2. CASE Live(i)
    BY <2>1, <2>2, JobStepKeeps DEF Live
  <2>3. CASE ~Live(i)
    <3>1. jobs[i] = NoRecord /\ jobs'[i].status = "absent" /\ RecordInv(jobs'[i])
      BY <2>1, <2>3, JobStepKeeps DEF RecordInv, Live
    <3> QED
      BY <3>1 DEF RecordInv
  <2> QED
    BY <2>2, <2>3
<1>5. CASE UNCHANGED vars
  BY <1>5 DEF vars
<1> QED
  BY <1>1, <1>2, <1>3, <1>4, <1>5 DEF Next, OperationOn

\* A terminal record rejects every late mutation.
THEOREM TerminalFinal == Spec => TerminalIsFinal
<1>1. IInv /\ [Next]_vars => \A j \in Job : Terminal(j) => jobs'[j] \in {jobs[j], NoRecord}
  BY StepShape DEF Terminal, Live, TerminalStatus
<1> QED
  BY <1>1, Invariance, PTL DEF Spec, TerminalIsFinal

\* Eviction, rollback and dismissal take no job that has not ended.
THEOREM OnlyTerminalLeave == Spec => OnlyTerminalJobsLeave
<1>1. IInv /\ [Next]_vars => \A j \in Job : Live(j) /\ jobs'[j].status = "absent" => Terminal(j)
  BY StepShape DEF Terminal, Live
<1> QED
  BY <1>1, Invariance, PTL DEF Spec, OnlyTerminalJobsLeave

\* A published snapshot only ever changes with the next revision.
THEOREM SnapshotRevisions == Spec => SnapshotsAdvance
<1>1. IInv /\ [Next]_vars
        => \A j \in Job : Live(j) /\ jobs'[j].status # "absent" /\ jobs'[j].snapshot # jobs[j].snapshot
                            => jobs'[j].snapshot.revision = jobs[j].snapshot.revision + 1
  BY StepShape DEF NoRecord
<1> QED
  BY <1>1, Invariance, PTL DEF Spec, SnapshotsAdvance
----------------------------------------------------------------------------
(* Refinement *)

\* The status of every job as JobLifecycle sees it.
Shown == [j \in Job |-> jobs[j].status]

\* A request is one admission or refusal of a new id.
LEMMA AcceptRefines ==
  ASSUME IInv, NEW k \in Kind, Accept(k)
  PROVE  Lifecycle!Next
<1> DEFINE id == nextJobId + 1
           s  == jobs'[id].status
<1>1. /\ id \in Job /\ nextJobId' = id /\ nextJobId \in Nat
      /\ jobs' = Retained \/ jobs' = [Retained EXCEPT ![id] = Fresh]
      /\ jobs'[id] \in {NoRecord, Fresh}
  BY AcceptShape, ModelBoundAssumption DEF IInv, TypeOK
<1>2. Evicted \subseteq Job /\ \A i \in Evicted : jobs[i].status \in TerminalStatus
  BY EvictedHaveEnded DEF Terminal
<1>3. s \in {"queued", "absent"} /\ NoRecord.status = "absent"
  <2>1. NoRecord.status = "absent"
    BY DEF NoRecord
  <2> QED
    BY <1>1, <2>1, FreshRecord
<1>4. ASSUME NEW i \in Job, i # id
      PROVE  jobs'[i].status = IF i \in Evicted THEN "absent" ELSE jobs[i].status
  BY <1>1, <1>3, <1>4 DEF Retained
<1>5. Shown' = [i \in Job |-> IF i = id THEN s
                              ELSE IF i \in Evicted THEN "absent" ELSE Shown[i]]
  BY <1>1, <1>4 DEF Shown
<1>6. id \notin 1 .. nextJobId /\ (1 .. nextJobId)' = (1 .. nextJobId) \cup {id}
  BY <1>1
<1>7. Evicted \subseteq Lifecycle!Ended
  BY <1>2 DEF Lifecycle!Ended, TerminalStatus
<1>8. PICK j \in Job, gone \in SUBSET Job, x \in {"queued", "absent"} :
        j = id /\ gone = Evicted /\ x = s
  BY <1>1, <1>2, <1>3
<1> HIDE DEF s, id
<1>9. Lifecycle!Request(j, gone, x)
  BY <1>5, <1>6, <1>7, <1>8 DEF Lifecycle!Request, Shown
<1> QED
  BY <1>9 DEF Lifecycle!Next

\* A step of one job is one move of its status, or none.
LEMMA OperationRefines ==
  ASSUME IInv, NEW j \in Job, OperationOn(j)
  PROVE  Lifecycle!Next \/ UNCHANGED <<Shown, 1 .. nextJobId>>
<1>1. TypeOK /\ JobStep(j) /\ jobs' \in [Job -> Record] /\ nextJobId' = nextJobId
  BY OperationShape DEF IInv, acceptVars
<1>2. CASE jobs' = jobs
  BY <1>1, <1>2 DEF Shown
<1>3. CASE Live(j) /\ ~Terminal(j) /\ \E s : Rewritten(j, s)
  <2>1. PICK n : Rewrite(jobs[j], n) /\ jobs' = [jobs EXCEPT ![j] = n]
    BY <1>3 DEF Rewritten
  <2> DEFINE s == jobs[j].status
             t == n.status
  <2>2. Move(s, t) /\ s \notin TerminalStatus /\ s # "absent" /\ t # "absent"
    BY <1>3, <2>1 DEF Rewrite, Live, Terminal
  <2>3. Shown' = [Shown EXCEPT ![j] = t] /\ Shown[j] = s /\ UNCHANGED (1 .. nextJobId)
    BY <1>1, <2>1 DEF Shown, TypeOK
  <2>4. CASE s = t
    BY <1>1, <2>1, <2>3, <2>4 DEF Shown
  <2> HIDE DEF s, t
  <2>5. Lifecycle!Become(j, t)
    BY <2>3 DEF Lifecycle!Become, Shown
  <2>6. CASE s # t
    <3>1. \/ Lifecycle!Start(j) \/ Lifecycle!Pause(j) \/ Lifecycle!Resume(j)
          \/ Lifecycle!Cancel(j) \/ Lifecycle!End(j)
      BY <2>2, <2>3, <2>5, <2>6
         DEF Move, TerminalStatus, Shown, Lifecycle!Start, Lifecycle!Pause, Lifecycle!Resume,
             Lifecycle!Cancel, Lifecycle!End
    <3> QED
      BY <3>1 DEF Lifecycle!Next
  <2> QED
    BY <2>4, <2>6
<1> QED
  BY <1>1, <1>2, <1>3 DEF JobStep

\* A dismissal is a dismissal.
LEMMA DismissRefines ==
  ASSUME IInv, NEW j \in Job, Dismiss(j)
  PROVE  Lifecycle!Next
<1>1. jobs' = [jobs EXCEPT ![j] = NoRecord] /\ nextJobId' = nextJobId /\ Terminal(j)
  BY DismissKeeps DEF Dismiss, acceptVars
<1>2. NoRecord.status = "absent"
  BY DEF NoRecord
<1>3. Shown' = [Shown EXCEPT ![j] = "absent"] /\ UNCHANGED (1 .. nextJobId)
  BY <1>1, <1>2 DEF Shown, IInv, TypeOK
<1>4. Lifecycle!Become(j, "absent")
  BY <1>3 DEF Lifecycle!Become, Shown
<1>5. j \in Lifecycle!Ended
  BY <1>1 DEF Lifecycle!Ended, Terminal, TerminalStatus
<1> QED
  BY <1>4, <1>5 DEF Lifecycle!Next, Lifecycle!Dismiss

\* The registry implements the life of a job as its watchers know it.
THEOREM RegistryImplementsLifecycle == Spec => ImplementsLifecycle
<1>1. Init => Lifecycle!Init
  <2>1. NoRecord.status = "absent"
    BY DEF NoRecord
  <2> QED
    BY <2>1 DEF Init, Lifecycle!Init
<1>2. IInv /\ [Next]_vars => Lifecycle!Next \/ UNCHANGED <<Shown, 1 .. nextJobId>>
  <2> SUFFICES ASSUME IInv, [Next]_vars
               PROVE  Lifecycle!Next \/ UNCHANGED <<Shown, 1 .. nextJobId>>
    OBVIOUS
  <2>1. ASSUME NEW n \in 1 .. MaxJobs, AcknowledgeAccepted(n)
        PROVE  UNCHANGED <<Shown, 1 .. nextJobId>>
    BY <2>1 DEF AcknowledgeAccepted, Shown
  <2>2. CASE UNCHANGED vars
    BY <2>2 DEF vars, Shown
  <2> QED
    BY <2>1, <2>2, AcceptRefines, OperationRefines, DismissRefines DEF Next, OperationOn
<1>3. IInv /\ [Next]_vars => [Lifecycle!Next]_<<[j \in Job |-> jobs[j].status], 1 .. nextJobId>>
  BY <1>2 DEF Shown
<1> QED
  BY <1>1, <1>3, Invariance, PTL DEF Spec, ImplementsLifecycle, Lifecycle!Spec
----------------------------------------------------------------------------
(* Admission, eviction and the catalog *)

Occupied == {j \in Job : Live(j)}

\* Sets of jobs are finite, so their cardinalities compare.
LEMMA JobSets ==
  ASSUME NEW S \in SUBSET Job
  PROVE  /\ IsFiniteSet(S) /\ Cardinality(S) \in Nat
         /\ \A T \in SUBSET S : Cardinality(T) <= Cardinality(S)
                             /\ (Cardinality(T) = Cardinality(S) => T = S)
         /\ \A x \in Job \ S : Cardinality(S \cup {x}) = Cardinality(S) + 1
<1>1. IsFiniteSet(Job)
  BY FS_Interval, ModelBoundAssumption DEF Job
<1>2. IsFiniteSet(S)
  BY <1>1, FS_Subset
<1> QED
  BY <1>2, FS_Subset, FS_AddElement, FS_CardinalityType

\* An admission fills one place of those that eviction left.
LEMMA AcceptBound ==
  ASSUME IInv, NEW k \in Kind, Accept(k), AdmissionBound
  PROVE  AdmissionBound'
<1> DEFINE id   == nextJobId + 1
           kept == {i \in Job : Retained[i].status # "absent"}
<1>1. id \in Job /\ jobs[id] = NoRecord /\ NoRecord.status = "absent"
  BY AcceptShape DEF NoRecord
<1>2. Retained \in [Job -> Record] /\ Retained[id] = NoRecord /\ kept \subseteq Occupied
  BY <1>1, FreshRecord DEF Retained, IInv, TypeOK, Occupied, Live
<1>3. CASE jobs' = Retained
  <2>1. {i \in Job : Live(i)'} = kept
    BY <1>3 DEF Live
  <2>2. Cardinality(kept) <= Cardinality(Occupied)
    BY <1>2, JobSets DEF Occupied
  <2>3. Cardinality(kept) \in Nat /\ Cardinality(Occupied) \in Nat
    BY JobSets DEF Occupied
  <2>4. Cardinality(Occupied) <= MaxAdmitted
    BY DEF AdmissionBound, Occupied
  <2>5. Cardinality({i \in Job : Live(i)'}) <= MaxAdmitted
    <3> HIDE DEF kept
    <3> QED
      BY <2>1, <2>2, <2>3, <2>4, LimitAssumption
  <2> QED
    BY <2>5 DEF AdmissionBound
<1>4. CASE Admit(k) /\ jobs' = [Retained EXCEPT ![id] = Fresh]
  <2>1. {i \in Job : Live(i)'} = kept \cup {id}
    BY <1>1, <1>2, <1>4, FreshRecord DEF Live
  <2>2. id \in Job \ kept
    BY <1>1, <1>2
  <2>3. Cardinality(kept \cup {id}) = Cardinality(kept) + 1 /\ Cardinality(kept) \in Nat
    BY <2>2, JobSets
  <2>4. Cardinality(kept) < MaxAdmitted
    BY <1>4 DEF Admit, HasRoom, Places
  <2>5. Cardinality({i \in Job : Live(i)'}) <= MaxAdmitted
    <3> HIDE DEF kept
    <3> QED
      BY <2>1, <2>3, <2>4, LimitAssumption
  <2> QED
    BY <2>5 DEF AdmissionBound
<1> QED
  BY <1>3, <1>4, AcceptShape

\* Nothing but an admission adds a record.
LEMMA OthersAddNothing ==
  ASSUME IInv, [Next]_vars, ~(\E k \in Kind : Accept(k))
  PROVE  \A i \in Job : Live(i)' => Live(i)
<1> SUFFICES ASSUME NEW i \in Job, Live(i)' PROVE Live(i)
  OBVIOUS
<1>1. ASSUME NEW n \in 1 .. MaxJobs, AcknowledgeAccepted(n) PROVE Live(i)
  BY <1>1 DEF AcknowledgeAccepted, Live
<1>2. ASSUME NEW j \in Job, Dismiss(j) PROVE Live(i)
  <2>1. NoRecord.status = "absent"
    BY DEF NoRecord
  <2> QED
    BY <1>2, <2>1 DEF Dismiss, Live, IInv, TypeOK
<1>3. ASSUME NEW j \in Job, OperationOn(j) PROVE Live(i)
  BY <1>3, OperationShape, JobStepKeeps DEF IInv
<1>4. CASE UNCHANGED vars
  BY <1>4 DEF vars, Live
<1> QED
  BY <1>1, <1>2, <1>3, <1>4 DEF Next, OperationOn

\* The registry never holds more than MAX_ADMITTED_JOBS records, whatever the
\* interleaving of admissions, endings and dismissals.
THEOREM AdmissionIsBounded == Spec => []AdmissionBound
<1>1. Init => AdmissionBound
  <2>1. NoRecord.status = "absent"
    BY DEF NoRecord
  <2>2. Init => Occupied = {}
    BY <2>1 DEF Init, Occupied, Live
  <2> QED
    BY <2>2, FS_EmptySet, LimitAssumption DEF AdmissionBound, Occupied
<1>2. IInv /\ AdmissionBound /\ [Next]_vars => AdmissionBound'
  <2> SUFFICES ASSUME IInv, AdmissionBound, [Next]_vars PROVE AdmissionBound'
    OBVIOUS
  <2>1. CASE \E k \in Kind : Accept(k)
    BY <2>1, AcceptBound
  <2>2. CASE ~(\E k \in Kind : Accept(k))
    <3> DEFINE after == {i \in Job : Live(i)'}
    <3>1. after \subseteq Occupied
      BY <2>2, OthersAddNothing DEF Occupied
    <3>2. Cardinality(after) <= Cardinality(Occupied)
          /\ Cardinality(after) \in Nat /\ Cardinality(Occupied) \in Nat
      BY <3>1, JobSets DEF Occupied
    <3> QED
      BY <3>2, LimitAssumption DEF AdmissionBound, Occupied
  <2> QED
    BY <2>1, <2>2
<1> QED
  BY <1>1, <1>2, Invariance, PTL DEF Spec

\* Admission evicts in the order in which jobs ended.
THEOREM EvictionInOrder == Spec => OldestLeaveFirst
<1> DEFINE dated    == {h \in Job : jobs[h].sequence # 0}
           done     == {h \in Job : Terminal(h)}
           older(h) == {g \in Job : EndedBefore(g, h)}
<1>1. ASSUME IInv, NEW i \in Evicted, NEW j \in dated, j \notin Evicted
      PROVE  jobs[i].sequence < jobs[j].sequence
  <2>1. /\ i \in dated
        /\ Cardinality(older(i)) + MaxRetained <= Cardinality(done)
        /\ ~(Cardinality(older(j)) + MaxRetained <= Cardinality(done))
    BY <1>1 DEF Evicted
  <2>2. ASSUME ~(jobs[i].sequence < jobs[j].sequence)
        PROVE  older(j) \subseteq older(i)
    BY <1>1, <2>1, <2>2, LimitAssumption DEF EndedBefore, IInv, TypeOK, Record
  <2>3. Cardinality(older(i)) \in Nat /\ Cardinality(older(j)) \in Nat /\ Cardinality(done) \in Nat
    BY JobSets
  <2>4. older(j) \subseteq older(i) => Cardinality(older(j)) <= Cardinality(older(i))
    BY JobSets
  <2> HIDE DEF older, done
  <2> QED
    BY <2>1, <2>2, <2>3, <2>4, LimitAssumption
<1>2. ASSUME IInv, [Next]_vars, nextJobId' # nextJobId,
             NEW i \in Job, NEW j \in Job,
             Live(i), jobs'[i].status = "absent", jobs'[j].sequence # 0
      PROVE  jobs[i].sequence < jobs[j].sequence
  <2>1. PICK k \in Kind : Accept(k)
    <3>1. ASSUME NEW h \in Job, OperationOn(h) PROVE FALSE
      BY <1>2, <3>1, OperationShape DEF acceptVars
    <3>2. ASSUME NEW h \in Job, Dismiss(h) PROVE FALSE
      BY <1>2, <3>2 DEF Dismiss, acceptVars
    <3>3. ASSUME NEW n \in 1 .. MaxJobs, AcknowledgeAccepted(n) PROVE FALSE
      BY <1>2, <3>3 DEF AcknowledgeAccepted
    <3> QED
      BY <1>2, <3>1, <3>2, <3>3 DEF Next, OperationOn, vars
  <2>2. NoRecord.status = "absent" /\ NoRecord.sequence = 0
    BY DEF NoRecord
  <2>3. i # nextJobId + 1
    BY <1>2, <2>1, <2>2, AcceptShape DEF Live
  <2>4. i \in Evicted
    BY <1>2, <2>1, <2>3, AcceptShape DEF Live
  <2>5. j # nextJobId + 1
    BY <1>2, <2>1, <2>2, AcceptShape, FreshRecord
  <2>6. jobs'[j] = jobs[j]
    BY <1>2, <2>1, <2>2, <2>5, AcceptShape
  <2>7. j \notin Evicted
    <3>1. j \in Evicted => Retained[j] = NoRecord
      BY DEF Retained
    <3>2. jobs'[j] = Retained[j]
      <4>1. Retained \in [Job -> Record]
        BY <1>2, FreshRecord DEF Retained, IInv, TypeOK
      <4> HIDE DEF Retained
      <4> QED
        BY <1>2, <2>1, <2>5, <4>1, AcceptShape
    <3> QED
      BY <1>2, <2>2, <3>1, <3>2
  <2> QED
    BY <1>1, <1>2, <2>4, <2>6, <2>7
<1>3. IInv /\ [Next]_vars
        => (nextJobId' # nextJobId =>
              \A i \in Job :
                Live(i) /\ jobs'[i].status = "absent"
                => /\ Terminal(i)
                   /\ \A j \in Job : jobs'[j].sequence # 0
                                     => jobs[i].sequence < jobs[j].sequence)
  <2>1. IInv /\ [Next]_vars
          => \A i \in Job : Live(i) /\ jobs'[i].status = "absent" => Terminal(i)
    BY StepShape DEF Terminal, Live
  <2> QED
    BY <1>2, <2>1
<1> QED
  BY <1>3, Invariance, PTL DEF Spec, OldestLeaveFirst

\* A published catalog lists the jobs as they are after the step.
LEMMA PublishedIsCurrent ==
  ASSUME PublishCatalog
  PROVE  CatalogCurrent'
BY DEF PublishCatalog, CatalogCurrent, Descriptor

\* A step that publishes nothing and shows nothing keeps the catalog current.
LEMMA UnpublishedStaysCurrent ==
  ASSUME CatalogCurrent, UNCHANGED catalogVars,
         \A i \in Job : Unpublished(i)' \/ (jobs'[i].status = jobs[i].status /\ ~Unpublished(i))
  PROVE  CatalogCurrent'
BY DEF CatalogCurrent, catalogVars

\* Storing a record keeps the catalog current when the operation publishes, or
\* when the status is the one the catalog already lists.
LEMMA StoreCurrent ==
  ASSUME IInv, CatalogCurrent, NEW j \in Job, Mutable(j),
         NEW r \in Record, r.closed = jobs[j].closed,
         NEW listed \in BOOLEAN, listed \/ r.status = jobs[j].status,
         StoreAndPublish(j, r, listed)
  PROVE  CatalogCurrent'
<1>1. CASE listed /\ CanPublish(r)
  BY <1>1, PublishedIsCurrent DEF StoreAndPublish
<1>2. CASE ~(listed /\ CanPublish(r))
  <2>1. UNCHANGED catalogVars /\ jobs' = [jobs EXCEPT ![j] = Published(r)]
    BY <1>2 DEF StoreAndPublish
  <2>2. \A i \in Job : i # j => jobs'[i] = jobs[i]
    BY <2>1 DEF IInv, TypeOK
  <2>3. jobs'[j] = Published(r)
    BY <2>1 DEF IInv, TypeOK
  <2>4. Published(r).closed \/ Published(r).status = jobs[j].status
    <3>1. CASE CanPublish(r)
      <4>1. r.status = jobs[j].status /\ ~r.closed /\ r.revision < MaxU64
        BY <1>2, <3>1 DEF CanPublish
      <4> DEFINE n == [r EXCEPT !.revision = @ + 1]
                 q == SnapshotOf(n)
      <4>2. Published(r) = [n EXCEPT !.snapshot = q] /\ n.status = r.status
        BY <4>1 DEF Published, Record
      <4> HIDE DEF q
      <4> QED
        BY <4>1, <4>2 DEF Record
    <3>2. CASE ~CanPublish(r)
      BY <3>2 DEF CanPublish, Published, Record
    <3> QED
      BY <3>1, <3>2
  <2>5. ~Unpublished(j)
    BY DEF Mutable, Unpublished, Terminal
  <2>6. \A i \in Job : Unpublished(i)' \/ (jobs'[i].status = jobs[i].status /\ ~Unpublished(i))
    BY <2>2, <2>3, <2>4, <2>5 DEF Unpublished, Terminal
  <2> QED
    BY <2>1, <2>6, UnpublishedStaysCurrent
<1> QED
  BY <1>1, <1>2

\* A step that stores nothing but one record, which it could not publish.
LEMMA ClosedStaysCurrent ==
  ASSUME IInv, CatalogCurrent, NEW j \in Job, Mutable(j), NEW r,
         r.closed \/ (r.status \in TerminalStatus /\ r.sequence = 0),
         jobs' = [jobs EXCEPT ![j] = r], UNCHANGED catalogVars
  PROVE  CatalogCurrent'
<1>1. jobs'[j] = r /\ \A i \in Job : i # j => jobs'[i] = jobs[i]
  BY DEF IInv, TypeOK
<1>2. \A i \in Job : Unpublished(i)' \/ (jobs'[i].status = jobs[i].status /\ ~Unpublished(i))
  BY <1>1 DEF Unpublished, Terminal, CatalogCurrent
<1> QED
  BY <1>2, UnpublishedStaysCurrent

\* The common tail of the emitters publishes the catalog when the status changed.
LEMMA ConcludeCurrent ==
  ASSUME IInv, CatalogCurrent, NEW j \in Job, Mutable(j),
         NEW r \in Record, r.closed = jobs[j].closed, Conclude(j, r)
  PROVE  CatalogCurrent'
<1>1. CASE r.status \in TerminalStatus /\ terminalSequence < MaxU64
  <2> DEFINE d == [r EXCEPT !.sequence = terminalSequence + 1]
  <2>1. StoreAndPublish(j, d, TRUE)
    BY <1>1 DEF Conclude
  <2>2. terminalSequence + 1 \in 0 .. MaxU64
    BY <1>1, LimitAssumption DEF IInv, TypeOK
  <2>3. d \in Record /\ d.closed = jobs[j].closed
    BY <2>2 DEF Record
  <2> HIDE DEF d
  <2> QED
    BY <2>1, <2>3, StoreCurrent
<1>2. CASE r.status \in TerminalStatus /\ ~(terminalSequence < MaxU64)
  <2> DEFINE c == [r EXCEPT !.closed = TRUE]
  <2>1. jobs' = [jobs EXCEPT ![j] = c] /\ UNCHANGED catalogVars /\ c.closed
    BY <1>2 DEF Conclude, Record
  <2> HIDE DEF c
  <2> QED
    BY <2>1, ClosedStaysCurrent
<1>3. CASE r.status \notin TerminalStatus
  BY <1>3, StoreCurrent DEF Conclude
<1> QED
  BY <1>1, <1>2, <1>3
\* Nothing happens to the records of other jobs, nor to this one's.
LEMMA IgnoredStaysCurrent ==
  ASSUME CatalogCurrent, UNCHANGED <<jobs, catalogVars>>
  PROVE  CatalogCurrent'
BY DEF CatalogCurrent, Unpublished, Terminal, catalogVars

\* And so do emit_job_event, emit_direct_event and commit_completed.
LEMMA EmittersCurrent ==
  ASSUME IInv, CatalogCurrent, NEW j \in Job
  PROVE  /\ \A e \in CoreEvent : EmitJobEvent(j, e) => CatalogCurrent'
         /\ \A e \in {"Started", "failed", "retryable", "cancelled"} :
              EmitDirectEvent(j, e) => CatalogCurrent'
         /\ CommitCompleted(j) => CatalogCurrent'
<1>1. jobs[j] \in Record
  BY DEF IInv, TypeOK
<1>2. ASSUME NEW s \in Status \cup {"absent"}, NEW e
      PROVE  StatusAfter(s, e) \in Status \cup {"absent"}
  BY DEF StatusAfter, Status, TerminalStatus
<1>3. ASSUME NEW e \in CoreEvent, EmitJobEvent(j, e) PROVE CatalogCurrent'
  <2>1. CASE ~Mutable(j)
    BY <1>3, <2>1, IgnoredStaysCurrent DEF EmitJobEvent, Ignored
  <2>2. CASE Mutable(j) /\ e \in {"Completed", "Failed"}
    <3> DEFINE r == [jobs[j] EXCEPT !.failure = IF e = "Failed" THEN "final" ELSE @]
    <3>1. StoreAndPublish(j, r, TRUE)
      BY <1>3, <2>2 DEF EmitJobEvent
    <3>2. r \in Record /\ r.closed = jobs[j].closed
      BY <1>1 DEF Record
    <3> HIDE DEF r
    <3> QED
      BY <2>2, <3>1, <3>2, StoreCurrent
  <2>3. CASE Mutable(j) /\ e \notin {"Completed", "Failed"}
    <3> DEFINE t == StatusAfter(jobs[j].status, e)
               r == [jobs[j] EXCEPT !.status = t]
    <3>1. Conclude(j, r)
      BY <1>3, <2>3 DEF EmitJobEvent
    <3>2. t \in Status \cup {"absent"}
      BY <1>1, <1>2 DEF Record
    <3> HIDE DEF t
    <3>3. r \in Record /\ r.closed = jobs[j].closed
      BY <1>1, <3>2 DEF Record
    <3> HIDE DEF r
    <3> QED
      BY <2>3, <3>1, <3>3, ConcludeCurrent
  <2> QED
    BY <2>1, <2>2, <2>3
<1>4. ASSUME NEW e \in {"Started", "failed", "retryable", "cancelled"}, EmitDirectEvent(j, e)
      PROVE  CatalogCurrent'
  <2>1. CASE ~Mutable(j)
    BY <1>4, <2>1, IgnoredStaysCurrent DEF EmitDirectEvent, Ignored
  <2>2. CASE Mutable(j)
    <3> DEFINE v == IF jobs[j].status = "cancelling" /\ e # "Started" THEN "cancelled" ELSE e
               t == StatusAfter(jobs[j].status, v)
               b == IF v = "cancelled" THEN FALSE ELSE jobs[j].summary
               f == CASE v = "failed"    -> "final"
                      [] v = "retryable" -> "retryable"
                      [] OTHER           -> jobs[j].failure
               r == [jobs[j] EXCEPT !.status = t, !.summary = b, !.failure = f]
    <3>1. Conclude(j, r)
      BY <1>4, <2>2 DEF EmitDirectEvent
    <3>2. t \in Status \cup {"absent"}
      BY <1>1, <1>2 DEF Record
    <3>3. b \in BOOLEAN /\ f \in {"none", "final", "retryable"}
      BY <1>1 DEF Record
    <3> HIDE DEF t, b, f
    <3>4. r \in Record /\ r.closed = jobs[j].closed
      BY <1>1, <3>2, <3>3 DEF Record
    <3> HIDE DEF r
    <3> QED
      BY <2>2, <3>1, <3>4, ConcludeCurrent
  <2> QED
    BY <2>1, <2>2
<1>5. ASSUME CommitCompleted(j) PROVE CatalogCurrent'
  <2>1. CASE ~Mutable(j)
    BY <1>5, <2>1, IgnoredStaysCurrent DEF CommitCompleted, Ignored
  <2>2. CASE Mutable(j)
    <3> DEFINE c == jobs[j].status = "cancelling"
               t == IF c THEN "cancelled" ELSE "completed"
               r == [jobs[j] EXCEPT !.status = t, !.summary = ~c]
    <3>1. r \in Record /\ r.closed = jobs[j].closed /\ r.status \in TerminalStatus
          /\ r.sequence = jobs[j].sequence
      BY <1>1 DEF Record, Status, TerminalStatus
    <3>2. CASE terminalSequence < MaxU64
      <4> DEFINE d == [r EXCEPT !.sequence = terminalSequence + 1]
      <4>1. StoreAndPublish(j, d, TRUE)
        BY <1>5, <2>2, <3>2 DEF CommitCompleted
      <4>2. terminalSequence + 1 \in 0 .. MaxU64
        BY <3>2, LimitAssumption DEF IInv, TypeOK
      <4> HIDE DEF r
      <4>3. d \in Record /\ d.closed = jobs[j].closed
        BY <3>1, <4>2 DEF Record
      <4> HIDE DEF d
      <4> QED
        BY <2>2, <4>1, <4>3, StoreCurrent
    <3>3. CASE ~(terminalSequence < MaxU64)
      <4>1. jobs' = [jobs EXCEPT ![j] = r] /\ UNCHANGED catalogVars
        BY <1>5, <2>2, <3>3 DEF CommitCompleted
      <4>2. r.sequence = 0
        BY <2>2, <3>1 DEF IInv, RecordInv, Mutable, Terminal
      <4> HIDE DEF r
      <4> QED
        BY <2>2, <3>1, <4>1, <4>2, ClosedStaysCurrent
    <3> QED
      BY <3>2, <3>3
  <2> QED
    BY <2>1, <2>2
<1> QED
  BY <1>3, <1>4, <1>5

\* Every operation of one job leaves a current catalog current.
LEMMA OperationCurrent ==
  ASSUME IInv, CatalogCurrent, NEW j \in Job, OperationOn(j)
  PROVE  CatalogCurrent'
<1>1. jobs[j] \in Record /\ worker[j] \in Thread /\ WorkerInv(j)
  BY DEF IInv, TypeOK
<1>2. CASE ConfigureRecoveryFacts(j)
  <2>1. CASE ~Mutable(j)
    BY <1>2, <2>1, IgnoredStaysCurrent DEF ConfigureRecoveryFacts
  <2>2. CASE Mutable(j)
    <3> DEFINE r == [jobs[j] EXCEPT !.facts = worker[j].kind]
    <3>1. StoreAndPublish(j, r, TRUE)
      BY <1>2, <2>2 DEF ConfigureRecoveryFacts
    <3>2. r \in Record /\ r.closed = jobs[j].closed
      BY <1>1 DEF Record, Thread
    <3> HIDE DEF r
    <3> QED
      BY <2>2, <3>1, <3>2, StoreCurrent
  <2> QED
    BY <2>1, <2>2
<1>3. CASE BeginWork(j)
  BY <1>3, IgnoredStaysCurrent, EmittersCurrent DEF BeginWork, Ignored
<1>4. CASE (\E e \in CoreEvent : ArriveAtGate(j, e)) \/ PassGate(j) \/ (\E o \in Outcome : EngineReturns(j, o))
  BY <1>4, IgnoredStaysCurrent DEF ArriveAtGate, PassGate, EngineReturns
<1>5. CASE Emit(j)
  BY <1>1, <1>5, EmittersCurrent DEF Emit, WorkerInv, At
<1>6. CASE Settle(j)
  BY <1>1, <1>6, EmittersCurrent DEF Settle, WorkerInv, At, Outcome
<1>7. CASE QuitOverwritePrompt(j)
  <2>1. UNCHANGED catalogVars /\ \A i \in Job : jobs'[i].status = jobs[i].status
        /\ jobs'[i].closed = jobs[i].closed /\ jobs'[i].sequence = jobs[i].sequence
    BY <1>1, <1>7 DEF QuitOverwritePrompt, IInv, TypeOK, Record
  <2>2. CASE catalogClosed
    BY <2>1, <2>2 DEF CatalogCurrent, catalogVars
  <2>3. CASE ~catalogClosed
    BY <2>1, <2>3 DEF CatalogCurrent, Unpublished, Terminal, catalogVars
  <2> QED
    BY <2>2, <2>3
<1>8. CASE Panic(j)
  BY <1>8, IgnoredStaysCurrent, EmittersCurrent DEF Panic, Ignored
<1>9. ASSUME NEW r \in Record, r.closed = jobs[j].closed, Control(j, r) PROVE CatalogCurrent'
  BY <1>9, StoreCurrent DEF Control
<1>10. CASE RequestCancel(j)
  <2> DEFINE r == [jobs[j] EXCEPT !.status = "cancelling", !.token = TRUE, !.paused = FALSE]
  <2>1. r \in Record /\ r.closed = jobs[j].closed
    BY <1>1 DEF Record, Status
  <2> QED
    BY <1>9, <1>10, <2>1 DEF RequestCancel
<1>11. CASE RequestPause(j)
  <2> DEFINE r == [jobs[j] EXCEPT !.status = "paused", !.paused = TRUE,
                                  !.pausedFrom = jobs[j].status]
  <2>1. r \in Record /\ r.closed = jobs[j].closed
    BY <1>1, <1>11 DEF Record, Status, RequestPause
  <2> QED
    BY <1>9, <1>11, <2>1 DEF RequestPause
<1>12. CASE RequestResume(j)
  <2> DEFINE t == IF jobs[j].pausedFrom = "none" THEN "running" ELSE jobs[j].pausedFrom
             r == [jobs[j] EXCEPT !.paused = FALSE, !.pausedFrom = "none", !.status = t]
  <2>1. Control(j, r)
    BY <1>12 DEF RequestResume
  <2>2. t \in {"queued", "running"}
    BY <1>1 DEF Record
  <2> HIDE DEF t
  <2>3. r \in Record /\ r.closed = jobs[j].closed
    BY <1>1, <2>2 DEF Record, Status
  <2> QED
    BY <1>9, <2>1, <2>3
<1> QED
  BY <1>2, <1>3, <1>4, <1>5, <1>6, <1>7, <1>8, <1>10, <1>11, <1>12 DEF OperationOn, WorkerStep

\* A refused request evicts nothing: with every place taken by what eviction
\* leaves, there was nothing to evict. So not publishing it hides nothing.
LEMMA RefusalEvictsNothing ==
  ASSUME IInv, AdmissionBound, ~HasRoom
  PROVE  Retained = jobs
<1> DEFINE kept == {i \in Job : Retained[i].status # "absent"}
<1>1. kept \subseteq Occupied /\ NoRecord.status = "absent"
  <2>1. NoRecord.status = "absent"
    BY DEF NoRecord
  <2> QED
    BY <2>1 DEF Retained, Occupied, Live
<1>2. /\ Cardinality(kept) <= Cardinality(Occupied)
      /\ Cardinality(kept) = Cardinality(Occupied) => kept = Occupied
      /\ Cardinality(kept) \in Nat /\ Cardinality(Occupied) \in Nat
  BY <1>1, JobSets DEF Occupied
<1>3. Cardinality(Occupied) <= MaxAdmitted /\ ~(Cardinality(kept) < MaxAdmitted)
  BY DEF AdmissionBound, HasRoom, Places, Occupied
<1>4. kept = Occupied
  <2> HIDE DEF kept
  <2> QED
    BY <1>2, <1>3, LimitAssumption
<1>5. Evicted = {}
  <2> SUFFICES ASSUME NEW i \in Evicted PROVE FALSE
    OBVIOUS
  <2>1. i \in Occupied
    BY EvictedHaveEnded DEF Occupied, Live, Terminal, TerminalStatus
  <2> QED
    BY <1>1, <1>4, <2>1 DEF Retained
<1> QED
  BY <1>5 DEF Retained, IInv, TypeOK

\* The catalog the coordinator counts work with lists every job in its present
\* status and none that is gone, whatever was admitted, refused, evicted,
\* ended or dismissed.
THEOREM CatalogIsCurrent == Spec => []CatalogCurrent
<1>1. Init => CatalogCurrent
  BY DEF Init, CatalogCurrent, Descriptor
<1>2. IInv /\ AdmissionBound /\ CatalogCurrent /\ [Next]_vars => CatalogCurrent'
  <2> SUFFICES ASSUME IInv, AdmissionBound, CatalogCurrent, [Next]_vars PROVE CatalogCurrent'
    OBVIOUS
  <2>1. ASSUME NEW k \in Kind, Accept(k) PROVE CatalogCurrent'
    <3>1. CASE RefuseAdmission
      BY <3>1, RefusalEvictsNothing, IgnoredStaysCurrent DEF RefuseAdmission
    <3>2. CASE RollBackAdmission \/ Admit(k)
      BY <3>2, PublishedIsCurrent DEF RollBackAdmission, Admit
    <3> QED
      BY <2>1, <3>1, <3>2 DEF Accept
  <2>2. ASSUME NEW n \in 1 .. MaxJobs, AcknowledgeAccepted(n) PROVE CatalogCurrent'
    BY <2>2, IgnoredStaysCurrent DEF AcknowledgeAccepted
  <2>3. ASSUME NEW j \in Job, Dismiss(j) PROVE CatalogCurrent'
    BY <2>3, PublishedIsCurrent DEF Dismiss
  <2>4. ASSUME NEW j \in Job, OperationOn(j) PROVE CatalogCurrent'
    BY <2>4, OperationCurrent
  <2>5. CASE UNCHANGED vars
    BY <2>5, IgnoredStaysCurrent DEF vars, catalogVars
  <2> QED
    BY <2>1, <2>2, <2>3, <2>4, <2>5 DEF Next, OperationOn
<1> QED
  BY <1>1, <1>2, Invariance, AdmissionIsBounded, PTL DEF Spec
=============================================================================
